-------------------------- MODULE AttributionProofs --------------------------
(***************************************************************************)
(* What TLAPS proves of Attribution for every number of transactions,      *)
(* names and answers: a name is one Participant and every Attribution      *)
(* names one that is there; every transaction stays inside its plan; and a *)
(* decision that nobody overlapped stands until the next model answer.     *)
(***************************************************************************)
EXTENDS Attribution, FiniteSetTheorems, WellFoundedInduction, TLAPS

-----------------------------------------------------------------------------
(* Names: the inductive invariant.                                         *)

Tables == /\ DOMAIN new = Transactions
          /\ DOMAIN added = Transactions

\* A row a transaction has inserted bears its mark.
Marked == \A t \in Transactions : \A p \in new[t] : p = <<p[1], t>>

\* The unique key: a name is inserted once, committed or not.
UniqueNames ==
    /\ \A p, q \in participants : p[1] = q[1] => p = q
    /\ \A t \in Transactions : \A p \in new[t], q \in participants : p[1] # q[1]
    /\ \A t, u \in Transactions :
           t # u => \A p \in new[t], q \in new[u] : p[1] # q[1]

\* A transaction names Participants that are committed or its own.
Named ==
    /\ \A a \in attributions : a.who \in participants
    /\ \A t \in Transactions : \A a \in added[t] : a.who \in Visible(t)

NamesInv == Tables /\ Marked /\ UniqueNames /\ Named

-----------------------------------------------------------------------------
(* The steps.                                                              *)

\* A transaction that names Participant p names one it can see.
LEMMA ResolvedNames ==
    ASSUME NamesInv, NEW t \in Transactions, NEW p \in Visible(t)', Resolved(t, p),
           UNCHANGED participants,
           \A u \in Transactions : new[u] \subseteq new'[u]
    PROVE  /\ DOMAIN added' = Transactions
           /\ \A u \in Transactions : \A a \in added'[u] : a.who \in Visible(u)'
<1> DEFINE c == plan[t][pos[t]][1]
           a0 == [cluster |-> c, who |-> p, id |-> <<t, pos[t]>>,
                  provenance |-> IF t \in Humans THEN "confirmed" ELSE "inferred"]
<1>1. DOMAIN added' = Transactions
  BY DEF Resolved, NamesInv, Tables
<1>2. \A u \in Transactions : added'[u] \subseteq added[u] \cup (IF u = t THEN {a0} ELSE {})
  BY DEF Resolved, NamesInv, Tables
<1>3. \A u \in Transactions : Visible(u) \subseteq Visible(u)'
  BY DEF Visible
<1>4. a0.who = p
  OBVIOUS
<1> QED
  BY <1>1, <1>2, <1>3, <1>4 DEF NamesInv, Named

\* Looking a name up finds a Participant, or leaves it to the insert.
LEMMA LookStep ==
    ASSUME NamesInv, NEW t \in Transactions, Look(t)
    PROVE  NamesInv'
<1>1. UNCHANGED <<participants, attributions, new>>
  BY DEF Look, tables
<1>2. CASE Rows(Visible(t), NameOf(t)) = {}
  BY <1>1, <1>2 DEF Look, NamesInv, Tables, Marked, UniqueNames, Named, Visible
<1>3. CASE Rows(Visible(t), NameOf(t)) # {}
  <2>1. PICK p \in Rows(Visible(t), NameOf(t)) : Resolved(t, p)
    BY <1>3 DEF Look
  <2>2. p \in Visible(t)'
    BY <1>1, <2>1 DEF Rows, Visible
  <2>3. /\ DOMAIN added' = Transactions
        /\ \A u \in Transactions : \A a \in added'[u] : a.who \in Visible(u)'
    BY <1>1, <2>1, <2>2, ResolvedNames
  <2> QED
    BY <1>1, <2>3 DEF NamesInv, Tables, Marked, UniqueNames, Named
<1> QED
  BY <1>2, <1>3

\* An insert waits for whoever has inserted the name, and so does not repeat it:
\* the row is there by then, and is used, or it never will be.
LEMMA InsertStep ==
    ASSUME NamesInv, NEW t \in Transactions, Insert(t)
    PROVE  NamesInv'
<1> DEFINE n == NameOf(t)
           mine == <<n, t>>
<1>1. UNCHANGED <<participants, attributions>>
  BY DEF Insert, tables
<1>2. \A u \in Transactions \ {t} : \A p \in new[u] : p[1] # n
  BY DEF Insert, Rows
<1>3. CASE Taken(t)
  <2>1. Winner(t) \in participants
    BY <1>3 DEF Taken, Winner, Rows
  <2>2. UNCHANGED new /\ Resolved(t, Winner(t))
    BY <1>3 DEF Insert
  <2>3. /\ DOMAIN added' = Transactions
        /\ \A u \in Transactions : \A a \in added'[u] : a.who \in Visible(u)'
    BY <1>1, <2>1, <2>2, ResolvedNames DEF Visible
  <2> QED
    BY <1>1, <2>2, <2>3 DEF NamesInv, Tables, Marked, UniqueNames, Named
<1>4. CASE ~Taken(t)
  <2>1. /\ new' = [new EXCEPT ![t] = @ \cup {mine}]
        /\ Resolved(t, mine)
    BY <1>4 DEF Insert
  <2>2. /\ DOMAIN new' = Transactions
        /\ \A u \in Transactions :
               new'[u] = IF u = t THEN new[t] \cup {mine} ELSE new[u]
    BY <2>1 DEF NamesInv, Tables
  <2>3. \A q \in participants : q[1] # n
    BY <1>4 DEF Taken, Rows
  <2>4. mine[1] = n
    OBVIOUS
  <2>5. Marked' /\ UniqueNames'
    BY <1>1, <1>2, <2>2, <2>3, <2>4 DEF NamesInv, Marked, UniqueNames
  <2>6. mine \in Visible(t)' /\ \A u \in Transactions : new[u] \subseteq new'[u]
    BY <2>2 DEF Visible
  <2>7. /\ DOMAIN added' = Transactions
        /\ \A u \in Transactions : \A a \in added'[u] : a.who \in Visible(u)'
    BY <1>1, <2>1, <2>6, ResolvedNames
  <2> QED
    BY <1>1, <2>2, <2>5, <2>7 DEF NamesInv, Tables, Named
<1> QED
  BY <1>3, <1>4

\* A commit makes a transaction's rows everybody's.
LEMMA CommitStep ==
    ASSUME NamesInv, NEW t \in Transactions, Commit(t)
    PROVE  NamesInv'
<1>1. /\ participants' = participants \cup new[t]
      /\ attributions' \subseteq attributions \cup added[t]
      /\ new' = [new EXCEPT ![t] = {}] /\ added' = [added EXCEPT ![t] = {}]
  BY DEF Commit, Forget
<1>2. /\ DOMAIN new' = Transactions /\ DOMAIN added' = Transactions
      /\ \A u \in Transactions : new'[u] = IF u = t THEN {} ELSE new[u]
      /\ \A u \in Transactions : added'[u] = IF u = t THEN {} ELSE added[u]
  BY <1>1 DEF NamesInv, Tables
<1>3. \A p, q \in new[t] : p[1] = q[1] => p = q
  BY DEF NamesInv, Marked
<1>4. Marked' /\ UniqueNames'
  BY <1>1, <1>2, <1>3 DEF NamesInv, Marked, UniqueNames
<1>5. Named'
  BY <1>1, <1>2 DEF NamesInv, Named, Visible
<1> QED
  BY <1>2, <1>4, <1>5 DEF NamesInv, Tables

\* A rollback takes them away: nobody else can have named them.
LEMMA RollbackStep ==
    ASSUME NamesInv, NEW t \in Transactions, Rollback(t)
    PROVE  NamesInv'
<1>1. /\ UNCHANGED <<participants, attributions>>
      /\ new' = [new EXCEPT ![t] = {}] /\ added' = [added EXCEPT ![t] = {}]
  BY DEF Rollback, Forget, tables
<1>2. /\ DOMAIN new' = Transactions /\ DOMAIN added' = Transactions
      /\ \A u \in Transactions : new'[u] = IF u = t THEN {} ELSE new[u]
      /\ \A u \in Transactions : added'[u] = IF u = t THEN {} ELSE added[u]
  BY <1>1 DEF NamesInv, Tables
<1> QED
  BY <1>1, <1>2 DEF NamesInv, Tables, Marked, UniqueNames, Named, Visible

\* The other statements insert and commit nothing.
LEMMA OtherStep ==
    ASSUME NamesInv, UNCHANGED <<participants, attributions, new, added>>
    PROVE  NamesInv'
BY DEF NamesInv, Tables, Marked, UniqueNames, Named, Visible

-----------------------------------------------------------------------------

\* A name is one Participant, however many transactions meet it at once and
\* whichever of them is rolled back, and no Attribution names one that is gone.
THEOREM OneParticipantPerNameHolds == Spec => []OneParticipantPerName
<1>1. Init => NamesInv
  BY DEF Init, NamesInv, Tables, Marked, UniqueNames, Named
<1>2. NamesInv /\ [Next]_vars => NamesInv'
  <2> SUFFICES ASSUME NamesInv, [Next]_vars
               PROVE  NamesInv'
    OBVIOUS
  <2>1. ASSUME NEW t \in Transactions, Start(t)
        PROVE  NamesInv'
    BY <2>1, OtherStep DEF Start, ConfirmBegin, MachineBegin, Begin, tables, pending
  <2>2. ASSUME NEW t \in Transactions, ConfirmFind(t) \/ ConfirmDelete(t)
        PROVE  NamesInv'
    BY <2>2, OtherStep DEF ConfirmFind, ConfirmDelete, tables
  <2>3. ASSUME NEW t \in Transactions, Deadlock(t) \/ Fail(t)
        PROVE  NamesInv'
    BY <2>3, RollbackStep DEF Deadlock, Fail
  <2>4. CASE UNCHANGED vars
    BY <2>4, OtherStep DEF vars, tables, pending
  <2> QED
    BY <2>1, <2>2, <2>3, <2>4, LookStep, InsertStep, CommitStep DEF Next, Proceed
<1>3. NamesInv => OneParticipantPerName
  BY DEF NamesInv, UniqueNames, Named, OneParticipantPerName
<1> QED
  BY <1>1, <1>2, <1>3, PTL DEF Spec

-----------------------------------------------------------------------------
(* Types.                                                                  *)

People  == Names \X Transactions
Holders == [cluster : Clusters, who : People, id : Transactions \X Nat,
            provenance : {"inferred", "confirmed"}]
Pairs   == (Clusters \cup {NoCluster}) \X (Names \cup {NoName})

Domains ==
    /\ DOMAIN plan = Transactions /\ DOMAIN pos = Transactions
    /\ DOMAIN found = Transactions /\ DOMAIN doomed = Transactions
    /\ DOMAIN new = Transactions /\ DOMAIN added = Transactions

\* A plan is a person's one name for one cluster, or a model's answer.
IsPlan(t, p) ==
    /\ DOMAIN p = 1..Len(p) /\ Len(p) \in Nat
    /\ \A i \in DOMAIN p : p[i] \in Pairs
    /\ t \in Machines => \A i \in DOMAIN p : p[i][2] \in Names
    /\ t \in Humans => Len(p) = 1 /\ p[1][1] \in Clusters

\* Where a transaction is in its plan; one that does not run has none.
Planned ==
    \A t \in Transactions :
        /\ Active(t) => IsPlan(t, plan[t]) /\ (t \in Humans => pos[t] = 1)
        /\ pc[t] \in {"find", "delete"} => t \in Humans
        /\ pc[t] \in {"look", "insert"} => pos[t] \in DOMAIN plan[t] /\ NameOf(t) \in Names
        /\ ~Active(t) => /\ plan[t] = <<>> /\ pos[t] = 1
                         /\ found[t] = {} /\ doomed[t] = {} /\ new[t] = {} /\ added[t] = {}

Typed == TypeOK /\ Domains /\ Planned

\* People and models do not share a transaction.
LEMMA Kinds ==
    ASSUME NEW t \in Transactions
    PROVE  t \in Humans <=> t \notin Machines
BY AttributionAssumption DEF Transactions, Machines

\* A transaction that starts has a plan.
LEMMA Starting ==
    ASSUME NEW t \in Transactions, Start(t)
    PROVE  \E p, to : /\ Begin(t, p, to) /\ IsPlan(t, p)
                      /\ to = IF t \in Humans THEN "find"
                              ELSE IF p = <<>> THEN "commit" ELSE "look"
                      /\ to = "look" => 1 \in DOMAIN p
<1>1. CASE t \in Humans
  <2>1. PICK c \in Clusters, n \in Names \cup {NoName} : Begin(t, << <<c, n>> >>, "find")
    BY <1>1, Kinds DEF Start, ConfirmBegin, Machines
  <2> DEFINE p == << <<c, n>> >>
  <2>2. DOMAIN p = 1..1 /\ Len(p) = 1 /\ p[1] = <<c, n>>
    OBVIOUS
  <2>3. IsPlan(t, p)
    BY <1>1, <2>2, Kinds DEF IsPlan, Pairs
  <2> QED
    BY <1>1, <2>1, <2>3
<1>2. CASE t \notin Humans
  <2>0. PICK cs \in {Clusters, {NoCluster}} : \E p \in Answers(cs) : MachineBegin(t, p)
    BY <1>2 DEF Start
  <2>1. PICK p \in Answers(cs) : MachineBegin(t, p)
    BY <2>0
  <2>2. PICK k \in 0..MaxProposed : p \in [1..k -> cs \X Names]
    BY <2>1 DEF Answers
  <2>3. p \in Seq(cs \X Names) /\ k \in Nat
    BY <2>2, AttributionAssumption
  <2>4. DOMAIN p = 1..Len(p) /\ Len(p) \in Nat
    BY <2>3
  <2>5. \A i \in DOMAIN p : p[i] \in Pairs /\ p[i][2] \in Names
    BY <2>2 DEF Pairs
  <2>6. p # <<>> => 1 \in DOMAIN p
    BY <2>3, <2>4
  <2>7. IsPlan(t, p)
    BY <1>2, <2>4, <2>5 DEF IsPlan
  <2> QED
    BY <1>2, <2>1, <2>6, <2>7 DEF MachineBegin
<1> QED
  BY <1>1, <1>2

LEMMA StartTyped ==
    ASSUME Typed, NEW t \in Transactions, Start(t)
    PROVE  Typed'
<1>1. PICK p, to : /\ Begin(t, p, to) /\ IsPlan(t, p)
                   /\ to = IF t \in Humans THEN "find"
                           ELSE IF p = <<>> THEN "commit" ELSE "look"
                   /\ to = "look" => 1 \in DOMAIN p
  BY Starting
<1>2. /\ UNCHANGED <<participants, attributions, pos, found, doomed, new, added, decided, faults>>
      /\ pc[t] = "idle" /\ pc' = [pc EXCEPT ![t] = to] /\ plan' = [plan EXCEPT ![t] = p]
      /\ raced' \subseteq raced \cup {t} \cup Rivals(t, p)
  BY <1>1 DEF Begin, tables, pending
<1>3. /\ pc'[t] = to /\ plan'[t] = p /\ DOMAIN plan' = Transactions
      /\ \A u \in Transactions : u # t => pc'[u] = pc[u] /\ plan'[u] = plan[u]
  BY <1>2 DEF Typed, TypeOK, Domains
<1>4. Domains'
  BY <1>2, <1>3 DEF Typed, Domains
<1>5. pos[t] = 1 /\ ~Active(t)
  BY <1>2 DEF Typed, Planned, Active
<1>6. TypeOK'
  <2>1. pc' \in [Transactions -> {"idle", "find", "delete", "look", "insert", "commit",
                                 "done", "aborted"}]
    BY <1>1, <1>2 DEF Typed, TypeOK
  <2>2. raced' \subseteq Transactions
    BY <1>2 DEF Typed, TypeOK, Rivals
  <2>3. \A u \in Transactions :
            /\ pos[u] \in DOMAIN plan'[u] \cup {1}
            /\ \A i \in DOMAIN plan'[u] : plan'[u][i] \in Pairs
    BY <1>1, <1>3, <1>5 DEF Typed, TypeOK, IsPlan, Pairs
  <2> QED
    BY <1>2, <2>1, <2>2, <2>3 DEF Typed, TypeOK, Pairs
<1>7. Planned'
  <2> SUFFICES ASSUME NEW u \in Transactions
               PROVE  /\ Active(u)' => IsPlan(u, plan'[u]) /\ (u \in Humans => pos[u] = 1)
                      /\ pc'[u] \in {"find", "delete"} => u \in Humans
                      /\ pc'[u] \in {"look", "insert"} =>
                             pos[u] \in DOMAIN plan'[u] /\ NameOf(u)' \in Names
                      /\ ~Active(u)' => /\ plan'[u] = <<>> /\ pos[u] = 1
                                        /\ found[u] = {} /\ doomed[u] = {}
                                        /\ new[u] = {} /\ added[u] = {}
    BY <1>2 DEF Planned
  <2>1. CASE u # t
    BY <1>2, <1>3, <2>1 DEF Typed, Planned, Active, NameOf
  <2>2. CASE u = t
    <3>1. Active(t)' /\ pc'[t] \notin {"insert", "delete"}
      BY <1>1, <1>3 DEF Active
    <3>2. pc'[t] = "look" => NameOf(t)' \in Names
      BY <1>1, <1>2, <1>3, <1>5, Kinds DEF NameOf, IsPlan
    <3> QED
      BY <1>1, <1>3, <1>5, <2>2, <3>1, <3>2
  <2> QED
    BY <2>1, <2>2
<1> QED
  BY <1>4, <1>6, <1>7 DEF Typed

\* What a statement of t leaves alone is as it was for the others.
LEMMA OthersPlanned ==
    ASSUME Typed, NEW t \in Transactions, NEW u \in Transactions, u # t,
           pc'[u] = pc[u], plan'[u] = plan[u], pos'[u] = pos[u],
           found'[u] = found[u], doomed'[u] = doomed[u],
           new'[u] = new[u], added'[u] = added[u]
    PROVE  /\ Active(u)' => IsPlan(u, plan'[u]) /\ (u \in Humans => pos'[u] = 1)
           /\ pc'[u] \in {"find", "delete"} => u \in Humans
           /\ pc'[u] \in {"look", "insert"} =>
                  pos'[u] \in DOMAIN plan'[u] /\ NameOf(u)' \in Names
           /\ ~Active(u)' => /\ plan'[u] = <<>> /\ pos'[u] = 1
                             /\ found'[u] = {} /\ doomed'[u] = {}
                             /\ new'[u] = {} /\ added'[u] = {}
BY DEF Typed, Planned, Active, NameOf

\* A name resolved: the next one of the plan, or the commit.
LEMMA ResolvedTyped ==
    ASSUME Typed, NEW t \in Transactions, pc[t] \in {"look", "insert"},
           NEW p \in People, Resolved(t, p),
           UNCHANGED <<participants, attributions, plan, found, doomed, history>>,
           DOMAIN new' = Transactions, new'[t] \subseteq People,
           \A u \in Transactions : u # t => new'[u] = new[u]
    PROVE  Typed'
<1> DEFINE c  == plan[t][pos[t]][1]
           a0 == [cluster |-> c, who |-> p, id |-> <<t, pos[t]>>,
                  provenance |-> IF t \in Humans THEN "confirmed" ELSE "inferred"]
<1>1. /\ UNCHANGED <<participants, attributions, plan, found, doomed, raced, decided, faults>>
      /\ added' = [added EXCEPT ![t] = IF c = NoCluster THEN @ ELSE @ \cup {a0}]
  BY DEF Resolved, history
<1>2. /\ Active(t) /\ IsPlan(t, plan[t]) /\ (t \in Humans => pos[t] = 1)
      /\ pos[t] \in DOMAIN plan[t]
  BY DEF Typed, Planned, Active
<1>3. pos[t] \in Nat /\ Len(plan[t]) \in Nat
  BY <1>2 DEF IsPlan
<1>4. c \in Clusters \cup {NoCluster}
  BY <1>2 DEF IsPlan, Pairs
<1>5. c # NoCluster => a0 \in Holders
  BY <1>3, <1>4 DEF Holders
<1>6. /\ DOMAIN added' = Transactions /\ added'[t] \subseteq Holders
      /\ \A u \in Transactions : u # t => added'[u] = added[u]
  BY <1>1, <1>5 DEF Typed, TypeOK, Domains, Holders, People
<1>7. /\ pc' \in [Transactions -> {"idle", "find", "delete", "look", "insert", "commit",
                                  "done", "aborted"}]
      /\ DOMAIN pos' = Transactions
      /\ \A u \in Transactions : u # t => pc'[u] = pc[u] /\ pos'[u] = pos[u]
  BY DEF Resolved, Typed, TypeOK, Domains
<1>8. \/ pc'[t] = "commit" /\ pos'[t] = pos[t]
      \/ pc'[t] = "look" /\ pos'[t] = pos[t] + 1 /\ pos[t] # Len(plan[t])
  BY DEF Resolved, Typed, TypeOK, Domains, Last
<1>9. /\ pos'[t] \in DOMAIN plan[t]
      /\ pc'[t] = "look" => t \notin Humans
  BY <1>2, <1>3, <1>8 DEF IsPlan
<1>10. Domains'
  BY <1>1, <1>6, <1>7 DEF Typed, Domains
<1>11. TypeOK'
  <2>1. \A u \in Transactions : pos'[u] \in DOMAIN plan'[u] \cup {1}
    BY <1>1, <1>7, <1>9 DEF Typed, TypeOK
  <2>2. \A u \in Transactions : new'[u] \subseteq People /\ added'[u] \subseteq Holders
    BY <1>6 DEF Typed, TypeOK, People, Holders
  <2> QED
    BY <1>1, <1>7, <2>1, <2>2 DEF Typed, TypeOK, People, Holders
<1>12. Planned'
  <2>1. ASSUME NEW u \in Transactions, u # t
        PROVE  /\ Active(u)' => IsPlan(u, plan'[u]) /\ (u \in Humans => pos'[u] = 1)
               /\ pc'[u] \in {"find", "delete"} => u \in Humans
               /\ pc'[u] \in {"look", "insert"} =>
                      pos'[u] \in DOMAIN plan'[u] /\ NameOf(u)' \in Names
               /\ ~Active(u)' => /\ plan'[u] = <<>> /\ pos'[u] = 1
                                 /\ found'[u] = {} /\ doomed'[u] = {}
                                 /\ new'[u] = {} /\ added'[u] = {}
    BY <1>1, <1>6, <1>7, <2>1, OthersPlanned
  <2>2. pc'[t] = "look" => NameOf(t)' \in Names
    BY <1>1, <1>2, <1>9, Kinds DEF NameOf, IsPlan
  <2>3. /\ Active(t)' /\ IsPlan(t, plan'[t]) /\ (t \in Humans => pos'[t] = 1)
        /\ pc'[t] \in {"look", "commit"} /\ pos'[t] \in DOMAIN plan'[t]
    BY <1>1, <1>2, <1>8, <1>9 DEF Active
  <2> QED
    BY <2>1, <2>2, <2>3 DEF Planned
<1> QED
  BY <1>10, <1>11, <1>12 DEF Typed

LEMMA LookTyped ==
    ASSUME Typed, NEW t \in Transactions, Look(t)
    PROVE  Typed'
<1>1. CASE Rows(Visible(t), NameOf(t)) = {}
  <2>1. /\ pc[t] = "look" /\ pc' = [pc EXCEPT ![t] = "insert"]
        /\ UNCHANGED <<participants, attributions, plan, pos, found, doomed, new, added,
                       raced, decided, faults>>
    BY <1>1 DEF Look, tables, history
  <2>2. Planned'
    BY <2>1 DEF Typed, TypeOK, Planned, Active, NameOf
  <2> QED
    BY <2>1, <2>2 DEF Typed, TypeOK, Domains
<1>2. CASE Rows(Visible(t), NameOf(t)) # {}
  <2>1. PICK p \in Rows(Visible(t), NameOf(t)) : Resolved(t, p)
    BY <1>2 DEF Look
  <2>2. p \in People
    BY <2>1 DEF Rows, Visible, Typed, TypeOK, People
  <2>3. pc[t] = "look" /\ UNCHANGED <<participants, attributions, plan, found, doomed, new, history>>
    BY DEF Look, tables
  <2>4. DOMAIN new' = Transactions /\ new'[t] \subseteq People
    BY <2>3 DEF Typed, TypeOK, Domains, People
  <2> QED
    BY <2>1, <2>2, <2>3, <2>4, ResolvedTyped
<1> QED
  BY <1>1, <1>2

LEMMA InsertTyped ==
    ASSUME Typed, NEW t \in Transactions, Insert(t)
    PROVE  Typed'
<1>1. /\ pc[t] = "insert"
      /\ UNCHANGED <<participants, attributions, plan, found, doomed, history>>
  BY DEF Insert, tables
<1>2. NameOf(t) \in Names
  BY <1>1 DEF Typed, Planned
<1>3. CASE Taken(t)
  <2>1. Winner(t) \in People
    BY <1>3 DEF Taken, Winner, Rows, Typed, TypeOK, People
  <2>2. UNCHANGED new /\ Resolved(t, Winner(t))
    BY <1>3 DEF Insert
  <2>3. DOMAIN new' = Transactions /\ new'[t] \subseteq People
    BY <2>2 DEF Typed, TypeOK, Domains, People
  <2> QED
    BY <1>1, <2>1, <2>2, <2>3, ResolvedTyped
<1>4. CASE ~Taken(t)
  <2>1. /\ new' = [new EXCEPT ![t] = @ \cup {<<NameOf(t), t>>}]
        /\ Resolved(t, <<NameOf(t), t>>)
    BY <1>4 DEF Insert
  <2>2. <<NameOf(t), t>> \in People
    BY <1>2 DEF People
  <2>3. /\ DOMAIN new' = Transactions /\ new'[t] \subseteq People
        /\ \A u \in Transactions : u # t => new'[u] = new[u]
    BY <2>1, <2>2 DEF Typed, TypeOK, Domains, People
  <2> QED
    BY <1>1, <2>1, <2>2, <2>3, ResolvedTyped
<1> QED
  BY <1>3, <1>4

LEMMA DeleteTyped ==
    ASSUME Typed, NEW t \in Transactions, ConfirmFind(t) \/ ConfirmDelete(t)
    PROVE  Typed'
<1>1. CASE ConfirmFind(t)
  <2>1. /\ pc[t] = "find" /\ pc' = [pc EXCEPT ![t] = "delete"]
        /\ found' = [found EXCEPT ![t] = Found(t)] /\ Found(t) \subseteq attributions
        /\ UNCHANGED <<participants, attributions, plan, pos, doomed, new, added,
                       raced, decided, faults>>
    BY <1>1 DEF ConfirmFind, tables, history, Found
  <2>2. Planned'
    BY <2>1 DEF Typed, TypeOK, Domains, Planned, Active, NameOf
  <2> QED
    BY <2>1, <2>2 DEF Typed, TypeOK, Domains
<1>2. CASE ConfirmDelete(t)
  <2> DEFINE to == IF NameOf(t) = NoName THEN "commit" ELSE "look"
  <2>1. /\ pc[t] = "delete" /\ pc' = [pc EXCEPT ![t] = to]
        /\ found' = [found EXCEPT ![t] = {}]
        /\ doomed' = [doomed EXCEPT ![t] = found[t] \cap attributions]
        /\ UNCHANGED <<participants, attributions, plan, pos, new, added,
                       raced, decided, faults>>
    BY <1>2 DEF ConfirmDelete, tables, history
  <2>2. /\ Active(t) /\ t \in Humans /\ pos[t] = 1 /\ IsPlan(t, plan[t])
    BY <2>1 DEF Typed, Planned, Active
  <2>3. pos[t] \in DOMAIN plan[t] /\ NameOf(t) \in Names \cup {NoName}
    BY <2>2 DEF IsPlan, Pairs, NameOf
  <2>4. /\ pc'[t] = to /\ NameOf(t)' = NameOf(t)
        /\ \A u \in Transactions : u # t => pc'[u] = pc[u] /\ found'[u] = found[u]
                                            /\ doomed'[u] = doomed[u]
    BY <2>1 DEF Typed, TypeOK, Domains, NameOf
  <2>5. Planned'
    <3>1. ASSUME NEW u \in Transactions, u # t
          PROVE  /\ Active(u)' => IsPlan(u, plan'[u]) /\ (u \in Humans => pos'[u] = 1)
                 /\ pc'[u] \in {"find", "delete"} => u \in Humans
                 /\ pc'[u] \in {"look", "insert"} =>
                        pos'[u] \in DOMAIN plan'[u] /\ NameOf(u)' \in Names
                 /\ ~Active(u)' => /\ plan'[u] = <<>> /\ pos'[u] = 1
                                   /\ found'[u] = {} /\ doomed'[u] = {}
                                   /\ new'[u] = {} /\ added'[u] = {}
      BY <2>1, <2>4, <3>1, OthersPlanned
    <3>2. /\ Active(t)' /\ IsPlan(t, plan'[t]) /\ pos'[t] = 1
          /\ pc'[t] = "look" => pos'[t] \in DOMAIN plan'[t] /\ NameOf(t)' \in Names
          /\ pc'[t] \in {"commit", "look"}
      BY <2>1, <2>2, <2>3, <2>4 DEF Active
    <3> QED
      BY <2>2, <3>1, <3>2 DEF Planned
  <2>6. TypeOK'
    BY <2>1, <2>4 DEF Typed, TypeOK, Domains
  <2> QED
    BY <2>1, <2>5, <2>6 DEF Typed, Domains
<1> QED
  BY <1>1, <1>2

\* However a transaction ends, nothing of it is left.
LEMMA EndTyped ==
    ASSUME Typed, NEW t \in Transactions, Commit(t) \/ Deadlock(t) \/ Fail(t)
    PROVE  Typed'
<1>1. /\ Active(t) /\ Forget(t) /\ raced' = raced \ {t} /\ faults' \in Nat
      /\ \E to \in {"done", "aborted"} : pc' = [pc EXCEPT ![t] = to]
  BY DEF Commit, Deadlock, Circled, Fail, Rollback, Active, Typed, TypeOK, tables
<1>2. /\ participants' \subseteq participants \cup new[t]
      /\ attributions' \subseteq attributions \cup added[t]
  BY DEF Commit, Deadlock, Fail, Rollback, tables
<1>3. decided' \in [Clusters -> Names \cup {NoName, Open}]
  <2>1. CASE Commit(t)
    <3>1. t \in Humans => plan[t][1][2] \in Names \cup {NoName}
      BY <1>1 DEF Typed, Planned, IsPlan, Pairs
    <3> QED
      BY <2>1, <3>1 DEF Commit, Decision, Typed, TypeOK
  <2>2. CASE Deadlock(t) \/ Fail(t)
    BY <2>2 DEF Deadlock, Fail, Rollback, Typed, TypeOK
  <2> QED
    BY <2>1, <2>2
<1>4. /\ Domains'
      /\ pc'[t] \in {"done", "aborted"} /\ plan'[t] = <<>> /\ pos'[t] = 1
      /\ found'[t] = {} /\ doomed'[t] = {} /\ new'[t] = {} /\ added'[t] = {}
      /\ \A u \in Transactions : u # t =>
             /\ pc'[u] = pc[u] /\ plan'[u] = plan[u] /\ pos'[u] = pos[u]
             /\ found'[u] = found[u] /\ doomed'[u] = doomed[u]
             /\ new'[u] = new[u] /\ added'[u] = added[u]
  BY <1>1 DEF Forget, Typed, TypeOK, Domains
<1>5. Planned'
  <2>1. ASSUME NEW u \in Transactions, u # t
        PROVE  /\ Active(u)' => IsPlan(u, plan'[u]) /\ (u \in Humans => pos'[u] = 1)
               /\ pc'[u] \in {"find", "delete"} => u \in Humans
               /\ pc'[u] \in {"look", "insert"} =>
                      pos'[u] \in DOMAIN plan'[u] /\ NameOf(u)' \in Names
               /\ ~Active(u)' => /\ plan'[u] = <<>> /\ pos'[u] = 1
                                 /\ found'[u] = {} /\ doomed'[u] = {}
                                 /\ new'[u] = {} /\ added'[u] = {}
    BY <1>4, <2>1, OthersPlanned
  <2>2. ~Active(t)' /\ pc'[t] \notin {"find", "delete", "look", "insert"}
    BY <1>4 DEF Active
  <2> QED
    BY <1>4, <2>1, <2>2 DEF Planned
<1>6. TypeOK'
  <2>1. pc' \in [Transactions -> {"idle", "find", "delete", "look", "insert", "commit",
                                 "done", "aborted"}]
    BY <1>1 DEF Typed, TypeOK
  <2>2. participants' \subseteq People /\ attributions' \subseteq Holders
    BY <1>2 DEF Typed, TypeOK, People, Holders
  <2>3. \A u \in Transactions :
            /\ pos'[u] \in DOMAIN plan'[u] \cup {1}
            /\ \A i \in DOMAIN plan'[u] : plan'[u][i] \in Pairs
            /\ found'[u] \subseteq Holders /\ doomed'[u] \subseteq Holders
            /\ new'[u] \subseteq People /\ added'[u] \subseteq Holders
    <3>1. DOMAIN plan'[t] = {}
      BY <1>4
    <3> QED
      BY <1>4, <3>1 DEF Typed, TypeOK, People, Holders, Pairs
  <2> QED
    BY <1>1, <1>3, <2>1, <2>2, <2>3 DEF Typed, TypeOK, People, Holders, Pairs
<1> QED
  BY <1>4, <1>5, <1>6 DEF Typed

\* Every step of every transaction keeps the types.
LEMMA TypedStep ==
    ASSUME Typed, [Next]_vars
    PROVE  Typed'
<1>1. ASSUME NEW t \in Transactions, Start(t) \/ Proceed(t) \/ Fail(t)
      PROVE  Typed'
  BY <1>1, StartTyped, DeleteTyped, LookTyped, InsertTyped, EndTyped DEF Proceed
<1>2. CASE UNCHANGED vars
  BY <1>2 DEF vars, tables, pending, history, Typed, TypeOK, Domains, Planned, Active, NameOf
<1> QED
  BY <1>1, <1>2 DEF Next

LEMMA InitTyped == Init => Typed
<1> SUFFICES ASSUME Init PROVE Typed
  OBVIOUS
<1>1. \A t \in Transactions : /\ plan[t] = <<>> /\ DOMAIN plan[t] = {} /\ pos[t] = 1
                              /\ ~Active(t) /\ pc[t] = "idle"
                              /\ found[t] = {} /\ doomed[t] = {} /\ new[t] = {} /\ added[t] = {}
  BY DEF Init, Active
<1> QED
  BY <1>1 DEF Init, Typed, TypeOK, Domains, Planned

\* Variables keep their types: a plan is walked inside its bounds, by a person
\* for one cluster and by a model for what it answered.
THEOREM TypeOKHolds == Spec => []TypeOK
<1>1. Typed => TypeOK
  BY DEF Typed
<1> QED
  BY <1>1, InitTyped, TypedStep, PTL DEF Spec

-----------------------------------------------------------------------------
(* What a person decided.                                                  *)

About(c)   == {a \in attributions : a.cluster = c}
Says(rows) == {<<a.who[1], a.provenance>> : a \in rows}
Verdict(n) == IF n = NoName THEN {} ELSE {<<n, "confirmed">>}

\* Transactions find, delete and insert rows of the clusters of their plans.
Own == \A t \in Transactions : \A a \in found[t] \cup doomed[t] \cup added[t] :
           a.cluster \in Touches(t)

\* Nobody writes the clusters of a transaction nobody overlapped.
Alone == \A t, u \in Transactions :
             t # u /\ t \notin raced /\ Active(t) /\ Active(u) =>
                 Touches(t) \cap Touches(u) = {}

\* A person nobody overlapped deletes all there is about the cluster, and
\* inserts the decision and nothing else.
DecidingOf(h) ==
    Active(h) =>
        /\ h \notin raced =>
               /\ pc[h] = "delete" => found[h] = About(plan[h][1][1])
               /\ pc[h] \in {"look", "insert", "commit"} =>
                      doomed[h] = About(plan[h][1][1])
        /\ pc[h] \in {"find", "delete", "look", "insert"} => added[h] = {}
        /\ pc[h] = "commit" => Says(added[h]) = Verdict(plan[h][1][2])
Deciding == \A h \in Humans : DecidingOf(h)

DecisionInv == Typed /\ Own /\ Alone /\ Deciding /\ DecisionHolds

LEMMA HumanTouches ==
    ASSUME Typed, NEW h \in Humans, Active(h)
    PROVE  /\ h \in Transactions /\ plan[h][1][1] \in Clusters /\ pos[h] = 1
           /\ Len(plan[h]) = 1 /\ DOMAIN plan[h] = {1}
           /\ Touches(h) = {plan[h][1][1]}
<1>1. h \in Transactions
  BY DEF Transactions
<1>2. IsPlan(h, plan[h]) /\ pos[h] = 1
  BY <1>1 DEF Typed, Planned
<1>3. DOMAIN plan[h] = {1} /\ plan[h][1][1] \in Clusters /\ Len(plan[h]) = 1
  BY <1>2 DEF IsPlan
<1> QED
  BY <1>1, <1>2, <1>3 DEF Touches

\* A statement of another transaction, of another cluster.
LEMMA OthersDeciding ==
    ASSUME NEW u \in Humans, DecidingOf(u),
           pc'[u] = pc[u], plan'[u] = plan[u],
           found'[u] = found[u], doomed'[u] = doomed[u], added'[u] = added[u],
           Active(u) /\ u \notin raced' =>
               u \notin raced /\ About(plan[u][1][1])' = About(plan[u][1][1])
    PROVE  DecidingOf(u)'
<1> DEFINE c == plan[u][1][1]
<1>1. Active(u)' = Active(u)
  BY DEF Active
<1> SUFFICES ASSUME Active(u)
             PROVE  /\ u \notin raced' =>
                           /\ pc[u] = "delete" => found[u] = About(c)'
                           /\ pc[u] \in {"look", "insert", "commit"} => doomed[u] = About(c)'
                    /\ pc[u] \in {"find", "delete", "look", "insert"} => added[u] = {}
                    /\ pc[u] = "commit" => Says(added[u]) = Verdict(plan[u][1][2])
  BY <1>1 DEF DecidingOf, About, Says, Verdict
<1> QED
  BY DEF DecidingOf

LEMMA StartDeciding ==
    ASSUME DecisionInv, NEW t \in Transactions, Start(t)
    PROVE  (Own /\ Alone /\ Deciding /\ DecisionHolds)'
<1>1. PICK p, to : /\ Begin(t, p, to) /\ IsPlan(t, p)
                   /\ to = IF t \in Humans THEN "find"
                           ELSE IF p = <<>> THEN "commit" ELSE "look"
                   /\ to = "look" => 1 \in DOMAIN p
  BY Starting
<1>2. /\ UNCHANGED <<participants, attributions, pos, found, doomed, new, added, decided, faults>>
      /\ pc[t] = "idle" /\ pc' = [pc EXCEPT ![t] = to] /\ plan' = [plan EXCEPT ![t] = p]
      /\ raced' = IF Rivals(t, p) = {} THEN raced ELSE raced \cup {t} \cup Rivals(t, p)
  BY <1>1 DEF Begin, tables, pending
<1>3. /\ pc'[t] = to /\ plan'[t] = p
      /\ \A u \in Transactions : u # t => pc'[u] = pc[u] /\ plan'[u] = plan[u]
  BY <1>2 DEF DecisionInv, Typed, TypeOK, Domains
<1>4. found[t] = {} /\ doomed[t] = {} /\ added[t] = {}
  BY <1>2 DEF DecisionInv, Typed, Planned, Active
<1>5. \A u \in Transactions : u # t => Touches(u)' = Touches(u) /\ (Active(u)' <=> Active(u))
  BY <1>3 DEF Touches, Active
<1>6. Touches(t)' = {p[i][1] : i \in DOMAIN p} \cap Clusters
  BY <1>3 DEF Touches
<1>7. Own'
  BY <1>2, <1>4, <1>5 DEF DecisionInv, Own
<1>8. Alone'
  <2> SUFFICES ASSUME NEW u \in Transactions, NEW v \in Transactions,
                      u # v, u \notin raced', Active(u)', Active(v)'
               PROVE  Touches(u)' \cap Touches(v)' = {}
    BY DEF Alone
  <2>1. u \notin raced
    BY <1>2
  <2>2. CASE u # t /\ v # t
    BY <1>5, <2>1, <2>2 DEF DecisionInv, Alone
  <2>3. CASE u = t
    <3>1. Rivals(t, p) = {} /\ Active(v)
      BY <1>2, <1>5, <2>3
    <3>2. Touches(v) \cap {p[i][1] : i \in DOMAIN p} = {}
      BY <2>3, <3>1 DEF Rivals
    <3> QED
      BY <1>5, <1>6, <2>3, <3>2
  <2>4. CASE v = t
    <3>1. u \notin Rivals(t, p) /\ Active(u)
      BY <1>2, <1>5, <2>4
    <3>2. Touches(u) \cap {p[i][1] : i \in DOMAIN p} = {}
      BY <2>4, <3>1 DEF Rivals
    <3> QED
      BY <1>5, <1>6, <2>4, <3>2
  <2> QED
    BY <2>2, <2>3, <2>4
<1>9. Deciding'
  <2> SUFFICES ASSUME NEW u \in Humans
               PROVE  DecidingOf(u)'
    BY DEF Deciding
  <2>1. u \in Transactions /\ DecidingOf(u)
    BY DEF Transactions, DecisionInv, Deciding
  <2>2. CASE u # t
    <3>1. /\ pc'[u] = pc[u] /\ plan'[u] = plan[u]
          /\ found'[u] = found[u] /\ doomed'[u] = doomed[u] /\ added'[u] = added[u]
          /\ u \notin raced' => u \notin raced
          /\ About(plan[u][1][1])' = About(plan[u][1][1])
      BY <1>2, <1>3, <2>1, <2>2 DEF About
    <3> QED
      BY <2>1, <3>1, OthersDeciding
  <2>3. CASE u = t
    <3>1. pc'[u] = "find" /\ added'[u] = {}
      BY <1>1, <1>2, <1>3, <1>4, <2>3
    <3> QED
      BY <3>1 DEF DecidingOf
  <2> QED
    BY <2>2, <2>3
<1>10. DecisionHolds'
  BY <1>2 DEF DecisionInv, DecisionHolds
<1> QED
  BY <1>7, <1>8, <1>9, <1>10

\* A statement of t keeps its plan: what the invariant says of the others, and
\* of who touches what, stays.
LEMMA StatementDeciding ==
    ASSUME DecisionInv, NEW t \in Transactions, Active(t), Active(t)',
           UNCHANGED <<attributions, plan, raced, decided>>,
           \A u \in Transactions : u # t =>
               /\ pc'[u] = pc[u] /\ found'[u] = found[u]
               /\ doomed'[u] = doomed[u] /\ added'[u] = added[u],
           \A a \in found'[t] \cup doomed'[t] \cup added'[t] : a.cluster \in Touches(t),
           t \in Humans => DecidingOf(t)'
    PROVE  (Own /\ Alone /\ Deciding /\ DecisionHolds)'
<1>1. \A u \in Transactions : Touches(u)' = Touches(u) /\ (Active(u)' <=> Active(u))
  BY DEF Touches, Active
<1>2. Own'
  BY <1>1 DEF DecisionInv, Own
<1>3. Alone'
  BY <1>1 DEF DecisionInv, Alone
<1>4. Deciding'
  <2> SUFFICES ASSUME NEW u \in Humans, u # t
               PROVE  DecidingOf(u)'
    BY DEF Deciding
  <2>1. u \in Transactions /\ DecidingOf(u)
    BY DEF Transactions, DecisionInv, Deciding
  <2>2. About(plan[u][1][1])' = About(plan[u][1][1])
    BY DEF About
  <2> QED
    BY <2>1, <2>2, OthersDeciding
<1>5. DecisionHolds'
  BY DEF DecisionInv, DecisionHolds
<1> QED
  BY <1>2, <1>3, <1>4, <1>5

LEMMA DeleteDeciding ==
    ASSUME DecisionInv, NEW t \in Transactions, ConfirmFind(t) \/ ConfirmDelete(t)
    PROVE  (Own /\ Alone /\ Deciding /\ DecisionHolds)'
<1> DEFINE c == plan[t][1][1]
           n == plan[t][1][2]
<1>1. pc[t] \in {"find", "delete"}
  BY DEF ConfirmFind, ConfirmDelete
<1>2. Active(t) /\ t \in Humans
  BY <1>1 DEF DecisionInv, Typed, Planned, Active
<1>3. Touches(t) = {c} /\ pos[t] = 1 /\ NameOf(t) = n
  BY <1>2, HumanTouches DEF DecisionInv, NameOf
<1>4. DecidingOf(t) /\ added[t] = {}
  BY <1>1, <1>2 DEF DecisionInv, Deciding, DecidingOf
<1>5. UNCHANGED <<attributions, plan, raced, decided, added>>
  BY DEF ConfirmFind, ConfirmDelete, tables, history
<1>6. About(c)' = About(c)
  BY <1>5 DEF About
<1>7. CASE ConfirmFind(t)
  <2>1. /\ pc'[t] = "delete" /\ found'[t] = Found(t) /\ doomed'[t] = doomed[t]
        /\ \A u \in Transactions : u # t =>
               pc'[u] = pc[u] /\ found'[u] = found[u] /\ doomed'[u] = doomed[u]
    BY <1>7 DEF ConfirmFind, DecisionInv, Typed, TypeOK, Domains
  <2>2. Found(t) = About(c)
    BY <1>3 DEF Found, About
  <2>3. DecidingOf(t)'
    BY <1>4, <1>5, <1>6, <2>1, <2>2 DEF DecidingOf
  <2>4. \A a \in found'[t] \cup doomed'[t] \cup added'[t] : a.cluster \in Touches(t)
    BY <1>3, <1>4, <1>5, <2>1, <2>2 DEF About, DecisionInv, Own
  <2>5. Active(t)'
    BY <2>1 DEF Active
  <2> QED
    BY <1>2, <1>5, <2>1, <2>3, <2>4, <2>5, StatementDeciding
<1>8. CASE ConfirmDelete(t)
  <2>1. /\ pc[t] = "delete" /\ pc'[t] = IF n = NoName THEN "commit" ELSE "look"
        /\ found'[t] = {} /\ doomed'[t] = found[t] \cap attributions
        /\ \A u \in Transactions : u # t =>
               pc'[u] = pc[u] /\ found'[u] = found[u] /\ doomed'[u] = doomed[u]
    BY <1>3, <1>8 DEF ConfirmDelete, DecisionInv, Typed, TypeOK, Domains
  <2>2. t \notin raced => doomed'[t] = About(c)
    BY <1>2, <1>4, <2>1 DEF DecidingOf, About
  <2>3. n = NoName => Says(added[t]) = Verdict(n)
    BY <1>4 DEF Says, Verdict
  <2>4. Says(added[t])' = Says(added[t]) /\ Verdict(n)' = Verdict(n)
    BY <1>5 DEF Says, Verdict
  <2>5. DecidingOf(t)'
    BY <1>4, <1>5, <1>6, <2>1, <2>2, <2>3, <2>4 DEF DecidingOf
  <2>6. \A a \in found'[t] \cup doomed'[t] \cup added'[t] : a.cluster \in Touches(t)
    BY <1>4, <1>5, <2>1 DEF DecisionInv, Own
  <2>7. Active(t)'
    BY <2>1 DEF Active
  <2> QED
    BY <1>2, <1>5, <2>1, <2>5, <2>6, <2>7, StatementDeciding
<1> QED
  BY <1>7, <1>8

\* A person's name, resolved, is the decision.
LEMMA ResolvedDeciding ==
    ASSUME DecisionInv, NEW t \in Transactions, pc[t] \in {"look", "insert"},
           NEW p, p[1] = NameOf(t), Resolved(t, p),
           UNCHANGED <<attributions, plan, found, doomed, raced, decided>>
    PROVE  (Own /\ Alone /\ Deciding /\ DecisionHolds)'
<1> DEFINE c  == plan[t][pos[t]][1]
           a0 == [cluster |-> c, who |-> p, id |-> <<t, pos[t]>>,
                  provenance |-> IF t \in Humans THEN "confirmed" ELSE "inferred"]
<1>1. Active(t) /\ IsPlan(t, plan[t]) /\ pos[t] \in DOMAIN plan[t]
  BY DEF DecisionInv, Typed, Planned, Active
<1>2. c # NoCluster => c \in Touches(t)
  BY <1>1 DEF IsPlan, Pairs, Touches
<1>3. /\ added'[t] = IF c = NoCluster THEN added[t] ELSE added[t] \cup {a0}
      /\ pc'[t] = IF Last(t) THEN "commit" ELSE "look"
      /\ \A u \in Transactions : u # t => pc'[u] = pc[u] /\ added'[u] = added[u]
  BY DEF Resolved, DecisionInv, Typed, TypeOK, Domains
<1>4. \A a \in found'[t] \cup doomed'[t] \cup added'[t] : a.cluster \in Touches(t)
  <2>1. a0.cluster = c
    OBVIOUS
  <2> QED
    BY <1>2, <1>3, <2>1 DEF DecisionInv, Own
<1>5. Active(t)'
  BY <1>3 DEF Active
<1>6. ASSUME t \in Humans
      PROVE  DecidingOf(t)'
  <2>1. pos[t] = 1 /\ Len(plan[t]) = 1 /\ c \in Clusters
    BY <1>1, <1>6, HumanTouches DEF DecisionInv
  <2>2. pc'[t] = "commit" /\ c # NoCluster
    BY <1>3, <2>1, AttributionAssumption DEF Last
  <2>3. DecidingOf(t) /\ added[t] = {}
    BY <1>1, <1>6 DEF DecisionInv, Deciding, DecidingOf
  <2>4. added'[t] = {a0}
    BY <1>3, <2>2, <2>3
  <2>5. NameOf(t) = plan[t][1][2] /\ NameOf(t) \in Names
    BY <2>1 DEF DecisionInv, Typed, Planned, NameOf
  <2>6. a0.who[1] = plan[t][1][2] /\ a0.provenance = "confirmed"
    BY <1>6, <2>5
  <2>7. Says({a0}) = {<<a0.who[1], a0.provenance>>}
    BY DEF Says
  <2>8. Verdict(plan[t][1][2]) = {<<plan[t][1][2], "confirmed">>}
    BY <2>5, AttributionAssumption DEF Verdict
  <2>9. Says(added'[t]) = Verdict(plan[t][1][2])
    BY <2>4, <2>6, <2>7, <2>8
  <2>10. Says(added[t])' = Verdict(plan[t][1][2])'
    BY <2>9 DEF Says, Verdict
  <2>11. t \notin raced' => doomed'[t] = About(plan[t][1][1])'
    BY <1>1, <2>3 DEF DecidingOf, About
  <2> QED
    BY <2>2, <2>10, <2>11 DEF DecidingOf
<1> QED
  BY <1>1, <1>3, <1>4, <1>5, <1>6, StatementDeciding

LEMMA LookInsertDeciding ==
    ASSUME DecisionInv, NEW t \in Transactions, Look(t) \/ Insert(t)
    PROVE  (Own /\ Alone /\ Deciding /\ DecisionHolds)'
<1>1. /\ pc[t] \in {"look", "insert"}
      /\ UNCHANGED <<attributions, plan, found, doomed, raced, decided>>
  BY DEF Look, Insert, tables, history
<1>2. CASE \E p : p[1] = NameOf(t) /\ Resolved(t, p)
  BY <1>1, <1>2, ResolvedDeciding
<1>3. CASE Look(t) /\ Rows(Visible(t), NameOf(t)) = {}
  <2>1. /\ pc[t] = "look" /\ pc'[t] = "insert" /\ UNCHANGED added
        /\ \A u \in Transactions : u # t => pc'[u] = pc[u]
    BY <1>3 DEF Look, DecisionInv, Typed, TypeOK
  <2>2. Active(t) /\ Active(t)'
    BY <2>1 DEF Active
  <2>3. \A a \in found'[t] \cup doomed'[t] \cup added'[t] : a.cluster \in Touches(t)
    BY <1>1, <2>1 DEF DecisionInv, Own
  <2>4. t \in Humans => DecidingOf(t)'
    BY <1>1, <2>1, <2>2 DEF DecisionInv, Deciding, DecidingOf, About
  <2> QED
    BY <1>1, <2>1, <2>2, <2>3, <2>4, StatementDeciding
<1>4. Look(t) /\ Rows(Visible(t), NameOf(t)) # {} =>
          \E p : p[1] = NameOf(t) /\ Resolved(t, p)
  BY DEF Look, Rows
<1>5. ASSUME Insert(t)
      PROVE  \E p : p[1] = NameOf(t) /\ Resolved(t, p)
  <2>1. CASE Taken(t)
    BY <1>5, <2>1 DEF Insert, Taken, Winner, Rows
  <2>2. CASE ~Taken(t)
    BY <1>5, <2>2 DEF Insert
  <2> QED
    BY <2>1, <2>2
<1> QED
  BY <1>2, <1>3, <1>4, <1>5

\* A transaction that ends: a commit is about the clusters it touches, and is
\* the decision if a person was alone with one; a rollback is about none.
LEMMA EndDeciding ==
    ASSUME DecisionInv, NEW t \in Transactions, Commit(t) \/ Deadlock(t) \/ Fail(t)
    PROVE  (Own /\ Alone /\ Deciding /\ DecisionHolds)'
<1>1. /\ Active(t) /\ Forget(t) /\ raced' = raced \ {t}
      /\ \E to \in {"done", "aborted"} : pc' = [pc EXCEPT ![t] = to]
  BY DEF Commit, Deadlock, Circled, Fail, Rollback, Active
<1>2. /\ ~Active(t)'
      /\ found'[t] = {} /\ doomed'[t] = {} /\ added'[t] = {}
      /\ \A u \in Transactions : u # t =>
             /\ pc'[u] = pc[u] /\ plan'[u] = plan[u]
             /\ found'[u] = found[u] /\ doomed'[u] = doomed[u] /\ added'[u] = added[u]
  BY <1>1 DEF Forget, DecisionInv, Typed, TypeOK, Domains, Active
<1>3. \A u \in Transactions : u # t => Touches(u)' = Touches(u) /\ (Active(u)' <=> Active(u))
  BY <1>2 DEF Touches, Active
<1>4. \A c : c \notin Touches(t) => About(c)' = About(c)
  <2>1. CASE Commit(t)
    BY <2>1 DEF Commit, About, DecisionInv, Own
  <2>2. CASE Deadlock(t) \/ Fail(t)
    BY <2>2 DEF Deadlock, Fail, Rollback, tables, About
  <2> QED
    BY <2>1, <2>2
<1>5. Own'
  BY <1>2, <1>3 DEF DecisionInv, Own
<1>6. Alone'
  BY <1>1, <1>2, <1>3 DEF DecisionInv, Alone
<1>7. Deciding'
  <2> SUFFICES ASSUME NEW u \in Humans
               PROVE  DecidingOf(u)'
    BY DEF Deciding
  <2>1. u \in Transactions /\ DecidingOf(u)
    BY DEF Transactions, DecisionInv, Deciding
  <2>2. CASE u # t
    <3>1. ASSUME Active(u), u \notin raced'
          PROVE  u \notin raced /\ About(plan[u][1][1])' = About(plan[u][1][1])
      <4>1. u \notin raced
        BY <1>1, <2>2, <3>1
      <4>2. Touches(u) \cap Touches(t) = {}
        BY <1>1, <2>1, <2>2, <3>1, <4>1 DEF DecisionInv, Alone
      <4>3. plan[u][1][1] \in Touches(u)
        BY <3>1, HumanTouches DEF DecisionInv
      <4>4. plan[u][1][1] \notin Touches(t)
        BY <4>2, <4>3
      <4>5. plan'[u] = plan[u]
        BY <1>2, <2>1, <2>2
      <4> QED
        BY <1>4, <4>1, <4>4, <4>5 DEF About
    <3> QED
      BY <1>2, <2>1, <2>2, <3>1, OthersDeciding
  <2>3. CASE u = t
    BY <1>2, <2>3 DEF DecidingOf
  <2> QED
    BY <2>2, <2>3
<1>8. DecisionHolds'
  <2>1. DecisionHolds' <=> \A c \in Clusters : decided'[c] # Open =>
                              Says(About(c)') = Verdict(decided'[c])
    BY DEF DecisionHolds, Says, About, Verdict
  <2>2. \A c \in Clusters : decided[c] # Open => Says(About(c)) = Verdict(decided[c])
    BY DEF DecisionInv, DecisionHolds, Says, About, Verdict
  <2> SUFFICES ASSUME NEW c \in Clusters, decided'[c] # Open
               PROVE  Says(About(c)') = Verdict(decided'[c])
    BY <2>1
  <2>3. CASE decided'[c] = decided[c] /\ About(c)' = About(c)
    BY <2>2, <2>3
  <2>4. CASE Commit(t) /\ c \in Touches(t)
    <3>1. /\ t \in Humans /\ t \notin raced /\ decided'[c] = plan[t][1][2]
          /\ pc[t] = "commit"
      BY <2>4 DEF Commit, Decision
    <3>2. plan[t][1][1] = c /\ Touches(t) = {c}
      BY <1>1, <2>4, <3>1, HumanTouches DEF DecisionInv
    <3>3. doomed[t] = About(c) /\ Says(added[t]) = Verdict(plan[t][1][2])
      BY <1>1, <3>1, <3>2 DEF DecisionInv, Deciding, DecidingOf
    <3>4. \A a \in added[t] : a.cluster = c
      BY <3>2 DEF DecisionInv, Own
    <3>5. About(c)' = added[t]
      BY <2>4, <3>3, <3>4 DEF Commit, About
    <3> QED
      BY <3>1, <3>3, <3>5
  <2>5. Commit(t) /\ c \notin Touches(t) => decided'[c] = decided[c]
    BY DEF Commit, Decision
  <2>6. Deadlock(t) \/ Fail(t) => decided'[c] = decided[c] /\ About(c)' = About(c)
    BY DEF Deadlock, Fail, Rollback, tables, About
  <2> QED
    BY <1>4, <2>3, <2>4, <2>5, <2>6
<1> QED
  BY <1>5, <1>6, <1>7, <1>8

\* A decision nobody overlapped is the whole truth about its cluster until the
\* next answer of a model: the DELETE found all there was, nobody added to it
\* since, and what others commit is about other clusters.
THEOREM DecisionHoldsHolds == Spec => []DecisionHolds
<1>1. Init => DecisionInv
  <2> SUFFICES ASSUME Init PROVE Own /\ Alone /\ Deciding /\ DecisionHolds
    BY InitTyped DEF DecisionInv
  <2>1. \A t \in Transactions : /\ ~Active(t)
                                /\ found[t] = {} /\ doomed[t] = {} /\ added[t] = {}
    BY DEF Init, Active
  <2> QED
    BY <2>1 DEF Init, Own, Alone, Deciding, DecidingOf, DecisionHolds, Transactions
<1>2. DecisionInv /\ [Next]_vars => DecisionInv'
  <2> SUFFICES ASSUME DecisionInv, [Next]_vars
               PROVE  (Own /\ Alone /\ Deciding /\ DecisionHolds)'
    BY TypedStep DEF DecisionInv
  <2>1. ASSUME NEW t \in Transactions, Start(t) \/ Proceed(t) \/ Fail(t)
        PROVE  (Own /\ Alone /\ Deciding /\ DecisionHolds)'
    BY <2>1, StartDeciding, DeleteDeciding, LookInsertDeciding, EndDeciding DEF Proceed
  <2>2. CASE UNCHANGED vars
    BY <2>2 DEF vars, tables, pending, history, DecisionInv, Own, Alone, Deciding,
                DecidingOf, DecisionHolds, Active, Touches, About, Says, Verdict
  <2> QED
    BY <2>1, <2>2 DEF Next
<1>3. DecisionInv => DecisionHolds
  BY DEF DecisionInv
<1> QED
  BY <1>1, <1>2, <1>3, PTL DEF Spec

-----------------------------------------------------------------------------
(* Waiting.                                                                *)

\* Whoever waits, waits for a transaction that has not ended.
LEMMA WaitsForActive ==
    ASSUME Typed, NEW t \in Transactions, NEW u \in Transactions, WaitsFor(t, u)
    PROVE  Active(u) /\ u # t /\ pc[t] \in {"delete", "insert"}
BY DEF Typed, Planned, WaitsFor, Rows

\* Where each transaction of a finite set waits for another of it, a part of the
\* set is a circle: the smallest part where each still waits for one of the part.
LEMMA SmallestCircle ==
    ASSUME Typed, NEW S \in SUBSET Transactions, S # {},
           \A x \in S : \E y \in S : WaitsFor(x, y)
    PROVE  \E circle \in SUBSET S :
               /\ circle # {}
               /\ \A x \in circle : \E y, z \in circle : WaitsFor(x, y) /\ WaitsFor(z, x)
<1> DEFINE Stuck == {C \in SUBSET Transactions :
                        C # {} /\ C \subseteq S /\ \A x \in C : \E y \in C : WaitsFor(x, y)}
           R == StrictSubsetOrdering(Transactions)
<1>1. IsFiniteSet(Transactions)
  BY AttributionAssumption DEF Transactions, Machines
<1>2. IsWellFoundedOn(R, SUBSET Transactions)
  BY <1>1, FS_StrictSubsetOrderingWellFounded, FS_FiniteSubsetsOfFinite
<1>3. S \in Stuck /\ Stuck \subseteq SUBSET Transactions
  OBVIOUS
<1>4. \E C \in Stuck : \A D \in Stuck : ~(<<D, C>> \in R)
  <2> HIDE DEF Stuck, R
  <2> QED
    BY <1>2, <1>3, WFMin
<1>5. PICK C \in Stuck : \A D \in Stuck : ~(<<D, C>> \in R)
  BY <1>4
<1>6. ASSUME NEW z \in C
      PROVE  \E x \in C : WaitsFor(x, z)
  <2> SUFFICES ASSUME \A x \in C : ~WaitsFor(x, z)
               PROVE  FALSE
    OBVIOUS
  <2> DEFINE D == C \ {z}
  <2>1. PICK y \in C : WaitsFor(z, y)
    OBVIOUS
  <2>2. y \in D
    BY <2>1
  <2>3. \A x \in D : \E w \in D : WaitsFor(x, w)
    OBVIOUS
  <2>4. D \in Stuck
    BY <2>2, <2>3
  <2>5. <<D, C>> \in R
    BY DEF StrictSubsetOrdering
  <2> QED
    BY <1>5, <2>4, <2>5
<1> WITNESS C \in SUBSET S
<1> QED
  BY <1>6

\* While a transaction is under way, one can go on or is in a circle that the
\* database breaks.
THEOREM NobodyIsStuckHolds == Spec => []NobodyIsStuck
<1>1. Typed => NobodyIsStuck
  <2> SUFFICES ASSUME Typed, NEW s \in Transactions, Active(s),
                      \A t \in Transactions : Active(t) =>
                          \E u \in Transactions : WaitsFor(t, u)
               PROVE  \E t \in Transactions : Active(t) /\ Circled(t)
    BY DEF NobodyIsStuck
  <2> DEFINE S == {t \in Transactions : Active(t)}
  <2>1. \A x \in S : \E y \in S : WaitsFor(x, y)
    BY WaitsForActive
  <2>2. S \in SUBSET Transactions /\ S # {}
    OBVIOUS
  <2>3. PICK circle \in SUBSET S :
            /\ circle # {}
            /\ \A x \in circle : \E y, z \in circle : WaitsFor(x, y) /\ WaitsFor(z, x)
    <3> HIDE DEF S
    <3> QED
      BY <2>1, <2>2, SmallestCircle
  <2>4. circle \in SUBSET {x \in Transactions : pc[x] \in {"delete", "insert"}}
    BY <2>3, WaitsForActive
  <2>5. PICK t \in circle : TRUE
    BY <2>3
  <2>6. Circled(t)
    BY <2>3, <2>4, <2>5 DEF Circled
  <2> QED
    BY <2>5, <2>6
<1> QED
  BY <1>1, InitTyped, TypedStep, PTL DEF Spec

=============================================================================
