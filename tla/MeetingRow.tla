---------------------------- MODULE MeetingRow ----------------------------
(***************************************************************************)
(* The Meeting row every component reads and writes, and the two facts of  *)
(* the persistence layer (db.py, SQLAlchemy over PostgreSQL at its default *)
(* READ COMMITTED level) that decide every race in the system:             *)
(*                                                                         *)
(*  - a transaction reads the row without locking it, so what it holds may *)
(*    be stale when it writes;                                             *)
(*  - an attribute assignment is flushed as UPDATE ... WHERE id = ..., and *)
(*    only when the new value differs from the value the session loaded.   *)
(***************************************************************************)

\* Values Meeting.status takes in the code, and "purged" once the row is gone.
LiveStatuses ==
    {"capturing", "finishing", "pending", "processing", "published", "failed"}
Purged == "purged"
Statuses == LiveStatuses \cup {Purged}

\* What the row holds after a session that loaded the value `loaded` assigns
\* `new` and commits, when the row holds `current` by then.
OrmWrite(loaded, new, current) == IF new = loaded THEN current ELSE new

=============================================================================
