----------------------------- MODULE AuditTrail -----------------------------
(***************************************************************************)
(* The trail of the retention jobs (services/security/audit.py) while the  *)
(* schema is migrated under it (scripts/db_migrate.py).                    *)
(*                                                                         *)
(* A job that has committed its deletes calls audit(), which inserts into  *)
(* the table audit_log if migration 0002 has made it, and appends to a     *)
(* file otherwise, or when the insert raises.  Each run of the migration   *)
(* script is one transaction: it reads the versions that are applied, and  *)
(* later runs the files and commits; two runs may overlap.                 *)
(***************************************************************************)
EXTENDS Retention

CONSTANTS
    Runner,     \* processes running db_migrate.py
    MaxJobs     \* bound: retention jobs whose record is followed

VARIABLES
    window,     \* the schema may be migrated: then no row is inserted, no day passes
    versions,   \* schema_migrations; version 1 is applied and never rolled back (bound)
    made,       \* what the migrations have made in the database
    runner,     \* runner[r]: what it is doing and the versions it read
    jobs,       \* jobs committed
    writer,     \* audit(): how far it is with the record of the last job
    rows,       \* jobs with a row in audit_log
    file,       \* jobs with a line in audit.jsonl
    dropped,    \* jobs whose row went with the table (history)
    lost        \* jobs that died, or could not write the file, before the record was down (history)

schema == <<versions, made, runner>>
trail == <<jobs, writer, rows, file, dropped, lost>>

Version == 2..4
Idle == [at |-> "idle", read |-> {}]
LastOf(S) == CHOOSE v \in S : \A u \in S : u <= v

TrailInit ==
    /\ Init
    /\ window \in BOOLEAN
    /\ versions = {}
    /\ made = {}
    /\ runner = [r \in Runner |-> Idle]
    /\ jobs = 0
    /\ writer = "idle"
    /\ rows = {} /\ file = {} /\ dropped = {} /\ lost = {}

-----------------------------------------------------------------------------
(* db_migrate.py *)

\* up and down first read which versions are applied; down stops if none is.
ReadApplied(r, command) ==
    /\ runner[r] = Idle
    /\ command = "down" => versions # {}
    /\ runner' = [runner EXCEPT ![r] = [at |-> command, read |-> versions]]
    /\ UNCHANGED <<versions, made, trail>>

\* The transaction rolls back: a statement failed, or the process died.
Abandon(r) ==
    /\ runner[r] # Idle
    /\ runner' = [runner EXCEPT ![r] = Idle]
    /\ UNCHANGED <<versions, made, trail>>

MadeBy(v) == CASE v = 2 -> {"table"} [] v = 3 -> {"role", "grants"} [] v = 4 -> {"spans"}

\* CREATE TABLE and ADD COLUMN fail if the thing is there, GRANT if the table is
\* not, the INSERT of the version if it is recorded.
Applies(P) ==
    /\ P \intersect versions = {}
    /\ 2 \in P => "table" \notin made
    /\ 3 \in P => 2 \in P \/ "table" \in made
    /\ 4 \in P => "spans" \notin made

\* up runs the files of the versions it did not read as applied.
Up(r) ==
    /\ runner[r].at = "up"
    /\ LET pending == Version \ runner[r].read IN
       /\ Applies(pending)
       /\ versions' = versions \union pending
       /\ made' = made \union UNION {MadeBy(v) : v \in pending}
    /\ runner' = [runner EXCEPT ![r] = Idle]
    /\ UNCHANGED trail

\* down runs the down file of the last version it read: DROP ... IF EXISTS, but the
\* REVOKE of 0003 needs table and role.  The rows of a dropped table are gone.
Down(r) ==
    /\ runner[r].at = "down"
    /\ LET v == LastOf(runner[r].read) IN
       /\ v = 3 => {"table", "role"} \subseteq made
       /\ versions' = versions \ {v}
       /\ made' = made \ (MadeBy(v) \union IF v = 2 THEN {"grants"} ELSE {})
       /\ rows' = IF v = 2 THEN {} ELSE rows
       /\ dropped' = IF v = 2 THEN dropped \union rows ELSE dropped
    /\ runner' = [runner EXCEPT ![r] = Idle]
    /\ UNCHANGED <<jobs, writer, file, lost>>

-----------------------------------------------------------------------------
(* audit.py *)

\* apply calls audit once its deletes are committed.
CommitAudited ==
    /\ writer = "idle"
    /\ jobs < MaxJobs
    /\ Commit
    /\ jobs' = jobs + 1
    /\ writer' = "due"
    /\ UNCHANGED <<rows, file, dropped, lost>>

\* _try_db_insert looks for the table; without a database, or without the table, it
\* returns False.
LookForTable ==
    /\ writer = "due"
    /\ \/ writer' = "append"
       \/ "table" \in made /\ writer' = "insert"
    /\ UNCHANGED <<jobs, rows, file, dropped, lost>>

\* Mutant of TryInsert: an insert that raised counts as done.
TryInsertSilently ==
    /\ writer = "insert"
    /\ \/ rows' = rows
       \/ "table" \in made /\ rows' = rows \union {jobs}
    /\ writer' = "idle"
    /\ UNCHANGED <<jobs, file, dropped, lost>>

\* The insert: whatever is raised, even after the commit, the file gets a line.  The
\* table may have been dropped since it was looked for.
TryInsert ==
    /\ writer = "insert"
    /\ \/ /\ "table" \in made
          /\ rows' = rows \union {jobs}
          /\ writer' \in {"idle", "append"}
       \/ rows' = rows /\ writer' = "append"
    /\ UNCHANGED <<jobs, file, dropped, lost>>

AppendLine ==
    /\ writer = "append"
    /\ file' = file \union {jobs}
    /\ writer' = "idle"
    /\ UNCHANGED <<jobs, rows, dropped, lost>>

\* The job dies before audit is through, or the file cannot be written and audit raises.
LoseRecord ==
    /\ writer # "idle"
    /\ lost' = lost \union {jobs}
    /\ writer' = "idle"
    /\ UNCHANGED <<jobs, rows, file, dropped>>

-----------------------------------------------------------------------------
\* Outside the window the schema stands still, and what audit writes is of no
\* concern to retention.
Migrate ==
    /\ \E r \in Runner :
          \/ \E command \in {"up", "down"} : ReadApplied(r, command)
          \/ Up(r) \/ Down(r) \/ Abandon(r)
    /\ UNCHANGED vars

Audit ==
    \/ CommitAudited
    \/ /\ ReadLocks \/ DeleteNext \/ RollBack
       /\ UNCHANGED trail
    \/ /\ LookForTable \/ TryInsert \/ AppendLine \/ LoseRecord
       /\ UNCHANGED vars

TrailNext ==
    /\ UNCHANGED window
    /\ \/ ~window /\ Next /\ UNCHANGED <<schema, trail>>
       \/ window /\ Migrate
       \/ window /\ Audit /\ UNCHANGED schema

TrailSpec == TrailInit /\ [][TrailNext]_<<vars, window, schema, trail>>

-----------------------------------------------------------------------------
\* However migrations and audit overlap, the table is there exactly when version 2
\* is recorded, and the record of a job whose audit is over is in the table or the
\* file, unless the job died on the way or the table was rolled back with it.
TrailIsKept ==
    /\ "table" \in made <=> 2 \in versions
    /\ \A n \in 1..jobs :
          \/ n = jobs /\ writer # "idle"
          \/ n \in rows \union file \union dropped \union lost

=============================================================================
