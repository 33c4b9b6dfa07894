----------------------------- MODULE Retention -----------------------------
(***************************************************************************)
(* The retention job (services/security/retention.py, apply) against the   *)
(* tables it deletes from (db/schema.sql), the writers that go on          *)
(* inserting and the reviewers that close incidents.                       *)
(*                                                                         *)
(* Rows hang together along a clip: the video_segments row, its AI window, *)
(* the window's detection and the event with the clip's segment_id; each   *)
(* stands for all rows of its kind.  The first two are backfilled from the *)
(* ingestion's files, which keep every line: what was deleted comes back,  *)
(* dated anew.  The CV worker inserts detections and events as it gets to  *)
(* them.  An incident links events.  The job reads the evidence lock in    *)
(* one statement, deletes table by table in the policy's order, and        *)
(* commits; what it deleted is visible to others only then.                *)
(***************************************************************************)
EXTENDS Integers, Sequences, FiniteSets

CONSTANTS
    Clip,       \* clips that may be ingested
    Incident,   \* incidents that may be raised
    Days,       \* Days[t]: the policy's limit for table t
    MaxDay,     \* bound: days that pass
    Unborn,     \* the row was not inserted yet
    Deleted     \* the row was deleted

\* The clip tables in the order of configs/retention.yaml.  Incidents are kept
\* five years, beyond any review, and embeddings hang on no clip.
Order == <<"video_segments", "ai_windows", "detections", "events">>
Table == {Order[i] : i \in DOMAIN Order}

\* What a row references, ON DELETE CASCADE.
Parent == [ai_windows |-> "video_segments", detections |-> "ai_windows"]

ASSUME DaysAssumption == Days \in [Table -> Nat] /\ MaxDay \in Nat
ASSUME NoRowAssumption == Unborn \notin Nat /\ Deleted \notin Nat /\ Unborn # Deleted

VARIABLES
    day,        \* days gone by
    born,       \* born[t][c]: created_at (event_time) of clip c's row of table t
    incident,   \* incident[i]: status ("none", "open", "closed") and linked clips
    step,       \* statement the job is at: 0 not running, n + 1 about to do Order[n]
    locked,     \* segment ids the running job read as evidence-locked
    doomed,     \* doomed[t]: clips whose row the job deleted, not committed yet
    began,      \* the day the running job started (history)
    during      \* incidents opened since then (history)

vars == <<day, born, incident, step, locked, doomed, began, during>>
job == <<step, locked, doomed, began>>

Day == 0..MaxDay
NotDoomed == [t \in Table |-> {}]

Init ==
    /\ day = 0
    /\ born = [t \in Table |-> [c \in Clip |-> Unborn]]
    /\ incident = [i \in Incident |-> [status |-> "none", clips |-> {}]]
    /\ step = 0
    /\ locked = {}
    /\ doomed = NotDoomed
    /\ began = 0
    /\ during = {}

Has(t, c) == born[t][c] \in Day
Open(i) == incident[i].status = "open"

-----------------------------------------------------------------------------
(* The rest of the platform *)

Tick ==
    /\ day < MaxDay
    /\ day' = day + 1
    /\ UNCHANGED <<born, incident, job, during>>

\* The clips whose lines a backfill has read before.
Listed(t) == {c \in Clip : born[t][c] # Unborn}

\* scripts/backfill_ingest.py, one transaction: of the lines that are in the files
\* now, the missing segments S, and then the missing windows W whose segment is
\* there.  A row that the job has deleted is still in the way until its commit:
\* the insert waits for it.
Backfill(S, W) ==
    /\ Listed("video_segments") \subseteq S
    /\ Listed("ai_windows") \subseteq W /\ W \subseteq S
    /\ doomed["video_segments"] = {} /\ doomed["ai_windows"] = {}
    /\ born' = [t \in Table |-> [c \in Clip |->
          IF \/ t = "video_segments" /\ c \in S /\ ~Has(t, c)
             \/ t = "ai_windows" /\ c \in W /\ ~Has(t, c)
          THEN day ELSE born[t][c]]]
    /\ UNCHANGED <<day, incident, job, during>>

Insert(t, c) == born' = [born EXCEPT ![t] = [@ EXCEPT ![c] = day]]

\* The CV worker inserts a detection of the clip.  It references its window: the
\* insert fails if the window is not there, and waits if the job has deleted it.
Detect(c) ==
    /\ Has("ai_windows", c) /\ c \notin doomed["ai_windows"]
    /\ ~Has("detections", c)
    /\ Insert("detections", c)
    /\ UNCHANGED <<day, incident, job, during>>

\* The CV worker inserts an event of the clip (bound: one is followed).  It
\* references nothing: the segment may come later, or be gone.
RecordEvent(c) ==
    /\ born["events"][c] = Unborn
    /\ Insert("events", c)
    /\ UNCHANGED <<day, incident, job, during>>

\* The rule engine opens an incident on events it has seen.  incident_events has
\* no foreign key to events: the rows may be deleted by then.
Raise(i, C) ==
    /\ incident[i].status = "none"
    /\ \A c \in C : born["events"][c] # Unborn
    /\ incident' = [incident EXCEPT ![i] = [status |-> "open", clips |-> C]]
    /\ during' = IF step > 0 THEN during \union {i} ELSE during
    /\ UNCHANGED <<day, born, job>>

\* A verdict confirms or dismisses the incident.
Close(i) ==
    /\ Open(i)
    /\ incident' = [incident EXCEPT ![i].status = "closed"]
    /\ UNCHANGED <<day, born, job, during>>

-----------------------------------------------------------------------------
(* apply *)

\* _open_incident_segment_ids joins incident_events, open incidents and the event
\* rows that still exist.
LockedClips ==
    {c \in Clip : Has("events", c) /\ \E i \in Incident : Open(i) /\ c \in incident[i].clips}

ReadLocks ==
    /\ step = 0
    /\ step' = 1
    /\ locked' = LockedClips
    /\ began' = day
    /\ UNCHANGED <<day, born, incident, doomed, during>>

\* Mutant of Expired: the row is kept on its last day.
ExpiredAfter(t, c) == Has(t, c) /\ born[t][c] + Days[t] < day

Expired(t, c) == Has(t, c) /\ born[t][c] + Days[t] <= day

\* Mutant of Victims: the lock is read but not used.
VictimsUnlocked(t) == {c \in Clip : Expired(t, c)}

\* The DELETE of a table spares locked clips in video_segments only.
Victims(t) ==
    {c \in Clip : Expired(t, c) /\ ~(t = "video_segments" /\ c \in locked)}

\* Mutant of Cascade: events reference their segment.
CascadeToEvents(t) ==
    CASE t = "video_segments" -> Table
      [] t = "ai_windows" -> {"ai_windows", "detections"}
      [] OTHER -> {t}

\* ON DELETE CASCADE: segment to window to detection.  Events have no parent.
Cascade(t) ==
    CASE t = "video_segments" -> {"video_segments", "ai_windows", "detections"}
      [] t = "ai_windows" -> {"ai_windows", "detections"}
      [] OTHER -> {t}

DeleteNext ==
    /\ step \in 1..Len(Order)
    /\ step' = step + 1
    /\ doomed' = [u \in Table |-> doomed[u] \union
          IF u \in Cascade(Order[step]) THEN {c \in Victims(Order[step]) : Has(u, c)} ELSE {}]
    /\ UNCHANGED <<day, born, incident, locked, began, during>>

Finish ==
    /\ step' = 0
    /\ locked' = {}
    /\ doomed' = NotDoomed
    /\ began' = 0
    /\ during' = {}

Commit ==
    /\ step = Len(Order) + 1
    /\ born' = [t \in Table |-> [c \in Clip |-> IF c \in doomed[t] THEN Deleted ELSE born[t][c]]]
    /\ Finish
    /\ UNCHANGED <<day, incident>>

\* An exception or the death of the job: the transaction is rolled back.
RollBack ==
    /\ step > 0
    /\ Finish
    /\ UNCHANGED <<day, born, incident>>

Next ==
    \/ Tick
    \/ \E S, W \in SUBSET Clip : Backfill(S, W)
    \/ \E c \in Clip : Detect(c) \/ RecordEvent(c)
    \/ \E i \in Incident : Close(i) \/ \E C \in SUBSET Clip : C # {} /\ Raise(i, C)
    \/ ReadLocks \/ DeleteNext \/ Commit \/ RollBack

Spec == Init /\ [][Next]_vars

-----------------------------------------------------------------------------
(* Safety *)

\* The row of table t for clip c goes in this step.
Goes(t, c) == Has(t, c) /\ ~Has(t, c)'

Links(i, c) == Open(i) /\ c \in incident[i].clips

\* The evidence lock as it works: no job deletes the clip of an incident that was
\* open when the job read its locks, as long as the linked event row exists,
\* whatever reviewers and the rule engine do meanwhile.
LockHolds ==
    [][\A c \in Clip : Goes("video_segments", c) /\ Has("events", c) =>
           \A i \in Incident : Links(i, c) => i \in during]_vars

\* Footage is time-boxed: a job that is about to commit has caught every row that
\* was past its limit when the job started, but for the clips it read as locked.
NothingExpiredRemains ==
    step = Len(Order) + 1 =>
        \A t \in Table, c \in Clip :
            Has(t, c) /\ born[t][c] + Days[t] <= began =>
                c \in doomed[t] \/ (t = "video_segments" /\ c \in locked)

\* Clips and events are kept for their full term.  A window or a detection may go
\* before its own, but only in the transaction that takes the row it hangs on, be it
\* inserted while the job runs or under a clip that is past its term already.
FullTerm ==
    [][\A t \in Table, c \in Clip : Goes(t, c) =>
           \/ born[t][c] + Days[t] <= day
           \/ t \in DOMAIN Parent /\ Goes(Parent[t], c)]_vars

-----------------------------------------------------------------------------
(* What the repository says, which the code does not do *)

\* retention.py: clips tied to an open incident are "LOCKED ... and skipped until
\* the incident closes".  Here: although the linked event has expired before.
LockedUntilClosed ==
    [][\A c \in Clip : Goes("video_segments", c) =>
           \A i \in Incident : Links(i, c) => i \in during]_vars

=============================================================================
