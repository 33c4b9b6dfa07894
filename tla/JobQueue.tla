------------------------------ MODULE JobQueue ------------------------------
(***************************************************************************)
(* The Postgres job_queue table (ingestion/bus.py, PgQueue) and the worker *)
(* processes that poll it (the run loops of cv_oss_worker, rule_engine and *)
(* vlm_worker, which share one shape).                                     *)
(*                                                                         *)
(* A job is its rank in created_at order: concurrent publishers may insert *)
(* the rows in any order.  A worker claims a batch in one transaction of   *)
(* two statements, handles the batch sequentially, and acks or fails every *)
(* job by a statement of its own.                                          *)
(***************************************************************************)
EXTENDS Integers, FiniteSets

CONSTANTS
    Job,        \* created_at ranks of the rows that may be inserted
    Worker,     \* worker processes
    Stream,     \* queue streams (event.created, event.needs_vlm, ...)
    StreamOf,   \* StreamOf[j]: the stream row j is published on
    Reads,      \* Reads[w]: the STREAM constant of worker w's module
    Limit,      \* run(limit=...): rows per claim
    MaxCrashes, \* bound: process deaths in a behaviour
    NoJob,
    NoWorker

ASSUME JobAssumption == Job \subseteq Nat /\ NoJob \notin Job
ASSUME WorkerAssumption == NoWorker \notin Worker
ASSUME StreamAssumption ==
    /\ StreamOf \in [Job -> Stream]
    /\ Reads \in [Worker -> Stream]
ASSUME BoundAssumption == Limit \in Nat \ {0} /\ MaxCrashes \in Nat

VARIABLES
    status,     \* status[j]: job_queue.status, "absent" before the INSERT
    attempts,   \* attempts[j]: job_queue.attempts
    rowLock,    \* rowLock[j]: the open claim transaction that locked row j
    pc,         \* pc[w]: where worker w is in run()
    batch,      \* batch[w]: the claimed jobs w has not closed yet
    current,    \* current[w]: the job of w's for loop
    runs,       \* runs[j]: how often a handler was entered for j (history)
    crashes     \* process deaths so far

vars == <<status, attempts, rowLock, pc, batch, current, runs, crashes>>
table == <<status, attempts, rowLock>>

Status == {"absent", "pending", "processing", "done", "failed"}
Where == {"idle", "selected", "ready", "handling", "raised", "down"}

TypeOK ==
    /\ status \in [Job -> Status]
    /\ attempts \in [Job -> Nat]
    /\ rowLock \in [Job -> Worker \union {NoWorker}]
    /\ pc \in [Worker -> Where]
    /\ batch \in [Worker -> SUBSET Job]
    /\ current \in [Worker -> Job \union {NoJob}]
    /\ runs \in [Job -> Nat]
    /\ crashes \in 0..MaxCrashes

Init ==
    /\ status = [j \in Job |-> "absent"]
    /\ attempts = [j \in Job |-> 0]
    /\ rowLock = [j \in Job |-> NoWorker]
    /\ pc = [w \in Worker |-> "idle"]
    /\ batch = [w \in Worker |-> {}]
    /\ current = [w \in Worker |-> NoJob]
    /\ runs = [j \in Job |-> 0]
    /\ crashes = 0

-----------------------------------------------------------------------------
\* PgQueue.publish: one autocommitted INSERT.
Publish(j) ==
    /\ status[j] = "absent"
    /\ status' = [status EXCEPT ![j] = "pending"]
    /\ UNCHANGED <<attempts, rowLock, pc, batch, current, runs, crashes>>

\* Mutant of Claimable, consume without FOR UPDATE: locked rows are returned too.
ClaimableNoLock(w) ==
    {j \in Job : status[j] = "pending" /\ StreamOf[j] = Reads[w]}

\* The rows SELECT ... FOR UPDATE SKIP LOCKED can return to worker w.
Claimable(w) ==
    {j \in Job : status[j] = "pending" /\ StreamOf[j] = Reads[w] /\ rowLock[j] = NoWorker}

\* S is what ORDER BY created_at LIMIT n keeps of the rows C.
Oldest(S, C, n) ==
    /\ \A j \in S, k \in C \ S : j < k
    /\ \/ S = C /\ Cardinality(C) <= n
       \/ Cardinality(S) = n

\* consume finds no row: the transaction ends, the loop sleeps and polls again.
ConsumeEmpty(w) ==
    /\ pc[w] = "idle"
    /\ Claimable(w) = {}
    /\ UNCHANGED vars

\* First statement of consume: the oldest claimable rows are locked.
ConsumeSelect(w) ==
    /\ pc[w] = "idle"
    /\ \E S \in SUBSET Claimable(w) :
          /\ S # {}
          /\ Oldest(S, Claimable(w), Limit)
          /\ batch' = [batch EXCEPT ![w] = S]
          /\ rowLock' = [j \in Job |-> IF j \in S THEN w ELSE rowLock[j]]
    /\ pc' = [pc EXCEPT ![w] = "selected"]
    /\ UNCHANGED <<status, attempts, current, runs, crashes>>

\* The row locks of w's claim end with its transaction.
Unlock(w) == rowLock' = [j \in Job |-> IF rowLock[j] = w THEN NoWorker ELSE rowLock[j]]

\* Mutant of ConsumeCommit: the UPDATE is left out.
ConsumeCommitOnlyUnlocks(w) ==
    /\ pc[w] = "selected"
    /\ Unlock(w)
    /\ pc' = [pc EXCEPT ![w] = "ready"]
    /\ UNCHANGED <<status, attempts, batch, current, runs, crashes>>

\* Second statement of consume and its commit, which releases the row locks.
ConsumeCommit(w) ==
    /\ pc[w] = "selected"
    /\ status' = [j \in Job |-> IF j \in batch[w] THEN "processing" ELSE status[j]]
    /\ Unlock(w)
    /\ pc' = [pc EXCEPT ![w] = "ready"]
    /\ UNCHANGED <<attempts, batch, current, runs, crashes>>

\* The for loop takes the next job, oldest first, and enters the handler.
Begin(w) ==
    /\ pc[w] = "ready"
    /\ \E j \in batch[w] :
          /\ \A k \in batch[w] : j <= k
          /\ current' = [current EXCEPT ![w] = j]
          /\ runs' = [runs EXCEPT ![j] = @ + 1]
    /\ pc' = [pc EXCEPT ![w] = "handling"]
    /\ UNCHANGED <<status, attempts, rowLock, batch, crashes>>

\* The handler, or the ack after it, raises: control is in the except clause.  What
\* the handler has written by then stays, and what it failed to write it may have
\* swallowed: the queue sees neither.
Raise(w) ==
    /\ pc[w] = "handling"
    /\ pc' = [pc EXCEPT ![w] = "raised"]
    /\ UNCHANGED <<status, attempts, rowLock, batch, current, runs, crashes>>

\* Mutant of Advance: the loop is left after one job.
AdvanceBreaks(w) ==
    /\ batch' = [batch EXCEPT ![w] = {}]
    /\ current' = [current EXCEPT ![w] = NoJob]
    /\ pc' = [pc EXCEPT ![w] = "idle"]

\* The worker is through with its current job: next one, or poll again.
Advance(w) ==
    /\ batch' = [batch EXCEPT ![w] = @ \ {current[w]}]
    /\ current' = [current EXCEPT ![w] = NoJob]
    /\ pc' = [pc EXCEPT ![w] = IF batch[w] = {current[w]} THEN "idle" ELSE "ready"]

\* PgQueue.ack, after the handler returned.
Ack(w) ==
    /\ pc[w] = "handling"
    /\ status' = [status EXCEPT ![current[w]] = "done"]
    /\ Advance(w)
    /\ UNCHANGED <<attempts, rowLock, runs, crashes>>

\* Mutant of Fail: the job is put back for a retry.
FailRetries(w) ==
    /\ pc[w] = "raised"
    /\ status' = [status EXCEPT ![current[w]] = "pending"]
    /\ attempts' = [attempts EXCEPT ![current[w]] = @ + 1]
    /\ Advance(w)
    /\ UNCHANGED <<rowLock, runs, crashes>>

\* PgQueue.fail, in the except clause.
Fail(w) ==
    /\ pc[w] = "raised"
    /\ status' = [status EXCEPT ![current[w]] = "failed"]
    /\ attempts' = [attempts EXCEPT ![current[w]] = @ + 1]
    /\ Advance(w)
    /\ UNCHANGED <<rowLock, runs, crashes>>

\* A dead process has no loop and no batch.
Dies(w) ==
    /\ pc[w] # "down"
    /\ crashes < MaxCrashes
    /\ crashes' = crashes + 1
    /\ pc' = [pc EXCEPT ![w] = "down"]
    /\ batch' = [batch EXCEPT ![w] = {}]
    /\ current' = [current EXCEPT ![w] = NoJob]
    /\ UNCHANGED <<attempts, runs>>

\* Mutants of Crash: the claim's transaction outlives its process; the jobs of the
\* dead process are given back.
CrashKeepsLocks(w) == Dies(w) /\ UNCHANGED <<status, rowLock>>
CrashGivesBack(w) ==
    /\ Dies(w)
    /\ Unlock(w)
    /\ status' = [j \in Job |-> IF j \in batch[w] THEN "pending" ELSE status[j]]

\* The process dies at any point of run(): killed, or an exception the loop does
\* not catch (consume or fail itself raises and run() leaves by its finally
\* clause).  Postgres aborts its open claim; nothing else knows of the batch.
Crash(w) == Dies(w) /\ Unlock(w) /\ UNCHANGED status

\* A new process is started: connect, load, poll.  It looks for pending rows only.
Restart(w) ==
    /\ pc[w] = "down"
    /\ pc' = [pc EXCEPT ![w] = "idle"]
    /\ UNCHANGED <<status, attempts, rowLock, batch, current, runs, crashes>>

Work(w) ==
    \/ ConsumeSelect(w) \/ ConsumeCommit(w) \/ Begin(w)
    \/ Ack(w) \/ Fail(w) \/ Restart(w)

Next ==
    \/ \E j \in Job : Publish(j)
    \/ \E w \in Worker : Work(w) \/ ConsumeEmpty(w) \/ Raise(w) \/ Crash(w)

Spec == Init /\ [][Next]_vars

\* A live worker loops forever and every statement it sends completes; a dead one
\* is started again.  Nothing obliges a publisher to publish, a handler to raise
\* or a process to die.
FairSpec == Spec /\ \A w \in Worker : WF_vars(Work(w))

-----------------------------------------------------------------------------
(* Safety *)

Held(j) == \E w \in Worker : pc[w] # "selected" /\ j \in batch[w]

\* No job is in the hands of two workers at once: the batches of the run loops,
\* claimed with SKIP LOCKED, are disjoint.
ExclusiveClaim ==
    \A v, w \in Worker : v # w => batch[v] \intersect batch[w] = {}

\* A handler is entered at most once for a job, whatever crashes, restarts and
\* concurrent polls happen: delivery is at most once.
HandledAtMostOnce == \A j \in Job : runs[j] <= 1

\* A row that stays 'processing' with no worker holding it is the trace of a death.
StrandedOnlyByCrash ==
    crashes = 0 => \A j \in Job : status[j] = "processing" => Held(j)

\* A worker alive in its loop never sits on a row that others could still claim:
\* what it handles is 'processing' in the table, and a row locked by an open
\* claim is still 'pending' and in that claim's batch.
TableAgreesWithWorkers ==
    \A w \in Worker, j \in Job :
        /\ j \in batch[w] => status[j] = (IF pc[w] = "selected" THEN "pending"
                                                                ELSE "processing")
        /\ rowLock[j] = w <=> pc[w] = "selected" /\ j \in batch[w]

-----------------------------------------------------------------------------
(* Liveness *)

\* A pending row of a stream somebody reads is closed, or stranded by a death; it
\* is never starved by younger rows or by claims that are rolled back.  With
\* StrandedOnlyByCrash: as long as the workers live, the queue drains.
Settles ==
    \A j \in Job :
        (status[j] = "pending" /\ \E w \in Worker : Reads[w] = StreamOf[j])
            ~> (status[j] \in {"done", "failed"} \/ (status[j] = "processing" /\ ~Held(j)))

-----------------------------------------------------------------------------
(* The abstract life of a job *)

PhaseOf(j) ==
    CASE status[j] = "absent" -> "new"
      [] status[j] = "pending" -> "queued"
      [] status[j] = "processing" /\ Held(j) -> "owned"
      [] status[j] = "processing" /\ ~Held(j) -> "stranded"
      [] OTHER -> "closed"

OwnerOf(j) ==
    IF Held(j) THEN CHOOSE w \in Worker : pc[w] # "selected" /\ j \in batch[w]
               ELSE NoWorker

Lifecycle == INSTANCE JobLifecycle
    WITH phase <- [j \in Job |-> PhaseOf(j)], owner <- [j \in Job |-> OwnerOf(j)]

\* The table, the locks and the loops implement JobLifecycle.
ImplementsLifecycle == Lifecycle!Spec

=============================================================================
