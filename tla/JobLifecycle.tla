---------------------------- MODULE JobLifecycle ----------------------------
(***************************************************************************)
(* What the platform queue promises its clients, without its rows, locks   *)
(* and worker loops: a published job is handed to at most one worker, by   *)
(* one claim; the worker either closes it or dies and leaves it stranded;  *)
(* a closed or stranded job is never handed out again.                     *)
(***************************************************************************)

CONSTANTS
    Job,        \* the jobs that may ever be published
    Worker,     \* the worker processes
    NoWorker    \* "owned by nobody"

VARIABLES
    phase,      \* phase[j]: where job j is in its life
    owner       \* owner[j]: the worker that holds j, or NoWorker

vars == <<phase, owner>>

Phase == {"new", "queued", "owned", "stranded", "closed"}

TypeOK ==
    /\ phase \in [Job -> Phase]
    /\ owner \in [Job -> Worker \union {NoWorker}]

Init ==
    /\ phase = [j \in Job |-> "new"]
    /\ owner = [j \in Job |-> NoWorker]

Publish(j) ==
    /\ phase[j] = "new"
    /\ phase' = [phase EXCEPT ![j] = "queued"]
    /\ UNCHANGED owner

\* One claim hands a whole batch S to one worker.
Claim(w, S) ==
    /\ \A j \in S : phase[j] = "queued"
    /\ phase' = [j \in Job |-> IF j \in S THEN "owned" ELSE phase[j]]
    /\ owner' = [j \in Job |-> IF j \in S THEN w ELSE owner[j]]

Close(w, j) ==
    /\ phase[j] = "owned"
    /\ owner[j] = w
    /\ phase' = [phase EXCEPT ![j] = "closed"]
    /\ owner' = [owner EXCEPT ![j] = NoWorker]

\* A worker that dies takes no job with it into another worker's hands.
Abandon(w) ==
    /\ phase' = [j \in Job |-> IF owner[j] = w THEN "stranded" ELSE phase[j]]
    /\ owner' = [j \in Job |-> IF owner[j] = w THEN NoWorker ELSE owner[j]]

Next ==
    \/ \E j \in Job : Publish(j)
    \/ \E w \in Worker : \/ \E S \in SUBSET Job : Claim(w, S)
                         \/ \E j \in Job : Close(w, j)
                         \/ Abandon(w)

Spec == Init /\ [][Next]_vars

=============================================================================
