----------------------------- MODULE CascadeBatch ----------------------------
(***************************************************************************)
(* What a run of the store cascade promises (run_all of                    *)
(* src/kathirmani/pipeline.py): every camera ends in a result of its own   *)
(* or is lost, whichever comes first or last, and the fused report is the  *)
(* one that the results, taken in the order of the videos, determine.      *)
(* Threads, the GPU and the order of completion do not appear.             *)
(***************************************************************************)
CONSTANTS
    Camera,         \* the videos, 1..N in the order they are listed
    Outcomes(_),    \* what camera c can answer
    InOrder(_),     \* a set of cameras in the order of the videos
    FuseResults(_), \* the report on a sequence of outcomes
    Pending,        \* no outcome yet
    Lost            \* the camera's thread raised

VARIABLES outcome, report

Init ==
    /\ outcome = [c \in Camera |-> Pending]
    /\ report = Pending

Settle(c) ==
    /\ outcome[c] = Pending
    /\ outcome' \in {[outcome EXCEPT ![c] = o] : o \in Outcomes(c) \cup {Lost}}
    /\ UNCHANGED report

Survivors == InOrder({c \in Camera : outcome[c] # Lost})

Report ==
    /\ report = Pending
    /\ \A c \in Camera : outcome[c] # Pending
    /\ \E order \in {Survivors} :
          \E results \in {[i \in DOMAIN order |-> outcome[order[i]]]} :
              report' = FuseResults(results)
    /\ UNCHANGED outcome

Next == Report \/ \E c \in Camera : Settle(c)

Spec == Init /\ [][Next]_<<outcome, report>>
==============================================================================
