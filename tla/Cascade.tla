------------------------------- MODULE Cascade -------------------------------
(***************************************************************************)
(* One run of the store cascade: src/kathirmani/cli/run_inference.py (main *)
(* with its optional stages), pipeline.py (run_all, _infer_one_video,      *)
(* process_video) and qwen_vl.py (analyze_video).  A pool of threads takes *)
(* the cameras in order; each decodes its clip, asks one caption and the   *)
(* find queries under the lock of the one GPU, writes its result file and  *)
(* returns; the main thread collects the futures as they complete, puts    *)
(* them back in order and fuses them.  What the models would answer is a   *)
(* constant; which calls raise is the scheduler's choice, within MaxFaults.*)
(* Metrics, logs and annotations (which swallow their own errors) are not  *)
(* modelled, except the progress count and the power samples, and nothing  *)
(* fails between the decode and the first prompt, where only metrics are   *)
(* counted.                                                                *)
(***************************************************************************)
EXTENDS Fusion

CONSTANTS
    Camera,         \* the videos, 1..N in the order they are listed
    Queries,        \* FIND_QUERIES, in order
    Caption,        \* Caption[c]: the events a caption of c lists
    Find,           \* Find[c][q]: the span of q in c, or NoSpan
    Workers,        \* run_all's clamped max_workers
    Duration,       \* whether --duration was given: clips are trimmed first
    MaxFaults,      \* bound: calls that raise
    MaxSamples,     \* bound: power samples taken
    Pending, Lost, NoCamera

ASSUME CascadeAssumption ==
    /\ IsFiniteSet(Camera) /\ Camera = 1..Cardinality(Camera)
    /\ Queries \in Seq(Query) /\ Query = ToSet(Queries)
    /\ \A m, n \in DOMAIN Queries : Queries[m] = Queries[n] => m = n
    /\ Workers \in 1..Cardinality(Camera) /\ Duration \in BOOLEAN
    /\ MaxFaults \in Nat /\ MaxSamples \in Nat

VARIABLES
    mode,           \* "all" (run_all) or "one" (--video: process_video)
    phase,          \* of the main thread
    pc,             \* pc[c]: where the threads are with camera c
    prompt,         \* prompt[c]: prompts answered; 0 is the caption's turn
    answered,       \* answered[c]: whether the last prompt came back
    out,            \* out[c]: `output` of the thread
    gpu,            \* the holder of _GPU_LOCK
    progress,       \* _Progress.done
    collected,      \* cameras whose future returned, in completion order
    clips,          \* _tmp_clips that exist
    file,           \* file[c]: {label}.json of this run, or Pending
    report,         \* fused.json
    poller,         \* poll_dgx_metrics: "on", "last" (told to stop), "off"
    samples,        \* _dgx_power_samples, how many
    faults

threadVars == <<pc, prompt, answered, out, gpu, progress, file>>
mainVars == <<mode, phase, collected, clips, report>>
pollVars == <<poller, samples>>
vars == <<threadVars, mainVars, pollVars, faults>>

Total == Cardinality(Camera) * (1 + Len(Queries))

Blank(c) == [label |-> c, events |-> <<>>, find |-> <<>>]
File(o) == [outcome |-> o, route |-> Pending, qwen |-> Pending]

Init ==
    /\ mode \in {"all", "one"}
    /\ phase = "trim"
    /\ pc = [c \in Camera |-> "listed"]
    /\ prompt = [c \in Camera |-> 0]
    /\ answered = [c \in Camera |-> FALSE]
    /\ out = [c \in Camera |-> Blank(c)]
    /\ gpu = NoCamera
    /\ progress = 0
    /\ collected = <<>>
    /\ clips = {}
    /\ file = [c \in Camera |-> Pending]
    /\ report = Pending
    /\ poller = IF mode = "all" THEN "on" ELSE "off"
    /\ samples = 0
    /\ faults = 0

\* A call comes back or raises.
Returns(ok) ==
    /\ ok \/ faults < MaxFaults
    /\ faults' = IF ok THEN faults ELSE faults + 1

-----------------------------------------------------------------------------
(* The pools of run_all.                                                    *)

\* The temporary file is on the list before it is written.
Trim(c) ==
    /\ mode = "all" /\ phase = "trim" /\ pc[c] = "listed"
    /\ \E ok \in {TRUE, ~Duration} :
          Returns(ok) /\ pc' = [pc EXCEPT ![c] = IF ok THEN "trimmed" ELSE "untrimmed"]
    /\ clips' = IF Duration THEN clips \cup {c} ELSE clips
    /\ UNCHANGED <<mode, phase, collected, report, prompt, answered, out, gpu, progress, file,
                   pollVars>>

\* One trim that raised ends the run: nothing is cleaned up, no camera is watched.
Dispatch ==
    /\ mode = "all" /\ phase = "trim"
    /\ \A c \in Camera : pc[c] # "listed"
    /\ phase' = IF \A c \in Camera : pc[c] = "trimmed" THEN "infer" ELSE "aborted"
    /\ UNCHANGED <<mode, collected, clips, report, threadVars, pollVars, faults>>

Busy == {c \in Camera : pc[c] \in {"prompt", "gpu", "answer", "save"}}

\* A defect: no skip after a failed decode.
SkippedNone == progress

\* The prompts that a failed decode makes impossible are skipped in the count.
Skipped == progress + 1 + Len(Queries)

\* A free thread takes the first video in the queue.  Decoding is outside the lock.
Decode(c) ==
    /\ phase = "infer" /\ pc[c] = "trimmed"
    /\ \A d \in Camera : pc[d] = "trimmed" => c <= d
    /\ Cardinality(Busy) < Workers
    /\ \E ok \in BOOLEAN :
          /\ Returns(ok)
          /\ pc' = [pc EXCEPT ![c] = IF ok THEN "prompt" ELSE "save"]
          /\ progress' = IF ok THEN progress ELSE Skipped
    /\ UNCHANGED <<prompt, answered, out, gpu, file, mainVars, pollVars>>

Acquire(c) ==
    /\ pc[c] = "prompt" /\ gpu = NoCamera
    /\ gpu' = c
    /\ pc' = [pc EXCEPT ![c] = "gpu"]
    /\ UNCHANGED <<prompt, answered, out, progress, file, mainVars, pollVars, faults>>

\* A defect: acquire() and release() without a `with`.
ReleasedOnSuccess(ok) == IF ok THEN NoCamera ELSE gpu

\* `with` lets go of the lock either way.
Released(ok) == NoCamera

\* _run_caption or _run_find.
Generate(c) ==
    /\ pc[c] = "gpu"
    /\ \E ok \in BOOLEAN :
          /\ Returns(ok)
          /\ answered' = [answered EXCEPT ![c] = ok]
          /\ gpu' = Released(ok)
    /\ pc' = [pc EXCEPT ![c] = "answer"]
    /\ UNCHANGED <<prompt, out, progress, file, mainVars, pollVars>>

\* find_results[q] = span
Put(find, q, span) == [p \in DOMAIN find \union {q} |-> IF p = q THEN span ELSE find[p]]

\* What one prompt leaves in the output of camera c.
Recorded(o, c, n, ok) ==
    IF n = 0 THEN [o EXCEPT !.events = IF ok THEN Caption[c] ELSE @]
    ELSE [o EXCEPT !.find = Put(@, Queries[n], IF ok THEN Find[c][Queries[n]] ELSE Failed)]

\* A prompt that raised is recorded as an error and counted like any other.
Record(c) ==
    /\ pc[c] = "answer"
    /\ out' = [out EXCEPT ![c] = Recorded(@, c, prompt[c], answered[c])]
    /\ progress' = progress + 1
    /\ prompt' = [prompt EXCEPT ![c] = @ + 1]
    /\ pc' = [pc EXCEPT ![c] = IF prompt[c] = Len(Queries) THEN "save" ELSE "prompt"]
    /\ UNCHANGED <<answered, gpu, file, mainVars, pollVars, faults>>

\* The result file; when writing it raises, so does the future.
Save(c) ==
    /\ pc[c] = "save"
    /\ \E ok \in BOOLEAN :
          /\ Returns(ok)
          /\ file' = IF ok THEN [file EXCEPT ![c] = File(out[c])] ELSE file
          /\ pc' = [pc EXCEPT ![c] = IF ok THEN "returned" ELSE "raised"]
    /\ UNCHANGED <<prompt, answered, out, gpu, progress, mainVars, pollVars>>

\* The loop over as_completed: a future that raised leaves no result.
Collect(c) ==
    /\ phase = "infer" /\ pc[c] \in {"returned", "raised"}
    /\ collected' = IF pc[c] = "returned" THEN Append(collected, c) ELSE collected
    /\ pc' = [pc EXCEPT ![c] = IF pc[c] = "returned" THEN "collected" ELSE "lost"]
    /\ UNCHANGED <<mode, phase, clips, report, prompt, answered, out, gpu, progress, file,
                   pollVars, faults>>

\* A defect: results kept as they complete.
OrderedAsCompleted(done) == done

\* results_by_index, back in the order of the videos.
Ordered(done) == InOrder(ToSet(done))
Results == LET order == Ordered(collected) IN [i \in DOMAIN order |-> out[order[i]]]

\* The end of run_all: the poller is told to stop (not joined), the clips go, and the report
\* is written unless that raises.
Fuse ==
    /\ mode = "all" /\ phase = "infer"
    /\ \A c \in Camera : pc[c] \in {"collected", "lost"}
    /\ \E ok \in BOOLEAN, results \in {Results} :
          /\ Returns(ok)
          /\ report' = IF ok THEN FuseResults(results) ELSE report
          /\ phase' = IF ok THEN "economy" ELSE "aborted"
    /\ clips' = {}
    /\ poller' = IF poller = "on" THEN "last" ELSE poller
    /\ UNCHANGED <<mode, collected, samples, threadVars>>

-----------------------------------------------------------------------------
(* --video: the same work by the main thread alone.                         *)

\* `annotations` is imported after the caption has come back: without a caption every query
\* that finds a span raises as well, and its answer is lost.
SoloFailed(c, raised) ==
    {n \in 1..Len(Queries) :
        \/ n \in raised
        \/ 0 \in raised /\ Find[c][Queries[n]] # NoSpan}

\* Any match may come first: the glob is not sorted here.
ProcessVideo ==
    /\ mode = "one" /\ phase = "trim"
    /\ \E c \in Camera, decoded \in BOOLEAN, raised \in SUBSET (0..Len(Queries)) :
          LET lost == SoloFailed(c, raised)
              events == IF 0 \in raised THEN <<>> ELSE Caption[c]
              find == [q \in Query |-> IF \E n \in lost : Queries[n] = q THEN Failed ELSE Find[c][q]]
              o == IF decoded THEN [label |-> c, events |-> events, find |-> find] ELSE Blank(c)
          IN  /\ decoded \/ raised = {}
              /\ faults' = Cardinality(raised) + (IF decoded THEN 0 ELSE 1)
              /\ faults' <= MaxFaults
              /\ out' = [out EXCEPT ![c] = o]
              /\ file' = [file EXCEPT ![c] = File(o)]
              /\ collected' = <<c>>
              /\ clips' = IF Duration THEN {c} ELSE {}
    /\ phase' = "economy"
    /\ UNCHANGED <<mode, report, pc, prompt, answered, gpu, progress, pollVars>>

-----------------------------------------------------------------------------
(* The stages of main after the cameras, and the metrics thread.            *)

\* One pass of poll_dgx_metrics that reads the power; a pass may still be under way when the
\* thread is told to stop.
Sample ==
    /\ poller # "off" /\ samples < MaxSamples
    /\ samples' = samples + 1
    /\ poller' = IF poller = "last" THEN "off" ELSE poller
    /\ UNCHANGED <<threadVars, mainVars, faults>>

\* compute_economy uses up the samples.
Economy ==
    /\ phase = "economy"
    /\ phase' = "locate"
    /\ samples' = 0
    /\ UNCHANGED <<mode, collected, clips, report, poller, threadVars, faults>>

\* Skipped without --locate or when kathirmani.locate cannot be imported (the package is not
\* part of this tree); else each file is told whether any frame is worth a question.
Locate ==
    /\ phase = "locate"
    /\ phase' = "qwen"
    /\ \/ UNCHANGED file
       \/ \E some \in SUBSET ToSet(collected) :
             file' = [c \in Camera |->
                        IF c \notin ToSet(collected) THEN file[c]
                        ELSE [file[c] EXCEPT !.route = IF c \in some THEN "some" ELSE "empty"]]
    /\ UNCHANGED <<mode, collected, clips, report, pc, prompt, answered, out, gpu, progress,
                   pollVars, faults>>

Unasked == {c \in ToSet(collected) : file[c].qwen = Pending}

\* analyze_video asks under the lock; a query that raises is an answer that is not ok.
Ask(c) ==
    /\ phase = "qwen" /\ c \in Unasked /\ \A d \in Unasked : c <= d
    /\ file[c].route # "empty" => gpu = NoCamera
    /\ \E ok \in BOOLEAN :
          /\ file[c].route = "empty" => ok
          /\ Returns(ok)
          /\ file' = [file EXCEPT ![c].qwen = IF file[c].route = "empty" THEN "skipped"
                                              ELSE IF ok THEN "answered" ELSE "failed"]
    /\ UNCHANGED <<pc, prompt, answered, out, gpu, progress, mainVars, pollVars>>

\* Without the model, or with --skip-qwen, no camera is asked about.
Finish ==
    /\ phase = "qwen"
    /\ Unasked \in {{}, ToSet(collected)}
    /\ phase' = "done"
    /\ UNCHANGED <<mode, collected, clips, report, threadVars, pollVars, faults>>

Thread(c) == Trim(c) \/ Decode(c) \/ Acquire(c) \/ Generate(c) \/ Record(c) \/ Save(c)

Main == \/ Dispatch \/ Fuse \/ ProcessVideo \/ Economy \/ Locate \/ Finish
        \/ \E c \in Camera : Collect(c) \/ Ask(c)

Next == Main \/ Sample \/ \E c \in Camera : Thread(c)

Spec == Init /\ [][Next]_vars

\* Every thread that can run does; nothing is assumed of who gets the lock.
FairSpec == Spec /\ WF_vars(Main) /\ \A c \in Camera : WF_vars(Thread(c))

-----------------------------------------------------------------------------
(* Properties.                                                              *)

Outcomes(c) ==
    {Blank(c)} \cup
    {[label |-> c, events |-> IF 0 \in raised THEN <<>> ELSE Caption[c],
      find |-> [q \in Query |-> IF \E n \in raised : n > 0 /\ Queries[n] = q
                                THEN Failed ELSE Find[c][q]]] :
        raised \in SUBSET (0..Len(Queries))}

ASSUME OutcomeAssumption ==
    Pending # Lost /\ \A c \in Camera : Pending \notin Outcomes(c) /\ Lost \notin Outcomes(c)

Settled(c) ==
    IF pc[c] = "collected" THEN out[c] ELSE IF pc[c] = "lost" THEN Lost ELSE Pending

Batch == INSTANCE CascadeBatch WITH outcome <- [c \in Camera |-> Settled(c)]

\* The threads, the lock, the pool and the order of completion implement the plain batch of
\* CascadeBatch: each camera's outcome is decided by its own prompts alone and fused.json is
\* what the surviving outcomes, in the order of the videos, determine (run_all).
ImplementsBatch == Batch!Spec

\* The count of GPU calls never overshoots and is complete when the last camera is collected,
\* whatever failed on the way (_Progress: "these GPU calls will never run - keep the run
\* total honest").
ProgressEndsAtTotal ==
    /\ progress <= Total
    /\ mode = "all" /\ (\A c \in Camera : pc[c] \in {"collected", "lost"}) => progress = Total

\* The run ends: no raised call leaves the GPU locked or a future unfinished.
Finishes == <>(phase \in {"done", "aborted"})

==============================================================================
