------------------------------ MODULE VlmWorker ------------------------------
(***************************************************************************)
(* The VLM worker processes (ai_workers/vlm_worker/worker.py, plugin.py):  *)
(* a process takes event.needs_vlm messages, asks its model about the clip *)
(* of a flagged one or reuses the verdict it has for that clip and event   *)
(* type, writes an observation, the confidence of the event and a model    *)
(* run, each in a transaction of its own, publishes vlm.verified and       *)
(* closes the job.                                                         *)
(***************************************************************************)
EXTENDS VlmParser, FiniteSets

CONSTANTS
    Worker,
    Event,          \* ids of `events` rows
    Message,        \* messages in publish order, [event, type, clip, flagged]
    NoClip,         \* the clip of a message without evidence_path
    Answer,         \* texts the model may come up with
    Backend,        \* the backends make_queue may end up with
    Limit,          \* messages per poll
    MaxPolls,       \* bound: polls of the file fallback by one process
    MaxFaults,      \* bound: deaths, lost clips, failed inferences and writes
    Absent          \* no confidence yet

ASSUME VlmAssumption ==
    /\ Limit \in Nat \ {0} /\ MaxPolls \in Nat /\ MaxFaults \in Nat
    /\ Len(Message) \in Nat /\ DOMAIN Message = 1..Len(Message)
    /\ \A n \in DOMAIN Message : Message[n].event \in Event
    /\ Absent \notin 0..100

VARIABLES
    backend,        \* what the processes read from and publish to
    pending,        \* ranks of messages not claimed (Postgres)
    batch,          \* batch[w]: messages in hand, the first in work
    pc,             \* pc[w]: what comes next for that message
    model,          \* model[w]: "none" or "up"
    cache,          \* cache[w]: _verdict_cache, from keys to outputs
    out,            \* out[w]: the output for the message in work
    observations,   \* committed vlm_observations, in commit order, expired ones too
    confidence,     \* confidence[e]: events.confidence as set from verdicts
    runs,           \* number of model_runs rows
    verified,       \* published vlm.verified messages
    gone,           \* events deleted by the retention job
    expired,        \* places in observations deleted by it
    lost,           \* clips deleted by the retention job
    polls,          \* polls[w] of the file fallback
    watched,        \* watched[w]: keys the process inferred, in order (history)
    failed,         \* failed[n]: writes made for message n that were rejected (history)
    faults

memory == <<model, cache, watched>>
tables == <<observations, confidence, runs>>
world == <<backend, gone, expired, lost>>
vlmVars == <<pending, batch, pc, out, memory, tables, verified, world, polls, failed, faults>>

Nothing == [key |-> <<>>, verification |-> Unparsed, faked |-> FALSE]

VlmInit ==
    /\ backend \in Backend
    /\ pending = IF backend = "pg" THEN DOMAIN Message ELSE {}
    /\ batch = [w \in Worker |-> <<>>]
    /\ pc = [w \in Worker |-> "idle"]
    /\ model = [w \in Worker |-> "none"]
    /\ cache = [w \in Worker |-> <<>>]
    /\ out = [w \in Worker |-> Nothing]
    /\ observations = <<>>
    /\ confidence = [e \in Event |-> Absent]
    /\ runs = 0
    /\ verified = {}
    /\ gone = {}
    /\ expired = {}
    /\ lost = {}
    /\ polls = [w \in Worker |-> 0]
    /\ watched = [w \in Worker |-> <<>>]
    /\ failed = [n \in DOMAIN Message |-> {}]
    /\ faults = 0

-----------------------------------------------------------------------------
(* Messages *)

Take(w, ranks) ==
    /\ batch' = [batch EXCEPT ![w] = ranks]
    /\ pc' = [pc EXCEPT ![w] = IF ranks = <<>> THEN "idle" ELSE "verify"]
    /\ UNCHANGED <<out, memory, tables, verified, world, failed, faults>>

AtMost(n) == IF n < Limit THEN n ELSE Limit

\* ORDER BY created_at: no pending message is older than the next one taken.
Oldest(ranks) ==
    /\ \A i, j \in DOMAIN ranks : i < j => ranks[i] < ranks[j]
    /\ \A n \in pending \ ToSet(ranks) : \A i \in DOMAIN ranks : ranks[i] < n

\* PgQueue.consume: the oldest messages, to one process only.
Claim(w) ==
    /\ backend = "pg" /\ pc[w] = "idle" /\ pending # {}
    /\ \E ranks \in [1..AtMost(Cardinality(pending)) -> pending] :
          /\ Oldest(ranks)
          /\ Take(w, ranks)
          /\ pending' = pending \ ToSet(ranks)
    /\ UNCHANGED polls

\* _file_jobs: the first lines, whoever has read them before.
PollFile(w) ==
    /\ backend = "file" /\ pc[w] = "idle" /\ polls[w] < MaxPolls
    /\ Take(w, [n \in 1..AtMost(Len(Message)) |-> n])
    /\ polls' = [polls EXCEPT ![w] = @ + 1]
    /\ UNCHANGED pending

Current(w) == Message[Head(batch[w])]

\* The next message of the batch; with Postgres this one is acked.
Closed(w) ==
    /\ batch' = [batch EXCEPT ![w] = Tail(@)]
    /\ pc' = [pc EXCEPT ![w] = IF Len(batch[w]) = 1 THEN "idle" ELSE "verify"]
    /\ out' = [out EXCEPT ![w] = Nothing]

\* needs_verification is false: nothing is asked and nothing is written.
Skip(w) ==
    /\ pc[w] = "verify" /\ ~Current(w).flagged
    /\ Closed(w)
    /\ UNCHANGED <<pending, memory, tables, verified, world, polls, failed, faults>>

-----------------------------------------------------------------------------
(* Inference *)

\* Mutant of Key: one verdict per clip.
KeyOfClip(m) == <<m.clip, "any">>

\* cache_key
Key(m) == <<m.clip, m.type>>

\* The model loads lazily and may fail to load every time.
Load(w) == \/ UNCHANGED model
           \/ model[w] = "none" /\ model' = [model EXCEPT ![w] = "up"]

Exists(m) == m.clip # NoClip /\ m.clip \notin lost

\* _run_model: some text about the frames of the clip.
RunModel(w) == IF model'[w] = "up" THEN Answer ELSE {}

VerificationOf == [a \in Answer |-> ParseVerification(a).verification]

\* _package: of an output, what was asked, the verdict, and whether it is a stand-in.
Package(m, faked, v) == [key |-> <<m.clip, m.type>>, faked |-> faked, verification |-> v]

\* infer: the model's answer on the clip, parsed.
Real(w, m) ==
    /\ Exists(m)
    /\ \E a \in RunModel(w) : out' = [out EXCEPT ![w] = Package(m, FALSE, VerificationOf[a])]
    /\ UNCHANGED faults

\* fake_infer: "unclear" at one half, for want of a clip or a model or after an error, also
\* one of the parser.
Fake(w, m) ==
    /\ Exists(m) => faults < MaxFaults
    /\ faults' = IF Exists(m) THEN faults + 1 ELSE faults
    /\ out' = [out EXCEPT ![w] =
                 Package(m, TRUE, [verdict |-> "unclear", confidence |-> 50])]

\* Mutant of Remembered: outputs of real inferences only are cached.
RememberedReal(w, k, o) ==
    [key \in DOMAIN cache[w] \union (IF o.faked THEN {} ELSE {k}) |->
        IF key = k THEN o ELSE cache[w][key]]

\* Every output is cached for the life of the process, a stand-in too.
Remembered(w, k, o) ==
    [key \in DOMAIN cache[w] \union {k} |-> IF key = k THEN o ELSE cache[w][key]]

Verify(w) ==
    /\ pc[w] = "verify" /\ Current(w).flagged
    /\ LET m == Current(w)
           k == Key(m)
       IN  IF k \in DOMAIN cache[w]
           THEN out' = [out EXCEPT ![w] = cache[w][k]] /\ UNCHANGED <<memory, faults>>
           ELSE /\ Load(w)
                /\ Real(w, m) \/ Fake(w, m)
                /\ cache' = [cache EXCEPT ![w] = Remembered(w, k, out'[w])]
                /\ watched' = [watched EXCEPT ![w] = Append(@, <<m.clip, m.type>>)]
    /\ pc' = [pc EXCEPT ![w] = "observe"]
    /\ UNCHANGED <<pending, batch, tables, verified, world, polls, failed>>

-----------------------------------------------------------------------------
(* Outputs: each is best effort, and a rejected one is swallowed.          *)

Reject(w, what) ==
    /\ faults < MaxFaults /\ faults' = faults + 1
    /\ failed' = [failed EXCEPT ![Head(batch[w])] = @ \union {what}]
Accept == UNCHANGED <<failed, faults>>

\* _write_vlm_observation
Observe(w) ==
    /\ pc[w] = "observe"
    /\ \/ Accept /\ observations' = Append(observations,
                                           [event |-> Current(w).event, out |-> out[w]])
       \/ Reject(w, "observation") /\ UNCHANGED observations
    /\ pc' = [pc EXCEPT ![w] = "confide"]
    /\ UNCHANGED <<pending, batch, out, memory, confidence, runs, verified, world, polls>>

\* Mutant of Confide: observation and confidence share a transaction.
ConfideTogether(w) ==
    /\ pc[w] = "confide"
    /\ LET e == Current(w).event
       IN  \/ /\ Accept
              /\ confidence' = IF e \in gone THEN confidence
                               ELSE [confidence EXCEPT ![e] = out[w].verification.confidence]
              /\ UNCHANGED observations
           \/ /\ Reject(w, "confidence")
              /\ observations' = SelectSeq(observations, LAMBDA o : o.event # e)
              /\ UNCHANGED confidence
    /\ pc' = [pc EXCEPT ![w] = "record"]
    /\ UNCHANGED <<pending, batch, out, memory, runs, verified, world, polls>>

\* _update_event_confidence: an event that is gone has no rows to update.
Confide(w) ==
    /\ pc[w] = "confide"
    /\ LET e == Current(w).event
       IN  \/ /\ Accept
              /\ confidence' = IF e \in gone THEN confidence
                               ELSE [confidence EXCEPT ![e] = out[w].verification.confidence]
           \/ Reject(w, "confidence") /\ UNCHANGED confidence
    /\ pc' = [pc EXCEPT ![w] = "record"]
    /\ UNCHANGED <<pending, batch, out, memory, observations, runs, verified, world, polls>>

Verified(w) == [event |-> Current(w).event, rank |-> Head(batch[w]), type |-> Current(w).type,
                clip |-> Current(w).clip, verification |-> out[w].verification,
                key |-> out[w].key]

\* _write_model_run: a cache hit records a run too, the one of the first time.
RecordRun(w) ==
    /\ pc[w] = "record"
    /\ \/ Accept /\ runs' = runs + 1
       \/ Reject(w, "run") /\ UNCHANGED runs
    /\ pc' = [pc EXCEPT ![w] = "announce"]
    /\ UNCHANGED <<pending, batch, out, memory, observations, confidence, verified, world,
                   polls>>

\* The verdict is published and the job acked.
Announce(w) ==
    /\ pc[w] = "announce"
    /\ \/ Accept /\ verified' = verified \union {Verified(w)}
       \/ Reject(w, "message") /\ UNCHANGED verified
    /\ Closed(w)
    /\ UNCHANGED <<pending, memory, tables, world, polls>>

-----------------------------------------------------------------------------
(* Faults *)

\* A clip file is swept from disk, or retention deletes an event or an observation.
Expire ==
    /\ faults < MaxFaults /\ faults' = faults + 1
    /\ \/ \E n \in DOMAIN Message :
             /\ Message[n].clip \notin lost \union {NoClip}
             /\ lost' = lost \union {Message[n].clip}
             /\ UNCHANGED <<gone, expired, confidence>>
       \/ \E e \in Event \ gone :
             /\ gone' = gone \union {e}
             /\ confidence' = [confidence EXCEPT ![e] = Absent]
             /\ UNCHANGED <<lost, expired>>
       \/ \E i \in DOMAIN observations \ expired :
             /\ expired' = expired \union {i}
             /\ UNCHANGED <<gone, lost, confidence>>
    /\ UNCHANGED <<backend, pending, batch, pc, out, memory, observations, runs, verified,
                   polls, failed>>

\* A process dies and is started again: its memory and its claims are gone.
Die(w) ==
    /\ faults < MaxFaults /\ faults' = faults + 1
    /\ batch' = [batch EXCEPT ![w] = <<>>]
    /\ pc' = [pc EXCEPT ![w] = "idle"]
    /\ out' = [out EXCEPT ![w] = Nothing]
    /\ model' = [model EXCEPT ![w] = "none"]
    /\ cache' = [cache EXCEPT ![w] = <<>>]
    /\ watched' = [watched EXCEPT ![w] = <<>>]
    /\ UNCHANGED <<pending, tables, verified, world, polls, failed>>

VlmNext ==
    \/ \E w \in Worker :
          Claim(w) \/ PollFile(w) \/ Skip(w) \/ Verify(w) \/ Observe(w) \/ Confide(w)
            \/ RecordRun(w) \/ Announce(w) \/ Die(w)
    \/ Expire

-----------------------------------------------------------------------------
(* Safety *)

\* The verdict cache: a verdict that is published for an event was given on the event's
\* clip and for its type, though maybe for another subject.
VerdictIsAboutTheEvent ==
    \A v \in verified : v.key = <<v.clip, v.type>>

\* "A clip already watched for an event type is not re-watched" by the same process,
\* even if the clip or the model were missing the first time.
WatchedOncePerProcess ==
    \A w \in Worker : \A i, j \in DOMAIN watched[w] :
        watched[w][i] = watched[w][j] => i = j

\* The order of the best-effort writes: who hears a verdict finds it in the database as
\* an observation of the event, if it has not expired since, and the event has a
\* confidence, unless the very write was rejected or the event is gone.
MessageIsBacked ==
    \A v \in verified :
        /\ \/ "observation" \in failed[v.rank]
           \/ \E i \in DOMAIN observations :
                 /\ observations[i].event = v.event
                 /\ observations[i].out.verification = v.verification
        /\ \/ "confidence" \in failed[v.rank] \/ v.event \in gone
           \/ confidence[v.event] # Absent

=============================================================================
