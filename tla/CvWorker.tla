------------------------------ MODULE CvWorker ------------------------------
(***************************************************************************)
(* The CV worker processes (ai_workers/cv_oss_worker/worker.py, plugin.py) *)
(* around one queue backend: a process loads its detector lazily, keeps a  *)
(* tracker and an LRU of decoded clips, and for each window message        *)
(* infers, upserts its camera's live tracks row by row, publishes the      *)
(* hypotheses and closes the job.  With Postgres a message is claimed by   *)
(* one process; the file fallback reads the first lines of the stream on   *)
(* every poll (ingestion/bus.py).                                          *)
(***************************************************************************)
EXTENDS Tracker, SequencesExt

CONSTANTS
    Worker,
    Clip,           \* clip files
    CameraOf,       \* CameraOf[c]: the camera of clip c
    Footage,        \* Footage[c]: its pictures, a sequence of [view, dets]
    Window,         \* window messages in publish order, [clip, from, to]
    Backend,        \* the backends that may be asked for
    CacheSize,      \* _clip_cache_size
    Limit,          \* windows per poll
    MaxPolls,       \* bound: polls of the file fallback by one process
    Seeded,         \* cameras with a row in `cameras`, which `tracks` refers to
    MaxFaults,      \* bound: deaths, lost clip files and failed inferences
    MaxId           \* bound: ids whose rows are counted, more than a process gives out

ASSUME CvAssumption ==
    /\ CacheSize \in Nat \ {0} /\ Limit \in Nat \ {0}
    /\ MaxPolls \in Nat /\ MaxFaults \in Nat /\ MaxId \in Nat
    /\ IsFiniteSet(Worker) /\ Seeded \subseteq Camera

ASSUME FootageAssumption ==
    /\ CameraOf \in [Clip -> Camera]
    /\ Footage \in [Clip -> Seq([view : Int, dets : Seq([label : Label, at : Int])])]
    /\ Window \in Seq([clip : Clip, from : Nat, to : Nat])

VARIABLES
    backend,    \* what the processes read windows from
    pending,    \* ranks of window messages not claimed (Postgres)
    batch,      \* batch[w]: windows in hand, the first in work
    pc,         \* pc[w]: "infer", "store", "tracks" or "insert" for that window
    model,      \* model[w]: "none" or "up"
    tracker,    \* tracker[w]
    cache,      \* cache[w]: entries [clip, dets], least recently used first
    out,        \* out[w]: what inference returned, [faked, dets]
    unwritten,  \* unwritten[w]: ids of live tracks still to be written
    rows,       \* rows[c, id]: rows of `tracks` with that camera and external id
    stored,     \* stored[n]: rows committed for window n, [dets, events, runs]
    published,  \* hypotheses published
    lost,       \* clips whose file is gone
    polls,      \* polls[w] of the file fallback
    seen,       \* seen[w]: what this process inferred, in order (history)
    faults      \* deaths, lost files and failed inferences so far

vars == <<backend, pending, batch, pc, model, tracker, cache, out, unwritten, rows, stored,
          published, lost, polls, seen, faults>>
memory == <<model, tracker, cache>>
world == <<backend, lost>>

Nothing == [faked |-> FALSE, dets |-> {}]

\* make_queue: a service that is wanted and reachable, otherwise files.
MakeQueue(wanted, up) == IF wanted \in up THEN wanted ELSE "file"

\* Only Postgres is consumed from: with Redis the worker publishes there, and reads files.
ReadsFrom(queue) == IF queue = "pg" THEN "pg" ELSE "file"

Init ==
    /\ \E wanted \in Backend, up \in SUBSET {"pg", "redis"} :
          backend = ReadsFrom(MakeQueue(wanted, up))
    /\ pending = IF backend = "pg" THEN DOMAIN Window ELSE {}
    /\ batch = [w \in Worker |-> <<>>]
    /\ pc = [w \in Worker |-> "idle"]
    /\ model = [w \in Worker |-> "none"]
    /\ tracker = [w \in Worker |-> NoTracks]
    /\ cache = [w \in Worker |-> <<>>]
    /\ out = [w \in Worker |-> Nothing]
    /\ unwritten = [w \in Worker |-> {}]
    /\ rows = [k \in Camera \X (1..MaxId) |-> 0]
    /\ stored = [n \in DOMAIN Window |-> [dets |-> 0, events |-> 0, runs |-> 0]]
    /\ published = {}
    /\ lost = {}
    /\ polls = [w \in Worker |-> 0]
    /\ seen = [w \in Worker |-> <<>>]
    /\ faults = 0

-----------------------------------------------------------------------------
(* Jobs *)

Take(w, ranks) ==
    /\ batch' = [batch EXCEPT ![w] = ranks]
    /\ pc' = [pc EXCEPT ![w] = IF ranks = <<>> THEN "idle" ELSE "infer"]
    /\ UNCHANGED <<memory, out, unwritten, rows, stored, published, seen, world, faults>>

AtMost(n) == IF n < Limit THEN n ELSE Limit

\* ORDER BY created_at: no pending window is older than the next one taken.
Oldest(ranks) ==
    /\ \A i, j \in DOMAIN ranks : i < j => ranks[i] < ranks[j]
    /\ \A n \in pending \ ToSet(ranks) : \A i \in DOMAIN ranks : ranks[i] < n

\* PgQueue.consume (see JobQueue): the oldest rows, to one process only.
Claim(w) ==
    /\ backend = "pg" /\ pc[w] = "idle" /\ pending # {}
    /\ \E ranks \in [1..AtMost(Cardinality(pending)) -> pending] :
          /\ Oldest(ranks)
          /\ Take(w, ranks)
          /\ pending' = pending \ ToSet(ranks)
    /\ UNCHANGED polls

\* _file_jobs: the first lines, whoever has read them before.
PollFile(w) ==
    /\ backend = "file" /\ pc[w] = "idle" /\ polls[w] < MaxPolls
    /\ Take(w, [n \in 1..AtMost(Len(Window)) |-> n])
    /\ polls' = [polls EXCEPT ![w] = @ + 1]
    /\ UNCHANGED pending

Current(w) == Window[Head(batch[w])]

-----------------------------------------------------------------------------
(* Inference *)

Cached(w, c) == \E i \in DOMAIN cache[w] : cache[w][i].clip = c
Position(w, c) == CHOOSE i \in DOMAIN cache[w] : cache[w][i].clip = c
EntryOf(w, c) == cache[w][Position(w, c)]
Others(w, c) == IF Cached(w, c) THEN RemoveAt(cache[w], Position(w, c)) ELSE cache[w]

Slice(dets, window) == {d \in dets : window.from <= d.time /\ d.time < window.to}

\* Mutant of Touched: a hit does not move the clip to the end.
TouchedNot(w, entry) ==
    IF Cached(w, entry.clip) THEN cache[w]
    ELSE LET all == Append(cache[w], entry)
         IN  IF Len(all) > CacheSize THEN Tail(all) ELSE all

\* The cache after a use of the entry: it is the most recent one, the oldest goes.
Touched(w, entry) ==
    LET all == Append(Others(w, entry.clip), entry)
    IN  IF Len(all) > CacheSize THEN Tail(all) ELSE all

\* The outcomes of a window when the clip is there: sliced from the cache, or from a
\* first pass of detector and tracker over the whole clip.
Real(w) ==
    LET win == Current(w)
        c == win.clip
        pass == TrackClip(tracker[w], Footage[c], CameraOf[c])
        entry == IF Cached(w, c) THEN EntryOf(w, c) ELSE [clip |-> c, dets |-> pass.dets]
    IN  /\ c \notin lost
        /\ Cached(w, c) \/ model'[w] = "up"
        /\ UNCHANGED faults
        /\ tracker' = IF Cached(w, c) THEN tracker ELSE [tracker EXCEPT ![w] = pass.tracker]
        /\ cache' = [cache EXCEPT ![w] = Touched(w, entry)]
        /\ out' = [out EXCEPT ![w] = [faked |-> FALSE, dets |-> Slice(entry.dets, win)]]

\* fake_infer: a person and an item at a shelf, tracked at half a second into the
\* window.  It stands in for a missing clip, a missing model and an inference that
\* raises.
FakeDets == <<[label |-> "person", at |-> 49], [label |-> "item", at |-> 50]>>
Fake(w) ==
    LET win == Current(w)
        up == Update(tracker[w], FakeDets, CameraOf[win.clip], win.from)
    IN  /\ \/ win.clip \in lost /\ UNCHANGED faults
           \/ ~Cached(w, win.clip) /\ faults < MaxFaults /\ faults' = faults + 1
        /\ tracker' = [tracker EXCEPT ![w] = up.tracker]
        /\ out' = [out EXCEPT ![w] =
                     [faked |-> TRUE, dets |-> Identified(FakeDets, up.ids, win.from)]]
        /\ UNCHANGED cache

\* The model is loaded lazily (the load at the start is repeated by the first window
\* if it failed): it may fail every time.
Load(w) == \/ UNCHANGED model
           \/ model[w] = "none" /\ model' = [model EXCEPT ![w] = "up"]

Infer(w) ==
    /\ pc[w] = "infer"
    /\ Load(w)
    /\ Real(w) \/ Fake(w)
    /\ seen' = [seen EXCEPT ![w] = Append(@, [clip |-> Current(w).clip, out |-> out'[w]])]
    /\ pc' = [pc EXCEPT ![w] = "store"]
    /\ UNCHANGED <<pending, batch, unwritten, rows, stored, published, polls, world>>

-----------------------------------------------------------------------------
(* Outputs *)

Live(w) == tracker[w].tracks[CameraOf[Current(w).clip]]

\* _write_detections: every row is committed by itself.
WriteDetections(w) ==
    /\ pc[w] = "store"
    /\ stored' = [stored EXCEPT ![Head(batch[w])].dets = @ + Cardinality(out[w].dets)]
    /\ pc' = [pc EXCEPT ![w] = "tracks"]
    /\ unwritten' = [unwritten EXCEPT ![w] = {k.id : k \in Live(w)}]
    /\ UNCHANGED <<pending, batch, memory, out, rows, published, polls, seen, world, faults>>

Key(w) == <<CameraOf[Current(w).clip], Min(unwritten[w])>>
NextRow(w) ==
    /\ unwritten' = [unwritten EXCEPT ![w] = @ \ {Min(@)}]
    /\ pc' = [pc EXCEPT ![w] = "tracks"]

\* Mutant of UpdateTrack: the number of rows hit is not asked for.
UpdateTrackBlind(w) ==
    /\ pc[w] = "tracks" /\ unwritten[w] # {}
    /\ pc' = [pc EXCEPT ![w] = "insert"]
    /\ UNCHANGED <<pending, batch, memory, out, unwritten, rows, stored, published, polls, seen,
                   world, faults>>

\* _write_tracks: UPDATE the rows of the track, which commits if there are any.
UpdateTrack(w) ==
    /\ pc[w] = "tracks" /\ unwritten[w] # {}
    /\ IF rows[Key(w)] > 0 THEN NextRow(w)
       ELSE pc' = [pc EXCEPT ![w] = "insert"] /\ UNCHANGED unwritten
    /\ UNCHANGED <<pending, batch, memory, out, rows, stored, published, polls, seen, world,
                   faults>>

\* Otherwise INSERT one and commit; there is no unique key.  It is rejected if the camera
\* is not there.
InsertTrack(w) ==
    /\ pc[w] = "insert"
    /\ rows' = IF Key(w)[1] \in Seeded THEN [rows EXCEPT ![Key(w)] = @ + 1] ELSE rows
    /\ NextRow(w)
    /\ UNCHANGED <<pending, batch, memory, out, stored, published, polls, seen, world,
                   faults>>

\* _write_event: one row each, rejected like those of tracks.
EventRows(camera, raised) == IF camera \in Seeded THEN Cardinality(raised) ELSE 0

\* process_window: the hypotheses get their rows and are published, and the model run is
\* recorded; run acks the job, the file fallback has no acks.
Publish(w) ==
    /\ pc[w] = "tracks" /\ unwritten[w] = {}
    /\ LET camera == CameraOf[Current(w).clip]
           raised == Hypotheses(Head(batch[w]), camera, out[w].dets)
       IN  /\ published' = published \union raised
           /\ stored' = [stored EXCEPT
                           ![Head(batch[w])].events = @ + EventRows(camera, raised),
                           ![Head(batch[w])].runs = @ + 1]
    /\ batch' = [batch EXCEPT ![w] = Tail(@)]
    /\ pc' = [pc EXCEPT ![w] = IF Len(batch[w]) = 1 THEN "idle" ELSE "infer"]
    /\ out' = [out EXCEPT ![w] = Nothing]
    /\ UNCHANGED <<pending, memory, unwritten, rows, polls, seen, world, faults>>

-----------------------------------------------------------------------------
(* Faults *)

\* A clip file is swept from disk.
Lose(c) ==
    /\ c \notin lost /\ faults < MaxFaults
    /\ faults' = faults + 1
    /\ lost' = lost \union {c}
    /\ UNCHANGED <<backend, pending, batch, pc, memory, out, unwritten, rows, stored, published, polls,
                   seen>>

\* A process dies and is started again: its memory and its claims are gone.
Die(w) ==
    /\ faults < MaxFaults
    /\ faults' = faults + 1
    /\ batch' = [batch EXCEPT ![w] = <<>>]
    /\ pc' = [pc EXCEPT ![w] = "idle"]
    /\ model' = [model EXCEPT ![w] = "none"]
    /\ tracker' = [tracker EXCEPT ![w] = NoTracks]
    /\ cache' = [cache EXCEPT ![w] = <<>>]
    /\ out' = [out EXCEPT ![w] = Nothing]
    /\ unwritten' = [unwritten EXCEPT ![w] = {}]
    /\ seen' = [seen EXCEPT ![w] = <<>>]
    /\ UNCHANGED <<backend, pending, rows, stored, published, lost, polls>>

Next ==
    \/ \E w \in Worker :
          Claim(w) \/ PollFile(w) \/ Infer(w) \/ WriteDetections(w) \/ UpdateTrack(w)
            \/ InsertTrack(w) \/ Publish(w) \/ Die(w)
    \/ \E c \in Clip : Lose(c)

Spec == Init /\ [][Next]_vars

-----------------------------------------------------------------------------
(* Safety *)

Between(s, i, j) == {s[k].clip : k \in {n \in (i + 1)..(j - 1) : ~s[n].out.faked}}

\* spec/18, "detect once per segment": the windows of a clip tell the same subject by
\* the same id, as long as fewer than CacheSize other clips were in use in between.
SameIdsWhileRecent ==
    \A w \in Worker : \A i, j \in DOMAIN seen[w] :
        /\ i < j /\ seen[w][i].clip = seen[w][j].clip
        /\ ~seen[w][i].out.faked /\ ~seen[w][j].out.faked
        /\ Cardinality(Between(seen[w], i, j) \ {seen[w][i].clip}) < CacheSize
        => \A a \in seen[w][i].out.dets, b \in seen[w][j].out.dets :
              a.time = b.time /\ a.nth = b.nth => a.id = b.id

\* Within a process an id stands for one camera and one label, and for at most one
\* detection of a frame.
IdsIdentify ==
    \A w \in Worker : \A i, j \in DOMAIN seen[w] :
        \A a \in seen[w][i].out.dets, b \in seen[w][j].out.dets :
            a.id = b.id =>
                /\ CameraOf[seen[w][i].clip] = CameraOf[seen[w][j].clip]
                /\ a.label = b.label
                /\ i = j /\ a.time = b.time => a = b

\* tracking.py: "a re-appearance after a gap gets a NEW id", which frame times that
\* start over with every clip leave true only within a clip.
GapsEndTracks ==
    \A w \in Worker : \A e \in ToSet(cache[w]) : \A a, b \in e.dets :
        /\ a.id = b.id /\ a.time < b.time
        /\ \A d \in e.dets : d.id = a.id => ~(a.time < d.time /\ d.time < b.time)
        => b.time - a.time <= MaxAge

\* Without a unique key a track may get several rows, but never more than there are
\* processes to race for it.
RowsPerTrack == \A k \in DOMAIN rows : rows[k] <= Cardinality(Worker)

=============================================================================
