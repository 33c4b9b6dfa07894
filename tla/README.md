# Kathirmani platform: TLA+ models and proofs

Formal models of the retail-video platform in this repository: what its ingestion,
queue, workers, rule engine, VLM verification, indexers, review service, retention job,
audit trail and the older store cascade may do when their steps interleave, fail half way or are
started again, what TLC checks about that on small instances, and what TLAPS proves for
every instance.

    tlc -config JobQueue.cfg MCJobQueue.tla      # one run
    tlapm JobQueueProofs.tla                     # the proofs of one module

## The system

Video is cut into overlapping clips and windows, analysed by workers that hand
each other jobs through one Postgres table, condensed by deterministic rules
into events and incidents, verified by a vision-language model, packed as
evidence, and reviewed by people.  A retention job deletes what is old.

    ingestion --video_window.ready--> cv_oss_worker --event.created--> rule_engine
                                                          ^   |  \
                                                          +---+   event.needs_vlm
                                                                     \
    incidents <-- rule_engine          vlm_observations <------ vlm_worker
        |                                    |      |
        +----> evidence_builder <------------+      +---> embedding indexer ---> search
                    |
               review_ui (verdicts, audit log)      retention (daily): deletes clips, windows,
                                                    detections, events; audit trail

The older store cascade (`src/kathirmani`) is a program of its own: one process that runs a
caption and find queries over the videos of a store and fuses what they say; a second process
serves its result files as metrics.

| Component | State it keeps | Operations | What is hard | What makes it correct |
|---|---|---|---|---|
| Job queue (`ingestion/bus.py`, `db/schema.sql` job_queue) | rows with status and attempts, row locks of open transactions | publish, consume (select and lock, then update), ack, fail | concurrent pollers, a death between claim and ack, nothing reclaims | a claim is exclusive, a job is handled at most once, no row is stranded but by a death, none starves |
| Worker loops (`cv_oss_worker`, `rule_engine`, `vlm_worker`: `run`) | batch in hand, current job | poll, handle, ack or fail, go on | deaths, handlers that raise half way | the table and the loops agree on who holds what |
| Rule engine (`services/rule_engine/engine.py`, `rules.py`, `configs/event_rules.yaml`) | a context per subject, the set of (subject, rule) fired | feed an event, fire rules, render actions | events out of order, subjects of two cameras under one id, its own output fed back | fires once per subject, incidents follow from the evidence they link |
| Rule worker (`services/rule_engine/worker.py`) | engine, dedup of forwards | write event or incident, republish, forward to the VLM | swallowed failures, restarts with an empty engine | rows before messages, nothing flagged is swallowed, feedback ends |
| CV worker, tracker and zones (`ai_workers/cv_oss_worker`) | per-camera tracker, LRU of detected clips, rows of `tracks` | process a window, upsert tracks, write detections and events, publish | times that start over with every clip, LRU eviction, two processes updating one track, a missing model or clip faked | a subject keeps its id, an id stands for one subject |
| VLM worker (`ai_workers/vlm_worker`) | cache of verdicts | verify, store the observation, update the event, publish | cached verdicts of other subjects, writes that fail alone, deaths, truncated answers | a verdict is about the event's clip and type, who hears it finds it stored |
| Ingestion (`ingestion/`) | clip files, segment and window rows, JSONL sink; a recorder process for live cameras | cut clips, write files, rows and messages; record, catalogue | a second run on the same day, a failure between file, row and message, a recording that breaks off | a row's checksum is that of its file; what a detector must see whole lies in one window; a row says when its clip was recorded, within what the two clip lengths allow |
| Evidence builder (`services/evidence_builder/builder.py`) | the incident's clip file, its package in `incidents.summary` | gather, stitch, hash, write back | builds overlap each other and reviews, the file is written in place | the hash is that of a finished clip, a build takes no verdict back |
| Review service (`services/review_ui/app.py`) | incident status and audit log, in the same `summary` | review | read and write in two statements | the status is what the log says |
| Retention (`services/security/retention.py`) | none of its own | delete what is older than its term, except locked clips | lock set read once and used later, cascades | locked evidence stays, nothing goes before its term but with its parent row, nothing expired stays |
| Audit trail, migrations (`services/security/audit.py`, `scripts/db_migrate.py`) | `audit_log` or a file, `schema_migrations` | audit; up, down | the table may go between the look and the insert, two runners read the same versions | a finished record is in one of the two stores |
| Backfill, seed (`scripts/`) | rows by id | insert what is missing | two files read one after the other, deleted rows that come back | idempotence |
| Embedding indexer, search (`ai_workers/embedding_worker`) | one embedding per entity | delete and insert; parse, filter, rank | two indexers without a unique key | one row per entity, one hit per entity |
| Summaries and parity (`ai_workers/vss_eval_worker`) | none | filter, fold into clips, windows, hours; score | events without time or incident, thresholds | every kept event is in exactly one bucket of each level |
| Model profiles and rollback (`benchmarks/bakeoff/rollback.py`, `services/api/app.py`) | active profile in the database, a marker file, a history | activate, roll back | history and switch disagree after a failure | one active profile, a rollback undoes the last switch |
| Bake-off (`benchmarks`) | none | time runners, rank, select | unavailable candidates, missing measurements | production is available if anything is |
| Digital twin (`services/digital_twin`) | a static store plan | load, validate, map points and boxes to zones | edges shared by zones, two conventions for boxes | a point is in the zone drawn around it |
| Legacy cascade (`src/kathirmani`) | the model lock, results per camera, a progress counter, gauges | trim, decode, caption and find, collect, fuse; serve | threads around one lock, failures half way, results rewritten while served | the parallel run reports what the sequential one does, and ends |
| Authentication, roles, redaction, backup, console, observability | little or none | pure decisions, proxies, dashboards | - | - |

`PROJECT.json` lists every component with its status, and under `hazards` each
place where a step can go wrong in a way the tests do not reach.

## Modules

`MC*` modules hold constants for TLC, and assumptions that compare pure functions with
what they promise over bounded inputs.

**JobQueue** (with **JobLifecycle**, **JobQueueProofs**).  `status`, `attempts` are
the columns of `job_queue`; `rowLock` the row locks of `SELECT ... FOR UPDATE SKIP
LOCKED`; `pc`, `batch`, `current` the loops of the workers.  A job is its rank in
`created_at`, which makes ORDER BY a comparison.  `consume` is two actions,
because other transactions may run between its SELECT and its UPDATE and commit;
`Raise` is an exception anywhere in a handler (or in the ack), `Crash` a death at any point, `Restart` a new process.
What a handler writes is in the models of the workers; what it swallows never reaches the loop.  `JobLifecycle`
is the promise: a job is handed to one worker once, and ends closed or stranded.

**RuleEngine** holds the engine as operators, **RuleWorker** (with **RuleWorkerProofs**) its process around
it.  `Take` is `feed`: contexts and the fired set change at once, in memory; the outputs
become the list `todo`, made one by one (`Forward`, `WriteIncident`, `WriteEvent`,
`Republish`, `Ack`) in `process_event`'s order, each of which may fail and be swallowed.
`created` and `needsVlm` are the two streams; what is republished is consumed again.
`Restart` drops the message in hand (see JobQueue: a claim is not given back) and the
memory.  A context keeps the set of its events and the latest one, which is all that
the evaluators ask for.  Thresholds are those of `event_rules.yaml`.

**IncidentReview** (with **ReviewProofs**) has one incident, its file, reviewers and builders.  A review is
`ReadRow` and `WriteVerdict`, the two statements of the handler; a build is
`Gather`, `OpenClip`, `CloseClip`, `HashClip`, `WriteBack`, with every way to fail.
File contents are the number of the build that wrote them, or `Torn` for a file open
for writing or written by two builds; a hash is named by the contents it was taken
of.  Of a package only the headline verdict and the hash are kept.

**Retention** (with **RetentionProofs**) is `apply` against writers and reviewers: `ReadLocks`, one
`DeleteNext` per table in policy order, `Commit` or `RollBack`, with the foreign-key
cascades of `schema.sql` (`Parent`, `Cascade`).  `born` dates a row of each kind per clip.  Rows come from different writers at different
times: `Backfill` inserts missing segments and windows from the ingestion's files, which list again what was deleted, so that a window
may be dated anew under a segment that retention still holds; `Detect` and `RecordEvent` are the CV worker's inserts, a detection
under the foreign key to its window, an event under none.  The day advances between steps.

**Segmenter** (proofs in **IngestionProofs**) is the geometry of ingestion.  Time is in ticks, `Second` of them to the second, and a
frame is named by its source time; `Arrives` may skip frames, as cameras and
decoders do.  `Encode` is one turn of the decode loop (clips that have ended are
closed, then the frame goes into every clip that spans it), `Finish` and `BreakAtLimit`
the two ends of it.  Three clocks meet: the source's shortest distance between frames (`clock.source`), its `average_rate`
(`clock.rate`, the time of a frame at that rate, by which the last clip ends), and `FileRate`, that rate rounded to a whole number
(half to even, as Python rounds), at which the frames of a clip's file are numbered from 0.
`Windows` is `window_bounds` as a set, `Kept` what `windows_for_segment` leaves of it; `Pos` is the number of a frame in its
clip's file and `PlaysBefore` compares the time it plays at with a window's bounds, as a worker does when it selects frames.
Frames are taken to come in order and to have a timestamp, and the container to keep the frame times it is given.

**Ingestion** (with **IngestionProofs**) is the run around it: for each clip the list `todo` of what
`ingest_camera` writes, in its order, which `Abort` may end anywhere, since nothing
inside the loop is caught.  `runs`, `DateOf` and `PathOf` say which clips share a path;
`files` holds whose bytes are there.  The backfill reads the two JSONL files in two
steps and inserts in one transaction; `Detect` is the CV worker's best-effort write under
the foreign key; `Delete` and `DeleteWindow` are retention's effect on these tables.  One run goes on
at a time.

**Sources** extends the segmenter by the choice of source and by the live recorder:
`StartRecording`, `Pass` (the recorder, an external process, goes on to the next file at a keyframe up to `KeyframeGap` before or
after its `SegmentLen`), `StopRecording`, `LoseStream`, and `Catalog`, which turns a directory listing into rows timed by `CatalogLen`
from a time that the caller gives; `elapsed` is when the clip really began, from the start of its recording.
A camera is either segmented or recorded; the two share no state.  Its theorems are in **IngestionProofs** too.

**Tracker** holds one pass of detection and tracking over a clip as operators: `Gated`
frames (each sampled picture that changed enough since the last one kept), `Candidates`, `Order` and `Assignment` (greedy
association: in each round the best pair that clashes with none before), `Update`, `Retired`, and `TrackClip`, which takes
the tracker over the pictures of a clip; places are points on a line, so that overlap is nearness.  The live tracks of a camera
are a set, as their list is in the order of their ids, and so are the detections of a clip.
**CvWorker** (with **CvWorkerProofs**) is the processes around it: `Claim` or `PollFile`, `Infer` (`Real`, from the cache or by a
new pass, or `Fake`), `WriteDetections`, `UpdateTrack` and `InsertTrack` for one live track
after the other (`unwritten` holds those still to come), `Publish`, `Die`, and `Lose` for a clip that is deleted.  `MakeQueue` and
`ReadsFrom` say which queue a process ends up reading.  **Twin** has the store's zones as polygons on a
grid, as the CV worker and the digital twin each read them.

**VlmParser** is the parser over tokens: brackets, quotes, escapes, keys and values.  `LoadStep` is a
small JSON reader (external: `json.loads`), `RepairMismatchedClosers` and `RepairTruncated` are the
repairs, `Tries` the order in which they are tried.  **VlmWorker** takes a message
through `Verify` (the cache, then `Real` with its one retry, or `Fake`), `Observe`, `Confide`, `RecordRun` and `Announce`, one
best-effort transaction each; `Expire` is retention at their events and observations, or the sweep of a clip.  **Insight** (with **InsightProofs**) composes it with the embedding indexers, which read what it
writes: `Delete` and `Insert` are the two statements of an upsert under READ COMMITTED.

**Summaries**, **Search**, **ModelProfiles**, **BakeOff** and **ResultsServer** are the pure
parts: functions from rows, queries, operations, measurements or files to what the code makes of
them, without actions.  Their theorems are assumptions that TLC evaluates in the run of the same area.

**Fusion** is `fuse_results`.  **Cascade** (with **CascadeProofs**) is one run of the older program: the pool of
threads (`Trim`, `Decode`, `Acquire`, `Generate`, `Record`, `Save`), the main thread (`Dispatch`, `Collect`, `Fuse`
and the stages after it) and the thread that samples the accelerator's power.  **CascadeBatch** is what it
promises: every camera settles on an outcome of its own, and the report is that of the surviving
outcomes in the order of the videos, whatever function of them the report is.

**AuditTrail** extends Retention by the record that a job leaves after its commit (`LookForTable`,
`TryInsert`, `AppendLine`) while migration scripts read and change the schema (`ReadApplied`, `Up`, `Down`, each run one
transaction).  Schemas are migrated in windows in which no clip is recorded and no day passes.

## Runs

| Run | Instance | Shows |
|---|---|---|
| `JobQueue` | 4 jobs, 2 streams, 3 workers (2 on one stream), claims of 2, 1 death, fair | exclusive claims, at-most-once handling, table and loops agree, rows are stranded only by deaths; every pending row is closed or stranded, none starves; refinement of `JobLifecycle` |
| `RuleWorker` | 4 events of a subject on its way from shelf to exit and counter, in all orders, 2 workers sharing the stream, 1 death or swallowed failure, fair | a rule fires once per engine instance; forwards are deduplicated, yet nothing flagged is lost; rows precede messages; an incident is explained by the events it links; the feedback dies out |
| `RuleZones` (violated) | what the CV worker publishes | `zone_types` does not fall back to `zones` |
| `Review` | 2 reviewers, 1 builder, 3 reviews, 2 builds, 2 observations, 1 death | status explained by the log, no verdict undone, hash of a finished clip, records lost to stale writers only |
| `ReviewRebuild` (violated) | 1 review, 1 build | a build deletes the audit log |
| `Retention` | 1 clip with rows that come back, 2 incidents, 5 days; in maintenance windows 2 migration scripts and 2 jobs' records | the lock holds; a row goes before its term only with the row it hangs on; nothing expired remains after a job; the record of a finished audit is in one of its stores, or went with the table |
| `RetentionExpiry` (violated) | 1 clip, 1 incident | the lock goes with the event rows although the incident is open |
| `Segmenter` | clips of 12, overlap 5, windows of 5 every 2, 26 ticks of 5 to the second, 4 clocks, 2 gaps; or 2 live recordings of up to 3 clips, 1 cut off | spans up to the overlap lie in one clip; rows cover their files unless these play slower than the source; without gaps at a whole rate such spans lie in one kept window; catalogued times are off by what the clip lengths explain; checksums are of whole files |
| `Ingestion` | 2 runs, 1 camera with 2 clips of 1 window, 2 days, 2 backfills, 1 deletion | messages are backed by lines and files; checksums fit until a later run reuses the path; one half-done clip per aborted run; a backfill mirrors what it read |
| `CvWorker` | 5 windows of 3 clips of 2 cameras, 2 processes, a cache of 2 clips, 2 faults, on Postgres, Redis or files | ids are stable while a clip is cached, stand for one camera and label, end with gaps within a clip; a track gets no more rows than there are processes |
| `Insight` | 5 messages (one repeated, one unflagged, two without a clip), 1 VLM process, 2 indexers with 2 runs, 1 fault | verdicts are about the event's clip and type; a clip is watched once per process; messages are backed by rows; the rows of an entity are of different indexers |
| `Cascade` | 3 cameras with 2 queries on 2 threads, 2 failures, or one camera alone, fair | progress ends at its total; the run implements the sequential batch; it ends |

The bounds are small but reach every case the properties are about: two workers
that race for a stream and a third that must not interfere, claims that leave a row
over, a death in each of the program's places and the work after the restart,
two overlapping verdicts and a third after a rebuild, a job that spans midnight, a second run
before and after midnight, a third clip that evicts the first while its windows are still to come, two
processes that insert the same track, an indexer that starts between the statements of the other, a
camera that waits for the pool and one that waits for the lock.
Retention terms are scaled to days 1 to 3 in the order of `retention.yaml`.
The segmenter's geometry is the configured 30/5/5/2 seconds with shorter clips: strides,
overlap and windows keep their relation (overlap = window > stride, several windows in a clip, a
clamped last one, a clip stride that is no multiple of the window stride), and 26 ticks
reach the fourth clip.  The four clocks are 5 frames per second, the same with an average lowered by gaps, 2.5 (numbered at 2, so that the file
plays slower) and 5/3 (numbered at 2 as well, so that it plays faster).  The recorder cuts at 2, give or take 1, and the
catalogue counts in 6, a third and the whole as configured (10 and 30 seconds).  One clip is enough for retention: rows of different
clips share only the day, the job and the incidents that link them.  `Insight` has one VLM process: two share nothing but rows that each writes for
its own messages.  `AuditTrail` never rolls back migration 0001, which makes the tables themselves, and follows the
records of `MaxJobs` jobs.  `CvWorker` counts rows for ids up to `MaxId` = 24, more than a process gives out in the run, and
the theorem about them holds for any `MaxId`; `Label` holds the labels the code tells apart, a person and an item.
Deadlock is checked for the queue; the other systems rest when the bounded input
is used up, and their cfgs say so.

Fairness.  `WF(Work(w))` and `WF(Process(w))`: a worker's loop is `while True`, every
statement it sends returns or raises, and a dead process is started again by its
supervisor.  In the cascade `WF(Main)` and `WF(Thread(c))`: threads that can go on do; decoding
and generation return or raise; the lock is given to any waiter, which is enough because every
holder lets go of it.  Publishers, failures, deaths and reviewers are never obliged to act.

### Pure functions

Assumptions in the `MC` modules, which TLC evaluates at the start of a run:

- `MCSegmenter`: `Windows` against the loop of `window_bounds` as written.
- `MCRuleWorker`: a visit to the counter suppresses the billing rule if it was heard of; camera health fires for cameras only.
- `MCCvWorker`: motion gating keeps a picture close to every sampled one; greedy association is stable;
  ray casting agrees with half planes; polygons that share an edge tile; in a valid twin every zone can be reached;
  `BoxesAreReadTwice` shows the two conventions.
- `MCInsight`: whatever closers a model writes, open brackets decide (`ClosersAreRepaired`); truncated answers are
  recovered unless they break between key and value; every text yields a verification within the schema; the fold of
  events into buckets is a partition and hides no suspicious event; parity is a mean of what was measured; an entity is found once,
  fewer hits are a prefix of more; a rollback toggles; a plugin is always runnable; percentiles are
  ordered; selection degrades to what is available.
- `MCCascade`: fusion invents nothing and keeps the longer telling; the metrics server recovers from files caught half-written.

## Proofs

`JobQueueProofs` proves, for any finite or infinite sets of jobs, workers and streams,
any claim limit, and any number of deaths, every safety property of the `JobQueue` run
and the refinement.  The assumptions are those stated in `JobQueue`: jobs are naturals,
`NoJob` and `NoWorker` are outside their sets, the maps are total, the bounds
are naturals.

None of the properties is inductive.  The invariant `Inv` joins:
- `TypeInv`: the types, and that a busy worker's current job is in its batch;
- `ExclusiveClaim` and `TableAgreesWithWorkers`, which need each other: a claim takes
  rows that are pending and unlocked, and the agreement says that no such row is in a
  batch;
- `EmptyHands`: idle and dead workers have empty batches, so a row in 'processing' has
  a holder or was left by a death;
- `Untouched`: a row still pending (or held, but not begun) has no run;
  this is what makes `HandledAtMostOnce` inductive, because `Begin` needs to know that
  its job was never entered;
- `HandledAtMostOnce`, `StrandedOnlyByCrash` themselves.

The refinement maps a claim's commit to `Claim`, `Ack` and `Fail` to `Close`, a death to
`Abandon`, and everything else to a step that changes neither phase nor owner; it uses
`Inv`, because the owner of a job is unique only by `ExclusiveClaim`.

The part of `IngestionProofs` on the segmenter proves, of the `Segmenter` run, the three properties of the segmenter for any clip
length, overlap, window, stride and limit, and any gaps.  Its invariant `Inv` says what the
loop has built when it stands at `last`: a clip holds exactly the decoded frames of its span
(`Content`), all of them before `last` (`Past`) and, for a closed clip, before its end
(`ClosedPast`); a clip with frames has begun (`OpenBegun`), one without is untouched
(`Untouched`); a row's length fits its span (`Fits`) and its frames (`Rests`); and, without gaps,
whatever comes before a decoded frame was decoded (`Gapless`), up to `last` while the
loop goes on (`Filled`).  Lemmas on division by any positive stride connect spans to `Spanning`.
The number of a frame in its file is a cardinality.  `Pace` says that the n-th frame of a clip is at least n source periods from its
start, which bounds `Pos`; `RowCovers` adds that a file whose rate is no lower than the source's plays each frame no later than the
source did.  `SpansWatched` shows `Pos` equal to the distance from the clip's start when there are no gaps and a frame per tick,
where the file plays as the source does.  It has a hypothesis of its own,
`OverlapSec <= ClipStride` (5 <= 25 as configured): otherwise a span in a dropped
prefix may lie in the dropped prefix of the clip before as well.
`SourcesSegment` shows that the choice of source and the live recorder only add to the segmenter, so that these theorems
hold of what the run checks.  `DriftIsBounded` and `ChecksumsWhole` are about the recorder, for any three lengths: the invariant says that a file's
number times the recorder's clip length, give or take a keyframe distance for each, is when it began (`InTime`), that what
the latest recording left is numbered in its order even over older files, so that rank and number agree, and that a file without
its end is being written or of a recording that broke off.

`RuleWorkerProofs` takes any finite set of workers, events in any order and faults.  `FeedAssumption` says of the
events of other components that they are not the engine's own, that each has its id, and that none is about
the subject "?", under which the engine files what has no subject.  Four invariants build on each other: `ShapeInv` (lists and maps);
`Remembered` (a message to the VLM worker came from a life of a worker so far, and the present
life knows its key), from which `ForwardedOnce`; `KnownInv` (events anywhere, in contexts too, are from the feed or
made by a rule about a subject of the feed; incidents are `Explained`), from which `IncidentExplained`;
and `OrderInv`, for runs without faults: every list of outputs is `Lined` (a republished event
comes after its row, and the acknowledgement after the forward), from which `RowsComeFirst` and `FlaggedIsAsked`.
`FiredOncePerEngine` needs a count over lives.  `FiringInv` puts every row down to an engine, a worker's n-th life
(`PutDown`), different rows of one firing to different engines: what a list of outputs still has to write has fired and is due once (`DueInv`), so that a
row can be put down to the present life, for which its firing is then `Settled`; a restart begins a life to which nothing
is put down.  The pigeonhole principle turns this into the bound by `Lives`.

`ReviewProofs` shows `StatusExplained`, `VerdictStays` and `StaleWritersOnly` from the types alone, as each
write sets status and log together.  `HashIsOfFinishedClip` needs `ClipInv` (from the close on the file is
complete, and every hash at work, read or stored is of a complete clip) and the hypothesis `OneBuilder`, without which the property is false.

`RetentionProofs` has an invariant per property.  `LockInv`: an event row linked to an open incident is of a clip that is
locked or whose incident was opened during the job (`LockedOrNew`), and the job spares what it read as locked.
`TermInv`: a detection has its window and no window is doomed without its detections (`HasWindow`), and what is doomed is past its
term or hangs on a row that is doomed with it (`DoomedPast`); `FullTermIsServed` has no hypothesis, neither on the limits nor on when rows came.  `ExpiredIsCaught` has
the hypothesis that terms are positive, which `retention.yaml` satisfies.
`TrailRefinesRetention` shows that the job with its audit record and with migrations around it is retention, which
carries these theorems to the specification that the run checks; `TrailStays` is about what it adds.

`IngestionProofs` says where a run is by the number of writes done (`AtWrite`, `Done`), so that a message follows its line,
its segment and its file; `Holder` says that the file at a recorded path is of that run or of a later one on the same
path, which gives `ChecksumsLast` too.  `CopyInv`: whatever a backfill or the database holds is in the
files, which only grow.  `HalfInv` counts half-done segments other than the current one by the aborted runs.
`NothingAssumption` keeps the absent file apart from segments.

`InsightProofs` holds for any number of VLM processes and indexers.  `CacheInv`: a cached output is filed under the key it was asked for, and the
output in work is for the message in work; `WatchInv`: what a process has watched is in its cache; `RowInv`: while a
transaction is open, its DELETE has hit whatever row its own process left.  `ParserKeepsSchema` says that the parser
returns a verdict of the schema and a confidence from 0 to 1 whatever text it is given, if the numbers in it fit a float and it nests within the recursion limit (the parser raises otherwise, which `infer` answers with the stand-in); it rests on how `Tries` ends and
on `Coerce`, and needs no induction over the text.  `BackInv` uses it: a process that confides has
observed, and one that records or announces has done both (`WrittenInv`), unless the write failed or the event is gone.

`CvWorkerProofs` takes any finite set of processes, any clips, footage, windows and faults, and any size of the cache.  The tracker is
made of recursive functions (`LastKept`, `Rounds`, `Trail`).  Each is unfolded once (`RoundsUnfold`, `TrailUnfold`), and
an induction principle over a set of naturals, got from the well-foundedness of the naturals in the library, does the
rest: an assignment is a matching of detections and tracks with one label (`AssignmentMatches`), an update gives every
detection an id of its own, an old one only to a track that was live (`UpdateFacts`), and after each picture of a clip the
tracker is sound and two sightings in a row of one id are at most `MaxAge` apart (`PassFacts`).  `MemoryInv`
says of each process that its live tracks have the ids given out so far (`TrackerOK`); that there is a `Ledger` which says of each
of those ids what camera and label it stands for, and live tracks, cached detections and past outputs all agree with it;
that cached detections are one per place and id, without long gaps (`EntryOK`); and what the cache still holds of a past output
(`Recent`): the detections it was sliced from, with no clip behind them but those used since, or else as many other clips as
the cache holds have been used since.  From these come `IdsAreIdentities`, `GapsAreNewIds` and `IdsStayTheSame`.
`RowsAreBounded` has `RowsInv`: the rows of a track together with the processes about to insert one are no more than the
processes, since each of those saw none.

`CascadeProofs` counts the prompts that were answered or became impossible as a set (`Counted`), whose
cardinality is the progress counter, and shows that the threads implement `CascadeBatch`: an output holds what
the prompts so far left (`Told`), a camera that is done has one of its `Outcomes`, and exactly those that returned are collected
(`OutInv`).  The queries are assumed to be distinct, as `FIND_QUERIES` are.

Every invariant of a passing run is stated by a theorem.  Only model-checked: `Settles`, `FeedbackDiesOut` and
`Finishes`, as liveness under fairness is out of the prover's reach, and the assumptions on pure functions (the repairs of
`VlmParser`, `Fusion`, `Summaries`, `Search` and the others).  Those speak of every input of folds and recursive functions: the
library's induction rules and facts on folds take an operator, which no installed prover can instantiate, and the principle of
`CvWorkerProofs` has been used for the tracker only.

## What the models disagree with

Each of the three violated runs quotes a statement of the repository that the code
does not keep.  Modelling also showed, without a run of their own:

Queue, rules, review and retention
- `worker.py` of the rule engine swallows a rejected link inside the transaction,
  which Postgres has aborted by then: the commit rolls the incident back too
  (`WriteIncident` makes it one attempt).
- `engine.py` says that deterministic ids dedupe at the database; `events` has the
  key (id, event_time), so a second engine instance inserts the row again.
- `_vlm_forwarded` is process memory: "one forward per hypothesis" holds per engine.
- The context of a subject is keyed by the bare track id; two tracker processes that
  count from 1 share contexts across cameras.
- The engine's own events carry no time and sort at 0, which stretches the dwell.
- An action that opens an incident and asks for verification only opens the incident.
- A verdict is a read and a write in two statements: overlapping verdicts lose a record.
- A second build overwrites the clip in place; if it dies, the recorded hash is stale.
- Deleting a clip deletes its windows and detections before their own terms end: windows that a backfill brought back under an older
  segment, and detections that came late (`FullTerm` allows it with the parent row only). Windows of a locked clip are deleted at theirs.
- `retention.py` says that deleting a row unlinks its file; the files stay.
- A claimed row of a dead worker is never handed out again, and `attempts` is
  counted but read by nobody: delivery is at most once.

Ingestion
- A second ingestion run on a date overwrites the clips of the first, whose lines keep
  the checksum of the bytes that are gone.
- A backfill brings back what retention deleted, as the JSONL files only grow.
- `windows.py` says that a clip of 10 seconds ends with the window [5, 10]; the code
  yields [6, 10], since the loop's last window already reaches the end.
- A clip cut by the duration limit is a frame period longer in its row than in its file,
  and perhaps longer than `clip_sec`.
- Frames are numbered per clip at a rounded rate (`segmenter.py:116`) while rows are timed by the source. At 12.5 frames per second the
  file is numbered at 12 and lasts longer than its row: its tail lies in no window, though `windows.py:25` says that the last one
  "covers the tail". Gaps that lower `average_rate` do the same, and after a gap the dropped
  windows of the overlap (`ingest.py:95`) hold frames that no kept window of the clip before has.
- The recorder cuts clips of about 10 seconds (`sources.py:74`), which the catalogue takes for 30 (`sources.py:238`): the n-th row after the
  first is some 20 n seconds late (`CatalogDrift`).
- `GStreamerSource` has a `max_clips` (`sources.py:105`) that nothing reads; a restarted recording numbers its files from 0 and
  leaves those of the one before, which come after the new ones in `clips`, though it says "sorted by name (== record order)".
- With the backend `gstreamer`, `ingest` opens the URL with PyAV and never starts the recorder: `catalog_live_clips` is
  called by tests only.

CV and VLM workers
- Frame times start over in every clip, so that the age of a track of an earlier clip is negative and it stays live; ids
  end with gaps only within a clip.
- Tracker ids start at 1 in every process, so two processes, and a process after a restart, write the same rows of
  `tracks` for different subjects.
- The file fallback reads the first `limit` lines on every poll: later windows are never seen.
- With Redis the workers publish to streams, but read files.
- The locate plugin marks itself loaded before it loads and never tries again.
- Rule events carry no clip: their verdicts are cached under (None, type), and what they get is a faked "unclear". A faked verdict of
  a passing failure is cached like a real one for the life of the process.
- A cache hit writes one more row of `model_runs`, with the latency of the first; `_write_model_run` takes an observation id that it does not store.
- NaN as a confidence passes the clamp as 1.0. `coerce` "never raises" (`parser.py:180`), but `float` of an integer beyond its range does,
  and so does `json.loads` of very deep nesting; `infer` then answers with a faked "unclear".

Embeddings, summaries, profiles
- Embeddings stay when the event they are of expires; `vector_search` does not filter by model, and
  faked vectors are stored under the name of the real one; a search for 0 hits returns all.
- `lvs._load_events` sets neither `needs_vlm_verification` nor the incident, so that the events the summary says it always keeps
  are dropped when they come from the database (`FlagsAreLost`).
- `host.py` reads the profile from `configs/models.yaml` only: what the API activates or a rollback restores reaches no worker. Nothing but tests uses
  `ProfileHistory`, and activations through the API are not in it.
- Scores of the bake-off are relative to the best and worst candidate: one that is not available can decide which
  available one becomes production (`OthersDecide`). The jitter of `FakeRunner` is a ramp that never reaches its upper end.
- The twin reads a box by its corners, the CV worker writes place and size (`BoxesAreReadTwice`).

Audit and migrations
- `up` and `down` at once may leave 0003 recorded while its grants are gone, or a set of versions whose
  next `down` fails.
- An insert whose commit succeeded, but raised, leaves the record in both stores.

Legacy cascade
- `process_video` imports `annotations` after the caption: when the caption fails, every query that finds a span
  raises too and its answer is lost (`SoloFailed`).
- A camera that fails leaves the result file of an earlier run in place; a failed write of the file counts the camera both as
  done and as failed in the metrics.
- A failed trim ends the run with temporary clips on disk and the power thread running; `process_video` never removes its clip.
- Videos of one stem share a result file.  Fusion depends on the order of the cameras (`FusionDependsOnOrder`).
- `--locate` imports a module that is not in the tree and is always skipped.
- The metrics server's totals dip while a file is rewritten, and spans of results that are gone stay (`SpansOutliveTheirRun`).

## Not modelled

Detection, tracking and embedding mathematics (the values, not the decisions made of them), prompts, the models themselves,
HTTP and HTML, figures, dashboards and the viewer (`viz/app.py`) are input and output or floating-point without state that
interleaves.  Authentication, roles and redaction decide on one request or record.  The backup wraps `pg_dump`, the console is a
proxy, the seed a list of upserts, the validation scripts look at the environment.  Of the modelled components: reading of
configurations, thumbnails, health scores and telemetry; `_select_window` of the evidence builder; the reports and probes of the
bake-off; trimming of Redis streams; the log shipper of the cascade, and failures between its decode and the first prompt, where it only counts
metrics; texts that make the VLM parser raise.

## Plan

Done: every component with state that interleaves, at least in part; every safety property of the runs proved, but for those
that the code violates.  Left: two VLM processes in one run; the rule worker composed with the VLM worker, which would show
the verdict cache's share in an incident; the evidence builder's choice of clips; theorems about the pure functions.
