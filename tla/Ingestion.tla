------------------------------ MODULE Ingestion ------------------------------
(***************************************************************************)
(* Ingestion runs and what reads their output (ingestion/ingest.py,        *)
(* storage.py, metadata.py; scripts/backfill_ingest.py; the CV worker).    *)
(*                                                                         *)
(* A run goes through the cameras and their clips one by one; for a clip   *)
(* it writes the file, a line of segments.jsonl, a message, and then for   *)
(* each window a line of windows.jsonl and a message.  The run may end     *)
(* between any two of these, and a new run starts over.  The backfill      *)
(* copies both JSONL files to Postgres; the CV worker takes the window     *)
(* messages; retention deletes rows.  All of them run concurrently.        *)
(***************************************************************************)
EXTENDS Integers, Sequences, FiniteSets

CONSTANTS
    Cameras,        \* number of enabled cameras; a run takes them in order
    ClipsPerCamera, \* clips of each camera's source
    WindowsPerClip, \* windows kept of each clip
    MaxRuns,        \* bound: ingestion runs started
    MaxDay,         \* bound: days
    MaxDeletes,     \* bound: DELETEs of segments or windows by retention
    MaxBackfills,   \* bound: backfills started
    Nothing         \* no file at a path

ASSUME BoundAssumption ==
    /\ Cameras \in Nat \ {0} /\ ClipsPerCamera \in Nat \ {0} /\ WindowsPerClip \in Nat
    /\ MaxRuns \in Nat /\ MaxDay \in Nat /\ MaxDeletes \in Nat /\ MaxBackfills \in Nat

VARIABLES
    day,        \* the calendar day
    runs,       \* runs[r]: the day on which run r started, and how many clips of a
                \* camera start before the next midnight of the footage
    at,         \* the camera and clip the current run is at, <<0, 0>> between runs
    todo,       \* what is still to be written of the current clip
    aborted,    \* runs that ended before their time
    files,      \* files[p]: the segment whose bytes are at path p
    segLines,   \* segments in segments.jsonl; a line has the checksum of its own bytes
    winLines,   \* windows in windows.jsonl
    jobs,       \* ai_window.ready messages not yet taken
    taken,      \* messages the CV worker has taken
    segRows,    \* video_segments
    winRows,    \* ai_windows
    detected,   \* windows with rows in detections
    copy,       \* what the running backfill has read
    copies,     \* backfills started so far
    deleted     \* rows deleted so far, cascades not counted

vars == <<day, runs, at, todo, aborted, files, segLines, winLines, jobs, taken,
          segRows, winRows, detected, copy, copies, deleted>>
output == <<files, segLines, winLines>>
run == <<day, runs, at, todo, aborted>>
database == <<segRows, winRows, detected>>
backfill == <<copy, copies>>

Run == 1..MaxRuns
Running == at # <<0, 0>>

\* A segment: its run, camera and index.  Its path has its date instead of the run.
Segment == Run \X (1..Cameras) \X (1..ClipsPerCamera)
Window == Segment \X (1..WindowsPerClip)

ASSUME NothingAssumption == Nothing \notin Segment

Path == (0..(MaxDay + 1)) \X (1..Cameras) \X (1..ClipsPerCamera)

\* Mutant of PathOf: the date is left out.
PathOfAnyDay(s) == <<0, s[2], s[3]>>

\* Clip times are those of the run's start plus the clip's place in the footage.
DateOf(s) == runs[s[1]].day + (IF s[3] > runs[s[1]].before THEN 1 ELSE 0)
PathOf(s) == <<DateOf(s), s[2], s[3]>>
Current == <<Len(runs), at[1], at[2]>>

NoCopy == [at |-> "idle", segs |-> {}, wins |-> {}]

Init ==
    /\ day = 0 /\ runs = <<>> /\ at = <<0, 0>> /\ todo = <<>> /\ aborted = 0
    /\ files = [p \in Path |-> Nothing]
    /\ segLines = {} /\ winLines = {} /\ jobs = {} /\ taken = {}
    /\ segRows = {} /\ winRows = {} /\ detected = {}
    /\ copy = NoCopy /\ copies = 0 /\ deleted = 0

Midnight ==
    /\ day < MaxDay
    /\ day' = day + 1
    /\ UNCHANGED <<runs, at, todo, aborted, output, jobs, taken, database, backfill, deleted>>

-----------------------------------------------------------------------------
(* A run *)

StartRun ==
    /\ ~Running
    /\ Len(runs) < MaxRuns
    /\ \E n \in 1..ClipsPerCamera : runs' = Append(runs, [day |-> day, before |-> n])
    /\ at' = <<1, 0>>
    /\ UNCHANGED <<day, todo, aborted, output, jobs, taken, database, backfill, deleted>>

\* Mutant of Writes: the windows are written with the clip, the segment after them.
WritesSegmentLast ==
    <<[op |-> "file", win |-> 0]>>
    \o [i \in 1..(2 * WindowsPerClip) |->
          [op |-> IF i % 2 = 1 THEN "winLine" ELSE "job", win |-> (i + 1) \div 2]]
    \o <<[op |-> "segLine", win |-> 0]>>

\* What ingest_camera writes of one clip, in order.  video_segment.ready has no
\* reader and is left out.
Writes ==
    <<[op |-> "file", win |-> 0], [op |-> "segLine", win |-> 0]>>
    \o [i \in 1..(2 * WindowsPerClip) |->
          [op |-> IF i % 2 = 1 THEN "winLine" ELSE "job", win |-> (i + 1) \div 2]]

\* The segmenter yields the camera's next clip.  Its indices never come back within
\* a run, so the `seen` check passes.
NextClip ==
    /\ Running /\ todo = <<>>
    /\ at[2] < ClipsPerCamera
    /\ at' = <<at[1], at[2] + 1>>
    /\ todo' = Writes
    /\ UNCHANGED <<day, runs, aborted, output, jobs, taken, database, backfill, deleted>>

\* The source is at its end, or could not be opened: on to the next camera.
NextCamera ==
    /\ Running /\ todo = <<>>
    /\ at[2] \in {0, ClipsPerCamera}
    /\ at' = IF at[1] < Cameras THEN <<at[1] + 1, 0>> ELSE <<0, 0>>
    /\ UNCHANGED <<day, runs, todo, aborted, output, jobs, taken, database, backfill, deleted>>

Doing(op) == todo # <<>> /\ Head(todo).op = op /\ todo' = Tail(todo)
CurrentWindow == <<Current, Head(todo).win>>

\* put_clip moves the clip to its path, over whatever is there.
PutClip ==
    /\ Doing("file")
    /\ files' = [files EXCEPT ![PathOf(Current)] = Current]
    /\ UNCHANGED <<day, runs, at, aborted, segLines, winLines, jobs, taken, database, backfill, deleted>>

WriteSegment ==
    /\ Doing("segLine")
    /\ segLines' = segLines \union {Current}
    /\ UNCHANGED <<day, runs, at, aborted, files, winLines, jobs, taken, database, backfill, deleted>>

WriteWindow ==
    /\ Doing("winLine")
    /\ winLines' = winLines \union {CurrentWindow}
    /\ UNCHANGED <<day, runs, at, aborted, files, segLines, jobs, taken, database, backfill, deleted>>

PublishWindow ==
    /\ Doing("job")
    /\ jobs' = jobs \union {CurrentWindow}
    /\ UNCHANGED <<day, runs, at, aborted, output, taken, database, backfill, deleted>>

\* Mutant of Abort: the failure is confined to the clip and not counted.
AbortClip ==
    /\ Running
    /\ todo' = <<>>
    /\ UNCHANGED <<day, runs, at, aborted, output, jobs, taken, database, backfill, deleted>>

\* A decode error, a full disk or a failed publish is not caught: the run ends, with
\* the cameras still to come; or the process dies.
Abort ==
    /\ Running
    /\ at' = <<0, 0>> /\ todo' = <<>>
    /\ aborted' = aborted + 1
    /\ UNCHANGED <<day, runs, output, jobs, taken, database, backfill, deleted>>

-----------------------------------------------------------------------------
(* Readers of a run's output *)

\* Detections are inserted if the foreign key finds the window; otherwise the
\* rejections are swallowed and the job is done all the same.
Detect(w) ==
    /\ w \in jobs
    /\ jobs' = jobs \ {w}
    /\ taken' = taken \union {w}
    /\ detected' = IF w \in winRows THEN detected \union {w} ELSE detected
    /\ UNCHANGED <<run, output, segRows, winRows, backfill, deleted>>

\* The backfill reads segments.jsonl, and then windows.jsonl, while a run may append.
ReadSegments ==
    /\ copy.at = "idle" /\ copies < MaxBackfills
    /\ copies' = copies + 1
    /\ copy' = [at |-> "segments", segs |-> segLines, wins |-> {}]
    /\ UNCHANGED <<run, output, jobs, taken, database, deleted>>
ReadWindows ==
    /\ copy.at = "segments"
    /\ copy' = [copy EXCEPT !.at = "windows", !.wins = winLines]
    /\ UNCHANGED <<run, output, jobs, taken, database, copies, deleted>>

\* One transaction: what is there already stays, a window needs its segment's row.
Insert ==
    /\ copy.at = "windows"
    /\ segRows' = segRows \union copy.segs
    /\ winRows' = winRows \union {w \in copy.wins : w[1] \in segRows'}
    /\ copy' = NoCopy
    /\ UNCHANGED <<run, output, jobs, taken, detected, copies, deleted>>

\* Retention deletes a segment, the schema its windows and their detections.
Delete(s) ==
    /\ s \in segRows /\ deleted < MaxDeletes
    /\ deleted' = deleted + 1
    /\ segRows' = segRows \ {s}
    /\ winRows' = {w \in winRows : w[1] # s}
    /\ detected' = {w \in detected : w[1] # s}
    /\ UNCHANGED <<run, output, jobs, taken, backfill>>

\* The windows of a locked segment are deleted without it.
DeleteWindow(w) ==
    /\ w \in winRows /\ deleted < MaxDeletes
    /\ deleted' = deleted + 1
    /\ winRows' = winRows \ {w}
    /\ detected' = detected \ {w}
    /\ UNCHANGED <<run, output, jobs, taken, segRows, backfill>>

Next ==
    \/ Midnight \/ StartRun \/ NextClip \/ NextCamera
    \/ PutClip \/ WriteSegment \/ WriteWindow \/ PublishWindow \/ Abort
    \/ \E w \in jobs : Detect(w)
    \/ ReadSegments \/ ReadWindows \/ Insert
    \/ \E s \in segRows : Delete(s)
    \/ \E w \in winRows : DeleteWindow(w)

Spec == Init /\ [][Next]_vars

-----------------------------------------------------------------------------
(* Safety *)

\* Whatever dies, a window message names a recorded window of a recorded segment,
\* and there is a clip at the segment's path.
JobsAreBacked ==
    \A w \in jobs \union taken :
        w \in winLines /\ w[1] \in segLines /\ files[PathOf(w[1])] # Nothing

\* The checksum of a segment's line is that of the file at its path, as long as no
\* later run has a clip of that camera and index with the same date.
ChecksumOfLastRun ==
    \A s \in segLines :
        (\A r \in (s[1] + 1)..Len(runs) : DateOf(<<r, s[2], s[3]>>) # DateOf(s))
            => files[PathOf(s)] = s

\* A backfill that read both files as they now are leaves the database with exactly
\* what they hold: no recorded window lacks its segment, and nothing retention has
\* deleted stays away.
BackfillMirrors ==
    [][Insert /\ copy.segs = segLines /\ copy.wins = winLines
        => segRows' = segLines /\ winRows' = winLines]_vars

\* A recorded segment lacks windows or window messages only if its run is at it, or
\* was aborted at it: each aborted run leaves at most one such segment.
HalfDoneByAbort ==
    Cardinality({s \in segLines : \E n \in 1..WindowsPerClip : <<s, n>> \notin jobs \union taken})
        <= aborted + (IF todo # <<>> THEN 1 ELSE 0)

=============================================================================
