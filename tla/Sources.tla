------------------------------- MODULE Sources -------------------------------
(***************************************************************************)
(* Where a camera's clips come from (ingestion/sources.py): the segmenter  *)
(* over PyAV, or the live recorder, a gst-launch process that cuts the     *)
(* stream into clips of its own, numbered from 0 in each recording, which  *)
(* catalog_live_clips later turns into segment rows.                       *)
(*                                                                         *)
(* The recorder cuts at the keyframe next to its segment length; the rows  *)
(* are timed by the configured storage duration.  A file's content is      *)
(* named by the recording it is from, how far into it the file begins, and *)
(* whether its container was finished.                                     *)
(***************************************************************************)
EXTENDS Segmenter

CONSTANTS
    SegmentLen,     \* segment_ns: the recorder's max-size-time
    KeyframeGap,    \* time between keyframes
    CatalogLen,     \* storage_clip_duration_sec
    MaxClips,       \* bound: clips of a recording
    MaxRecordings,  \* bound: recordings started
    MaxBreaks       \* bound: recordings that are cut off or killed

ASSUME LiveAssumption ==
    /\ SegmentLen \in Nat /\ KeyframeGap \in Nat /\ KeyframeGap < SegmentLen
    /\ CatalogLen \in Nat
    /\ MaxClips \in Nat /\ MaxRecordings \in Nat /\ MaxBreaks \in Nat

VARIABLES
    source,     \* what the camera's clips come from
    proc,       \* the recorder process: "none", "running" or "gone" (it exited by itself)
    recording,  \* recordings started
    disk,       \* disk[n]: content of seg_<n>.mp4
    writing,    \* number of the clip being written
    elapsed,    \* time from the start of the recording to that clip's
    torn,       \* recordings that were not ended by EOS (history)
    catalog     \* rows made by catalog_live_clips, with the recording they were made of

liveVars == <<proc, recording, disk, writing, elapsed, torn, catalog>>
sourceVars == <<segmenterVars, source, liveVars>>

\* source_for_camera: the recorder only on request, with a URL and the CLI on the path.
SourceForCamera(backend, url, cli, file) ==
    IF url THEN IF backend = "gstreamer" /\ cli THEN "gstreamer" ELSE "rtsp"
    ELSE IF file THEN "file" ELSE "error"

SourceInit ==
    /\ SegmenterInit
    /\ \E backend \in {"pyav", "gstreamer"}, url, cli, file \in BOOLEAN :
          LET kind == SourceForCamera(backend, url, cli, file)
          IN  kind # "error" /\ source = IF kind = "gstreamer" THEN "live" ELSE "pyav"
    /\ proc = "none"
    /\ recording = 0
    /\ disk = << >>
    /\ writing = 0
    /\ elapsed = 0
    /\ torn = {}
    /\ catalog = {}

\* Clip n begins, `time` into its recording; a file of that name is overwritten.
Open(n, time) ==
    /\ writing' = n
    /\ elapsed' = time
    /\ disk' = [m \in DOMAIN disk \union {n} |->
                   IF m = n THEN [of |-> recording', from |-> time, whole |-> FALSE]
                   ELSE IF m = writing /\ n > 0 THEN [disk[m] EXCEPT !.whole = TRUE]
                   ELSE disk[m]]

Starts ==
    /\ proc # "running" /\ recording < MaxRecordings
    /\ proc' = "running"
    /\ recording' = recording + 1
    /\ UNCHANGED <<torn, catalog>>

\* Mutant of StartRecording: the numbers go on where the last recording left off.
StartNumbersOn == Starts /\ Open(Cardinality(DOMAIN disk), 0)

\* start: nothing happens while the process runs.
StartRecording == Starts /\ Open(0, 0)

\* splitmuxsink finishes a clip at the keyframe before or after max-size-time and opens
\* the next.
Pass ==
    /\ proc = "running" /\ writing + 1 < MaxClips
    /\ UNCHANGED <<proc, recording, torn, catalog>>
    /\ \E len \in (SegmentLen - KeyframeGap)..(SegmentLen + KeyframeGap) :
          Open(writing + 1, elapsed + len)

Broken ==
    /\ Cardinality(torn) < MaxBreaks
    /\ torn' = torn \union {recording}
    /\ UNCHANGED disk

\* Mutant of StopRecording: the process is killed without an EOS.
StopByKill ==
    /\ proc # "none"
    /\ proc' = "none"
    /\ UNCHANGED <<disk, torn, recording, writing, elapsed, catalog>>

\* stop: SIGINT makes gst-launch -e finish the last clip; after the timeout it is killed.
StopRecording ==
    /\ proc # "none"
    /\ proc' = "none"
    /\ \/ proc = "running" /\ disk' = [disk EXCEPT ![writing].whole = TRUE] /\ UNCHANGED torn
       \/ proc = "running" /\ Broken
       \/ proc = "gone" /\ UNCHANGED <<disk, torn>>
    /\ UNCHANGED <<recording, writing, elapsed, catalog>>

\* The stream breaks off and the process ends; nobody is told.
LoseStream ==
    /\ proc = "running" /\ Broken
    /\ proc' = "gone"
    /\ UNCHANGED <<recording, writing, elapsed, catalog>>

\* clips: every clip file there is, in the order of their names.
Clips == [rank \in 1..Cardinality(DOMAIN disk) |->
             CHOOSE n \in DOMAIN disk : Cardinality({m \in DOMAIN disk : m < n}) = rank - 1]

\* catalog_live_clips: rows timed by rank, from a base_time that the caller gives and
\* `after` counts from, with the checksum of the file as it is now.
Catalog ==
    /\ recording > 0
    /\ catalog' = catalog \union
          {[of |-> recording, index |-> rank - 1, after |-> (rank - 1) * CatalogLen,
            clip |-> disk[Clips[rank]],
            live |-> proc = "running" /\ Clips[rank] = writing] : rank \in DOMAIN Clips}
    /\ UNCHANGED <<proc, recording, disk, writing, elapsed, torn>>

Live == StartRecording \/ Pass \/ StopRecording \/ LoseStream \/ Catalog

\* A camera is ingested through the segmenter or recorded; the two share nothing.
SourceNext ==
    /\ UNCHANGED source
    /\ \/ source = "pyav" /\ SegmenterNext /\ UNCHANGED liveVars
       \/ source = "live" /\ Live /\ UNCHANGED segmenterVars

SourceSpec == SourceInit /\ [][SourceNext]_sourceVars

-----------------------------------------------------------------------------
(* Safety *)

\* Rows come from a directory listing, in which older recordings may have left clips.
\* Even so the clips of the recording that is catalogued are listed in its order, so
\* that the error of their times is that of the two clip lengths, added up: by index
\* CatalogLen - SegmentLen, give or take the distance of keyframes.
CatalogDrift ==
    \A row \in catalog : row.clip.of = row.of =>
        /\ row.index * (CatalogLen - SegmentLen - KeyframeGap) <= row.after - row.clip.from
        /\ row.after - row.clip.from <= row.index * (CatalogLen - SegmentLen + KeyframeGap)

\* A checksum is taken of an unfinished file only if the clip is being written right
\* then or its recording was broken off.
ChecksumOfWholeClip ==
    \A row \in catalog : row.clip.whole \/ row.live \/ row.clip.of \in torn

=============================================================================
