------------------------------ MODULE Segmenter ------------------------------
(***************************************************************************)
(* One camera's footage on its way to the AI workers: the segmenter cuts   *)
(* it into overlapping clips in one decode pass (ingestion/segmenter.py),  *)
(* each clip is split into sliding windows (ingestion/windows.py), and a   *)
(* worker looks at the frames of one window at a time, by their time in    *)
(* the clip file (ai_workers/cv_oss_worker/plugin.py).                     *)
(*                                                                         *)
(* Time is counted in ticks.  Three clocks need not agree: the source's    *)
(* frame times, by which clips are cut and rows are timed; the average     *)
(* rate the container declares; and the whole number of frames per second  *)
(* by which the frames of a clip file are timed.                           *)
(***************************************************************************)
EXTENDS Integers, FiniteSets

CONSTANTS
    ClipSec,        \* storage_clip_duration_sec
    OverlapSec,     \* clip_overlap_sec
    WinSec,         \* ai_window_duration_sec
    StrideSec,      \* ai_window_stride_sec
    DurationLimit,  \* source time to ingest; LastTime when there is no limit
    LastTime,       \* bound: source times are 0..LastTime
    MaxGaps,        \* bound: how often the source skips frames
    Second,         \* ticks in a second
    Clocks          \* the clocks a source may have

ASSUME GeometryAssumption ==
    /\ ClipSec \in Nat /\ OverlapSec \in Nat /\ OverlapSec < ClipSec
    /\ WinSec \in Nat \ {0} /\ StrideSec \in Nat \ {0}
ASSUME FootageAssumption == LastTime \in Nat /\ DurationLimit \in Nat /\ MaxGaps \in Nat
ASSUME ClockAssumption ==
    /\ Second \in Nat \ {0}
    /\ Clocks \subseteq [source : Nat \ {0}, rate : Nat \ {0}]
    /\ \A c \in Clocks : c.rate < 2 * Second     \* a rate that rounds to 0 raises

VARIABLES
    clock,      \* the source's: shortest time between frames, 1 / average_rate
    decoded,    \* source times of the frames encoded so far
    last,       \* last_t, a period before 0 until the first frame
    gaps,       \* how often frames were skipped so far
    ended,      \* has segment_source returned?
    clip,       \* clip[k]: "absent", "open" (its encoder is), or "closed"
    frames,     \* frames[k]: the frames encoded into clip k
    length      \* length[k]: duration_sec of the emitted clip k

segmenterVars == <<clock, decoded, last, gaps, ended, clip, frames, length>>

ClipStride == ClipSec - OverlapSec
Start(k) == k * ClipStride
Time == 0..LastTime
Index == 0..LastTime        \* more than enough: ClipStride >= 1

TypeOK ==
    /\ clock \in Clocks
    /\ decoded \subseteq Time
    /\ last \in Time \union {-clock.source}
    /\ gaps \in 0..MaxGaps
    /\ ended \in BOOLEAN
    /\ clip \in [Index -> {"absent", "open", "closed"}]
    /\ frames \in [Index -> SUBSET Time]
    /\ length \in [Index -> Nat]

SegmenterInit ==
    /\ clock \in Clocks
    /\ decoded = {}
    /\ last = -clock.source
    /\ gaps = 0
    /\ ended = FALSE
    /\ clip = [k \in Index |-> "absent"]
    /\ frames = [k \in Index |-> {}]
    /\ length = [k \in Index |-> 0]

-----------------------------------------------------------------------------
(* segment_source *)

\* Mutant of Spanning: a frame goes to the newest clip only.
SpanningNewest(t) == {t \div ClipStride}

\* k_lo..k_hi: the clips frame t is encoded into.
Spanning(t) ==
    LET lo == (t - ClipSec) \div ClipStride + 1
    IN  (IF lo < 0 THEN 0 ELSE lo)..(t \div ClipStride)

\* Open clips whose end frame t has reached: they are closed before t is encoded.
Passed(t) == {k \in Index : clip[k] = "open" /\ t >= Start(k) + ClipSec}

\* The decoder yields the next frame, possibly after a gap.
Arrives(t) ==
    /\ ~ended
    /\ t >= last + clock.source
    /\ IF t = last + clock.source THEN UNCHANGED gaps ELSE gaps < MaxGaps /\ gaps' = gaps + 1

\* A frame is encoded into every clip that spans it.
Encode(t) ==
    /\ Arrives(t)
    /\ t <= DurationLimit
    /\ decoded' = decoded \union {t}
    /\ last' = t
    /\ clip' = [k \in Index |-> IF k \in Spanning(t) THEN "open"
                                ELSE IF k \in Passed(t) THEN "closed" ELSE clip[k]]
    /\ frames' = [k \in Index |-> IF k \in Spanning(t) THEN frames[k] \union {t} ELSE frames[k]]
    /\ length' = [k \in Index |-> IF k \in Passed(t) THEN ClipSec ELSE length[k]]
    /\ UNCHANGED <<clock, ended>>

\* Mutant of CloseAll: the last frame's period is forgotten.
CloseAllShort(t) ==
    /\ clip' = [k \in Index |-> IF clip[k] = "open" THEN "closed" ELSE clip[k]]
    /\ length' = [k \in Index |-> IF clip[k] = "open" THEN t - Start(k) ELSE length[k]]

\* The clips still open are emitted; they end 1 / fps after time t.
CloseAll(t) ==
    /\ clip' = [k \in Index |-> IF clip[k] = "open" THEN "closed" ELSE clip[k]]
    /\ length' = [k \in Index |-> IF clip[k] = "open" THEN t + clock.rate - Start(k) ELSE length[k]]

\* End of the source.
Finish ==
    /\ ~ended
    /\ ended' = TRUE
    /\ CloseAll(last)
    /\ UNCHANGED <<clock, decoded, last, gaps, frames>>

\* The first frame beyond the limit: last_t is already its time, it is not encoded.
BreakAtLimit(t) ==
    /\ Arrives(t)
    /\ t > DurationLimit
    /\ ended' = TRUE
    /\ last' = t
    /\ CloseAll(t)
    /\ UNCHANGED <<clock, decoded, frames>>

SegmenterNext == (\E t \in Time : Encode(t) \/ BreakAtLimit(t)) \/ Finish

SegmenterSpec == SegmenterInit /\ [][SegmenterNext]_segmenterVars

-----------------------------------------------------------------------------
(* Windows of an emitted clip, and what a worker sees through one *)

\* window_bounds: windows start every StrideSec until one reaches the end d; if they
\* ran over the end without reaching it, a last one is set flush with it.
WindowEnd(m, d) == IF m * StrideSec + WinSec < d THEN m * StrideSec + WinSec ELSE d
InLoop(m, d) == m * StrideSec < d /\ (m > 0 => (m - 1) * StrideSec + WinSec < d)
Windows(d) ==
    LET loop == {m \in 0..d : InLoop(m, d)}
        tail == d > WinSec /\ \A m \in loop : WindowEnd(m, d) < d /\ m * StrideSec < d - WinSec
    IN  {[from |-> m * StrideSec, to |-> WindowEnd(m, d)] : m \in loop}
            \union (IF tail THEN {[from |-> d - WinSec, to |-> d]} ELSE {})

\* Mutant of Kept: windows that begin in the overlap are dropped.
KeptAfterOverlap(k) == {w \in Windows(length[k]) : k = 0 \/ w.from >= OverlapSec}

\* windows_for_segment with skip_before_sec: those inside the overlap are dropped.
Kept(k) == {w \in Windows(length[k]) : k = 0 \/ w.to > OverlapSec}

\* int(round(fps)): the nearest whole number of frames per second, the even one of two.
FileRate ==
    LET whole == Second \div clock.rate
        rest == Second % clock.rate
    IN  IF 2 * rest > clock.rate \/ (2 * rest = clock.rate /\ whole % 2 = 1)
        THEN whole + 1 ELSE whole

\* A frame's pts in the file: the encoder counts frames from 0, FileRate of them to
\* the second.
Pos(k, f) == Cardinality({g \in frames[k] : g < f})

\* The frame's time in the file, Pos(k, f) * Second / FileRate ticks, is before x.
PlaysBefore(k, f, x) == Pos(k, f) * Second < x * FileRate

\* All of A lies within one kept window of clip k, ws <= t < we in file time.
WatchedIn(k, A) ==
    /\ clip[k] = "closed"
    /\ A \subseteq frames[k]
    /\ \E w \in Kept(k) : \A f \in A : PlaysBefore(k, f, w.to) /\ ~PlaysBefore(k, f, w.from)

Watched(A) == \E k \in Index : WatchedIn(k, A)

-----------------------------------------------------------------------------
(* Safety *)

\* segmenter.py: consecutive clips overlap, so what crosses a clip boundary and is
\* no longer than the overlap is wholly in one clip, whatever the source skips.
BoundaryEventsContained ==
    \A a, b \in decoded :
        a <= b /\ b - a <= OverlapSec => \E k \in Index : {a, b} \subseteq frames[k]

\* The row of an emitted clip covers the frames of its file at the source's pace.  If
\* the file plays no slower than the source at its fastest, no frame lies beyond
\* duration_sec, where no window reaches.  It plays slower when the rounding takes some
\* of a fractional rate off, or when gaps have lowered the average.
RowCoversFile ==
    \A k \in Index : clip[k] = "closed" => \A f \in frames[k] :
        /\ Pos(k, f) * clock.source < length[k]
        /\ Second <= clock.source * FileRate => PlaysBefore(k, f, length[k])

\* Of footage without gaps, with a whole number of frames per second, everything is
\* looked at: whatever is no longer than the clip overlap and the window overlap lies
\* within one window that is kept, in spite of boundaries, clamped windows and dropped
\* prefixes.
SpansAreWatched ==
    ended /\ gaps = 0 /\ clock.source = 1 /\ FileRate = Second =>
        \A a, b \in decoded :
            a <= b /\ b - a <= OverlapSec /\ b - a <= WinSec - StrideSec => Watched({a, b})

=============================================================================
