------------------------------ MODULE Summaries ------------------------------
(***************************************************************************)
(* The staged summary of a store's events and the parity report            *)
(* (ai_workers/vss_eval_worker/lvs.py, summarizer.py, parity.py).          *)
(*                                                                         *)
(* An event is [id, time, camera, severity, confidence, flagged, incident, *)
(* missing]: time in seconds or None, confidence in hundredths, missing    *)
(* the evidence its verdict asks for.  A caption or summary is what it was *)
(* made of; the wording is left out.                                       *)
(***************************************************************************)
EXTENDS Integers, FiniteSets, SequencesExt

CONSTANT None

CLIP_SECONDS == 10
FIVE_MIN_SECONDS == 300
HOUR_SECONDS == 3600

SuspiciousSeverity == {"medium", "high", "critical"}
IsSuspicious(ev) == ev.severity \in SuspiciousSeverity \/ ev.flagged

\* filter_events: a request is [cameras, start, end, low]; no cameras means all of them,
\* and an event without a time passes the time range.
Kept(ev, req) ==
    /\ req.cameras = {} \/ ev.camera \in req.cameras
    /\ ev.time = None \/ req.start = None \/ ev.time >= req.start
    /\ ev.time = None \/ req.end = None \/ ev.time <= req.end
    /\ req.low \/ IsSuspicious(ev) \/ ev.confidence >= 50
FilterEvents(events, req) == SelectSeq(events, LAMBDA ev : Kept(ev, req))

\* The stable sort by time, events without one first.
SortedByTime(events) ==
    LET when(i) == IF events[i].time = None THEN -1 ELSE events[i].time
        order == SetToSortSeq(DOMAIN events, LAMBDA i, j : when(i) < when(j)
                                                            \/ (when(i) = when(j) /\ i < j))
    IN  [n \in DOMAIN events |-> events[order[n]]]

\* _origin: the start asked for, or else the earliest event.
Origin(events, req) ==
    LET times == {ev.time : ev \in ToSet(events)} \ {None}
    IN  IF req.start # None THEN req.start ELSE IF times = {} THEN 0 ELSE Min(times)

\* _bucket_index and _group: the bucket of an event, and those in use in ascending order.
Bucket(ev, origin, span) == IF ev.time = None THEN 0 ELSE (ev.time - origin) \div span
Buckets(events, origin, span) ==
    SetToSortSeq({Bucket(ev, origin, span) : ev \in ToSet(events)}, <)
InBucket(events, origin, span, n) ==
    SelectSeq(events, LAMBDA ev : Bucket(ev, origin, span) = n)

\* _load_events: the events of the store with their latest observation.  The rows have no
\* needs_vlm_verification and no incident_id, which are kept in metadata_json and in
\* incident_events; observations is in commit order.
LoadEvents(rows, observations) ==
    [n \in DOMAIN rows |->
        LET mine == SelectLastInSeq(observations, LAMBDA o : o.event = rows[n].id)
        IN  [rows[n] EXCEPT !.flagged = FALSE, !.incident = None,
                            !.missing = IF mine = 0 THEN {} ELSE observations[mine].missing]]

\* summarizer.infer: a text made of these items, by the model or its stand-in.
Summary(level, items, faked) == [level |-> level, of |-> items, faked |-> faked]

-----------------------------------------------------------------------------
(* Output assembly *)

\* Without repetition, in order of first occurrence.
Unique(s) == FoldLeft(LAMBDA acc, x : IF x \in ToSet(acc) THEN acc ELSE Append(acc, x), <<>>, s)

\* _build_timeline
Timeline(events) == SelectSeq(events, IsSuspicious)

\* _open_questions: evidence that is missing, and other cameras with suspicious events.
OpenQuestions(events) ==
    LET cams == {ev.camera : ev \in ToSet(Timeline(events))}
        ask(ev) ==
            [i \in 1..Cardinality(ev.missing) |->
                <<"obtain", ev.time, ev.camera, SetToSeq(ev.missing)[i]>>]
            \o IF cams = {ev.camera} THEN <<>>
               ELSE <<<<"check", ev.time, ev.camera, cams \ {ev.camera}>>>>
    IN  Unique(FoldLeft(LAMBDA acc, ev : acc \o ask(ev), <<>>, Timeline(events)))

\* _review_items: the incident, or else the event itself if it is severe.
ReviewItems(events) ==
    LET item(ev) == IF ev.incident # None THEN <<ev.incident>>
                    ELSE IF ev.severity \in {"high", "critical"} THEN <<ev.id>> ELSE <<>>
    IN  Unique(FoldLeft(LAMBDA acc, ev : acc \o item(ev), <<>>, events))

\* summarize: clips of ten seconds, windows of five minutes, hours, and the report.
Summarize(req, events, faked) ==
    LET kept == SortedByTime(FilterEvents(events, req))
        origin == Origin(kept, req)
        clip == [n \in ToSet(Buckets(kept, origin, CLIP_SECONDS)) |->
                    Summary("clip", InBucket(kept, origin, CLIP_SECONDS, n), faked)]
        clipsOf(w) == SetToSortSeq({n \in DOMAIN clip :
                                        (n * CLIP_SECONDS) \div FIVE_MIN_SECONDS = w}, <)
        window == [w \in ToSet(Buckets(kept, origin, FIVE_MIN_SECONDS)) |->
                    Summary("5min", clipsOf(w), faked)]
        windowsOf(h) == SetToSortSeq({w \in DOMAIN window :
                                        (w * FIVE_MIN_SECONDS) \div HOUR_SECONDS = h}, <)
        hour == [h \in {(w * FIVE_MIN_SECONDS) \div HOUR_SECONDS : w \in DOMAIN window} |->
                    Summary("hour", windowsOf(h), faked)]
    IN  [clips |-> clip, windows |-> window, hours |-> hour,
         summary |-> Summary("report", SetToSortSeq(DOMAIN hour, <), faked),
         timeline |-> Timeline(kept), questions |-> OpenQuestions(kept),
         review |-> ReviewItems(kept), kept |-> kept]

-----------------------------------------------------------------------------
(* Parity report: counts are None without a database; scores in hundredths *)

Dimension(status, score) == [status |-> status, score |-> score]

\* score_rt_cv, score_rt_embedding and score_vios: presence and volume.
Presence(count, full) ==
    IF count = None THEN Dimension("pending", None)
    ELSE Dimension("measured", IF count >= full THEN 100 ELSE (count * 100) \div full)

\* score_lvs: the fold, tested on one made-up event; a well-formed report scores.
ScoreLvs(report) ==
    Dimension(IF report.summary.faked THEN "fake" ELSE "measured",
              IF DOMAIN report.clips # {} /\ DOMAIN report.windows # {} /\ DOMAIN report.hours # {}
              THEN 100 ELSE 0)

\* score_search: an empty index has a score, 0, but is pending.
ScoreSearch(count) == IF count = 0 THEN Dimension("pending", 0) ELSE Presence(count, 50)

\* build_report: the mean of the dimensions that have a score.
BuildReport(events, embeddings, observations, lvs) ==
    LET dims == <<Presence(events, 50), Presence(embeddings, 50), ScoreLvs(lvs),
                  ScoreSearch(embeddings), Presence(observations, 20)>>
        scored == SelectSeq(dims, LAMBDA d : d.score # None)
    IN  [dims |-> dims, measurable |-> Len(scored),
         overall |-> FoldLeft(LAMBDA sum, d : sum + d.score, 0, scored) \div Len(scored)]

=============================================================================
