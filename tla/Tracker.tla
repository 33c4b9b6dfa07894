------------------------------- MODULE Tracker -------------------------------
(***************************************************************************)
(* The CV worker's detector without its network: frame gating, the         *)
(* multi-object tracker, zones and the hypotheses raised for a window      *)
(* (ai_workers/cv_oss_worker/plugin.py, tracking.py, zones.py).            *)
(*                                                                         *)
(* A picture is a number, and what the motion gate measures between two    *)
(* pictures is their distance.  A box is its place on a line: closeness    *)
(* orders candidates as overlap and centroid distance do for boxes of one  *)
(* size, and Reach is the larger of the two gates.  The live tracks of a   *)
(* camera are a set: their list is in the order of their ids.              *)
(***************************************************************************)
EXTENDS Integers, Sequences, FiniteSets

CONSTANTS
    Camera,
    Label,          \* what the detector tells apart
    Zone,           \* records [camera, type, span], span a set of places
    SampleStep,     \* frames from one sampled frame to the next
    MinChange,      \* MOTION_MIN_CHANGED
    Reach,          \* iou_threshold and max_centroid_dist
    MaxAge          \* max_age_sec

ASSUME TrackerAssumption ==
    /\ {"person", "item"} \subseteq Label
    /\ SampleStep \in Nat \ {0} /\ MinChange \in Nat /\ Reach \in Nat /\ MaxAge \in Nat

Distance(a, b) == IF a < b THEN b - a ELSE a - b

-----------------------------------------------------------------------------
(* Frame gating: of a clip, a sequence of [view, dets], the sampled frames *)
(* that changed enough since the last one kept reach the detector.         *)

\* The last picture kept of the first i, 0 for none: the next sampled one that changed
\* enough since.
LastKept(clip) ==
    LET last[i \in 0..Len(clip)] ==
            IF i = 0 THEN 0
            ELSE LET before == last[i - 1]
                 IN  IF /\ (i - 1) % SampleStep = 0
                        /\ \/ before = 0
                           \/ Distance(clip[before].view, clip[i].view) >= MinChange
                     THEN i ELSE before
    IN  last

Gated(clip) == {i \in DOMAIN clip : LastKept(clip)[i] = i}

-----------------------------------------------------------------------------
(* Tracker: tracks[c] are the live tracks of camera c, next the next id.   *)

NoTracks == [tracks |-> [c \in Camera |-> {}], next |-> 1]

\* Mutant of Retired: tracks stay for ever.
RetiredNever(live, t) == live

\* _retire_stale: tracks not seen for more than MaxAge by the given time are dropped.
Retired(live, t) == {k \in live : t - k.last <= MaxAge}

\* Pairs of a detection and a live track that pass the gate.
Candidates(dets, live) ==
    {p \in (DOMAIN dets) \X live :
        /\ dets[p[1]].label = p[2].label
        /\ Distance(dets[p[1]].at, p[2].at) <= Reach}

\* Best pair first; ties by detection, then by track.
Order(dets, p, q) ==
    LET gap(r) == Distance(dets[r[1]].at, r[2].at)
    IN  \/ gap(p) < gap(q)
        \/ gap(p) = gap(q) /\ (p[1] < q[1] \/ (p[1] = q[1] /\ p[2].id < q[2].id))

\* Mutant of Clash: a track may serve several detections.
ClashOfDetections(p, q) == p[1] = q[1]

\* Each detection and each track is used at most once.
Clash(p, q) == p[1] = q[1] \/ p[2] = q[2]

Best(dets, pairs) == CHOOSE p \in pairs : \A q \in pairs \ {p} : Order(dets, p, q)

\* Greedy association, a pair a round: the best of those that clash with none before.
Rounds(dets, live) ==
    LET rounds[n \in 0..Len(dets)] ==
            IF n = 0 THEN {}
            ELSE LET done == rounds[n - 1]
                     free == {p \in Candidates(dets, live) : \A q \in done : ~Clash(p, q)}
                 IN  IF free = {} THEN done ELSE done \union {Best(dets, free)}
    IN  rounds

Assignment(dets, live) == Rounds(dets, live)[Len(dets)]

\* Tracker.update: the tracker afterwards, and the ids of the detections in order.
\* The matched tracks move, an unmatched detection starts a track with a fresh id.
Update(tracker, dets, camera, t) ==
    LET live == Retired(tracker.tracks[camera], t)
        pairs == Assignment(dets, live)
        fresh == {i \in DOMAIN dets : \A p \in pairs : p[1] # i}
        idOf(i) == IF i \in fresh THEN tracker.next + Cardinality({j \in fresh : j < i})
                   ELSE (CHOOSE p \in pairs : p[1] = i)[2].id
        track(i) == [id |-> idOf(i), label |-> dets[i].label, at |-> dets[i].at, last |-> t]
        unmatched == {k \in live : \A p \in pairs : p[2] # k}
    IN  [tracker |-> [tracks |-> [tracker.tracks EXCEPT
                                    ![camera] = unmatched \union {track(i) : i \in DOMAIN dets}],
                      next |-> tracker.next + Cardinality(fresh)],
         ids |-> [i \in DOMAIN dets |-> idOf(i)]]

\* The tracker after the first i pictures of a clip: those that are not kept, or show
\* nothing, do not reach it.
Trail(tracker, clip, camera) ==
    LET trail[i \in 0..Len(clip)] ==
            IF i = 0 THEN tracker
            ELSE IF i \in Gated(clip) /\ clip[i].dets # <<>>
                 THEN Update(trail[i - 1], clip[i].dets, camera, i - 1).tracker
                 ELSE trail[i - 1]
    IN  trail

\* The detections of a picture, with its time and the ids they are given.
Identified(dets, ids, t) ==
    {[label |-> dets[n].label, at |-> dets[n].at, time |-> t, nth |-> n, id |-> ids[n]] :
        n \in DOMAIN dets}

\* One pass of the tracker over a clip.
TrackClip(tracker, clip, camera) ==
    LET trail == Trail(tracker, clip, camera)
        Ids(i) == Update(trail[i - 1], clip[i].dets, camera, i - 1).ids
    IN  [tracker |-> trail[Len(clip)],
         dets |-> UNION {Identified(clip[i].dets, Ids(i), i - 1) : i \in Gated(clip)}]

-----------------------------------------------------------------------------
(* Zones and hypotheses *)

\* map_point_to_zones
ZonesAt(camera, at) == {z \in Zone : z.camera = camera /\ at \in z.span}

\* detections_to_events: one hypothesis for each person seen at a shelf while
\* the window has items; its id is that of the window and the person.
Hypotheses(window, camera, dets) ==
    LET items == {d \in dets : d.label # "person"}
        atShelf == {d \in dets :
                        d.label = "person" /\ \E z \in ZonesAt(camera, d.at) : z.type = "shelf"}
    IN  IF items = {} THEN {}
        ELSE {[window |-> window, subject |-> d.id, items |-> {i.id : i \in items}] : d \in atShelf}

=============================================================================
