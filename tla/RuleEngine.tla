----------------------------- MODULE RuleEngine -----------------------------
(***************************************************************************)
(* The deterministic rule engine (services/rule_engine/engine.py and       *)
(* rules.py with configs/event_rules.yaml) as operators: the context one   *)
(* subject accumulates, the condition evaluators, the three configured     *)
(* rules, and the event a fired rule is rendered to.                       *)
(*                                                                         *)
(* An event is a record                                                    *)
(*   id, camera, tracks (the track_ids list), ts, zones, zoneTypes, near   *)
(*   (object_near_hand), item (has_item, or an object besides the person), *)
(*   health ("none", "ok" or "low": camera_health_score against the rule's *)
(*   threshold), type, segment, vlm (needs_vlm_verification), sources (the *)
(*   source_event_ids of a rule's event), by (its source_engine: "cv" or   *)
(*   "rule").                                                              *)
(* A context keeps the set of events seen and the one that sorts last: the *)
(* evaluators ask only for existence, for the span of the timestamps and   *)
(* for the latest event.                                                   *)
(***************************************************************************)
EXTENDS Integers, Sequences

CONSTANTS NoSegment     \* segment_id of an event that carries none

MinDwell == 3           \* configs/event_rules.yaml: dwell_time_sec_gte

-----------------------------------------------------------------------------
(* Subjects and contexts *)

\* Track ids and the camera fallback live in one name space of subjects.
Track(name) == <<"track", name>>
Unknown == Track("?")

\* The first track id, else the camera.
TrackKey(e) == IF e.tracks # <<>> THEN Head(e.tracks) ELSE <<"cam", e.camera>>

\* event_to_track_event: zone_types is taken as sent, whatever zones holds.
TrackEvent(e) == e

NewContext(e) == [camera |-> e.camera, seen |-> {TrackEvent(e)}, latest |-> TrackEvent(e)]

\* TrackContext.add: the sort is stable, so a tie goes to the newcomer.
AddTo(ctx, e) ==
    [ctx EXCEPT !.seen = @ \union {TrackEvent(e)},
                !.latest = IF e.ts >= @.ts THEN TrackEvent(e) ELSE @]

-----------------------------------------------------------------------------
(* Condition evaluators (rules.py) *)

PersonInZone(ctx, zt) == \E e \in ctx.seen : zt \in e.zoneTypes
DwellAtLeast(ctx, sec) == \E a, b \in ctx.seen : b.ts - a.ts >= sec
ObjectNearHand(ctx) == \E e \in ctx.seen : e.near
PersonHasItem(ctx) == \E e \in ctx.seen : e.item

VisitedBilling(ctx) == \E e \in ctx.seen : "billing_counter" \in e.zoneTypes
MovedToZone(ctx, zt) == zt \in ctx.latest.zoneTypes
HealthLow(ctx) == \E e \in ctx.seen : e.health = "low"

-----------------------------------------------------------------------------
(* The configured rules *)

Suspicious == "suspicious_item_interaction"
Bypass == "possible_billing_bypass"
CameraHealth == "camera_health_issue"
Rule == {Suspicious, Bypass, CameraHealth}

\* RuleEngine._evaluate: all conditions of the rule hold of the context.
Holds(r, ctx) ==
    \/ /\ r = Suspicious
       /\ PersonInZone(ctx, "shelf")
       /\ ObjectNearHand(ctx)
       /\ DwellAtLeast(ctx, MinDwell)
    \/ /\ r = Bypass
       /\ PersonHasItem(ctx)
       /\ ~VisitedBilling(ctx)
       /\ MovedToZone(ctx, "exit")
    \/ /\ r = CameraHealth
       /\ HealthLow(ctx)

CreatesIncident(r) == r = Bypass
NeedsVlm(r) == r \in {Suspicious, Bypass}

\* Mutant of Action: only the event that fired the rule is linked.
ActionOfLatest(r, key, ctx) ==
    [rule |-> r, track |-> key, camera |-> ctx.camera,
     zones |-> ctx.latest.zones, sources |-> {ctx.latest.id}]

\* RuleEngine._build_action: what the action takes from its context.
Action(r, key, ctx) ==
    [rule |-> r, track |-> key, camera |-> ctx.camera,
     zones |-> UNION {e.zones : e \in ctx.seen},
     sources |-> {e.id : e \in ctx.seen}]

\* action_to_event_dict: a deterministic id, and no ts, zone_types, segment_id
\* or evidence_path.  The id is a function of rule, track and type only.
OutputId(r, key) == <<r, key>>
ActionEvent(a) ==
    [id |-> OutputId(a.rule, a.track), camera |-> a.camera, tracks |-> <<a.track>>,
     ts |-> 0, zones |-> a.zones, zoneTypes |-> {}, near |-> FALSE, item |-> FALSE,
     health |-> "none", type |-> a.rule, segment |-> NoSegment,
     vlm |-> NeedsVlm(a.rule), sources |-> a.sources, by |-> "rule"]

\* Mutant of ForwardKey: the clip is left out.
ForwardKeyNoClip(e) ==
    <<e.camera, IF e.tracks # <<>> THEN Head(e.tracks) ELSE Unknown, e.type>>

\* _forward_for_vlm: one verification per camera, lead subject, type and clip.
ForwardKey(e) ==
    <<e.camera, IF e.tracks # <<>> THEN Head(e.tracks) ELSE Unknown, e.type, e.segment>>

=============================================================================
