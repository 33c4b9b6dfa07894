-------------------------------- MODULE Twin --------------------------------
(***************************************************************************)
(* The digital twin of a store (services/digital_twin) and the zones of    *)
(* the CV worker (ai_workers/cv_oss_worker/zones.py): which zones of a     *)
(* camera a point, a box or an event is in.                                *)
(*                                                                         *)
(* Coordinates are numbers of a grid of Unit; a polygon is a sequence of   *)
(* vertices <<x, y>>.  A twin is [cameras, zones], a zone                  *)
(* [id, camera, type, polygon].                                            *)
(***************************************************************************)
EXTENDS Integers, FiniteSets, SequencesExt

CONSTANT Unit       \* the normalized coordinate 1.0

\* The ray to the right of <<x, y>> crosses the edge from a to b.
Crosses(x, y, a, b) ==
    /\ (a[2] > y) # (b[2] > y)
    /\ LET side == (x - a[1]) * (b[2] - a[2]) - (b[1] - a[1]) * (y - a[2])
       IN  IF b[2] > a[2] THEN side < 0 ELSE side > 0

\* point_in_polygon: inside if an odd number of edges is crossed.
PointInPolygon(x, y, polygon) ==
    LET n == Len(polygon)
        edges == {i \in 1..n : Crosses(x, y, polygon[i], polygon[IF i = 1 THEN n ELSE i - 1])}
    IN  n >= 3 /\ Cardinality(edges) % 2 = 1

-----------------------------------------------------------------------------
(* The CV worker: zones is its ZoneMap. *)

\* map_point_to_zones
MapPointToZones(zones, camera, x, y) ==
    {z \in zones : z.camera = camera /\ PointInPolygon(x, y, z.polygon)}

\* map_detection_to_zones: a point, or a box [x, y, w, h] by its centre.
MapDetectionToZones(zones, camera, box) ==
    IF Len(box) = 4
    THEN MapPointToZones(zones, camera, box[1] + box[3] \div 2, box[2] + box[4] \div 2)
    ELSE MapPointToZones(zones, camera, box[1], box[2])

-----------------------------------------------------------------------------
(* The twin *)

\* load_twin: of two entries with one id the later stays.
LoadTwin(cameras, zones) ==
    [cameras |-> ToSet(cameras),
     zones |-> {zones[i] : i \in {j \in DOMAIN zones :
                   \A k \in DOMAIN zones : k > j => zones[k].id # zones[j].id}}]

\* validate: the problems of a zone; a polygon too short is not looked at further, and of
\* the vertices only the first bad one is named.
Validate(twin) ==
    UNION {(IF z.camera \notin twin.cameras THEN {<<z.id, "unknown camera">>} ELSE {})
           \union
           LET bad == SelectSeq(z.polygon, LAMBDA p : \/ Len(p) # 2
                                                      \/ p[1] \notin 0..Unit
                                                      \/ p[2] \notin 0..Unit)
           IN  IF Len(z.polygon) < 3 THEN {<<z.id, "vertices">>}
               ELSE IF bad = <<>> THEN {}
               ELSE {<<z.id, IF Len(Head(bad)) # 2 THEN "malformed" ELSE "outside">>}
           : z \in twin.zones}

\* _event_point: point, norm_x and norm_y, or the centre of a box, here [x1, y1, x2, y2];
\* <<>> if there is none.
EventPoint(event) ==
    IF event.point # <<>> THEN event.point
    ELSE IF event.norm # <<>> THEN event.norm
    ELSE IF Len(event.box) = 4
    THEN <<(event.box[1] + event.box[3]) \div 2, (event.box[2] + event.box[4]) \div 2>>
    ELSE <<>>

\* map_event, with zones_for_point.
MapEvent(twin, event) ==
    LET p == EventPoint(event)
    IN  IF event.camera \in twin.cameras /\ p # <<>>
        THEN MapPointToZones(twin.zones, event.camera, p[1], p[2])
        ELSE {}

\* summary
Summary(twin) ==
    [byType |-> [t \in {z.type : z \in twin.zones} |->
                    Cardinality({z \in twin.zones : z.type = t})],
     blind |-> twin.cameras \ {z.camera : z \in twin.zones}]

=============================================================================
