----------------------------- MODULE MCCvWorker -----------------------------
(***************************************************************************)
(* A small instance of CvWorker: two cameras, three clips and an LRU of    *)
(* two, so that windows of a third clip evict the first.                   *)
(***************************************************************************)
EXTENDS CvWorker, Twin

CONSTANTS w1, w2

Symmetry == Permutations(Worker)

P(at) == [label |-> "person", at |-> at]
I(at) == [label |-> "item", at |-> at]
Frame(view, dets) == [view |-> view, dets |-> dets]

McZone == {[camera |-> "aisle", type |-> "shelf", span |-> 0..60],
           [camera |-> "counter", type |-> "billing_counter", span |-> 0..60]}
McCameraOf == [c1 |-> "aisle", c2 |-> "counter", c3 |-> "aisle"]

\* c1: two persons meet (the motion gate drops the picture in between) and one comes
\* back after a long gap; c2, c3: the same places again.
McFootage ==
    [c1 |-> <<Frame(0, <<P(10), P(14)>>), Frame(0, <<P(90)>>), Frame(2, <<P(11), P(12)>>),
              Frame(4, <<>>), Frame(6, <<>>), Frame(8, <<P(11)>>)>>,
     c2 |-> <<Frame(0, <<P(10)>>)>>,
     c3 |-> <<Frame(0, <<P(15), I(14)>>)>>]

W(c, from, to) == [clip |-> c, from |-> from, to |-> to]
McWindow == <<W("c1", 0, 4), W("c2", 0, 2), W("c1", 2, 6), W("c3", 0, 2), W("c1", 0, 6)>>

\* Every sampled picture is close to the last one that was kept before it.
ASSUME GateKeepsUp ==
    \A v \in [1..5 -> 0..4] :
        LET clip == [i \in 1..5 |-> Frame(v[i], <<>>)]
            kept == Gated(clip)
        IN  \A i \in {n \in 1..5 : (n - 1) % SampleStep = 0} \ kept :
                \E k \in kept : /\ k < i /\ \A n \in kept : ~(k < n /\ n < i)
                                /\ Distance(v[k], v[i]) < MinChange

\* Greedy association takes no pair while a better free one is left.
ASSUME GreedyIsStable ==
    \A a, b, c, d \in 1..5 :
        LET dets == <<P(a), P(b)>>
            live == {[id |-> 1, label |-> "person", at |-> c, last |-> 0],
                     [id |-> 2, label |-> "person", at |-> d, last |-> 0]}
            done == Assignment(dets, live)
        IN  \A p \in Candidates(dets, live) \ done :
                \E q \in done : (q[1] = p[1] \/ q[2] = p[2]) /\ Order(dets, q, p)

-----------------------------------------------------------------------------
(* Twin *)

Grid == (0..3) \X (0..3)

\* Twice the area of the triangle a, b, p: on which side of the line p lies.
Side(a, b, p) == (b[1] - a[1]) * (p[2] - a[2]) - (b[2] - a[2]) * (p[1] - a[1])

\* Ray casting against half planes: what is strictly within a triangle is inside, what is
\* strictly beyond one of its sides is not.
ASSUME InsideMeansWithin ==
    \A a, b, c, p \in Grid :
        LET turn == Side(a, b, c)
            sides == {Side(a, b, p), Side(b, c, p), Side(c, a, p)}
            inside == PointInPolygon(p[1], p[2], <<a, b, c>>)
        IN  /\ turn # 0 /\ (\A s \in sides : s * turn > 0) => inside
            /\ turn # 0 /\ (\E s \in sides : s * turn < 0) => ~inside

\* Zones that share an edge leave no gap and share no point: a polygon cut in two.
ASSUME ZonesTile ==
    \A a, b, c, d, p \in (0..2) \X (0..2) :
        PointInPolygon(p[1], p[2], <<a, b, c, d>>)
            <=> PointInPolygon(p[1], p[2], <<a, b, c>>) # PointInPolygon(p[1], p[2], <<a, c, d>>)

Square(id, camera, lo, hi) ==
    [id |-> id, camera |-> camera, type |-> "shelf",
     polygon |-> <<<<lo, lo>>, <<hi, lo>>, <<hi, hi>>, <<lo, hi>>>>]
TwinZones == {Square("a", "aisle", 0, 4), Square("b", "counter", 4, 8),
              Square("c", "nowhere", 0, 8), Square("d", "aisle", 4, 12),
              [Square("a", "counter", 0, 8) EXCEPT !.polygon = SubSeq(@, 1, 2)]}

\* In a valid twin an event maps to zones of its own camera, and a zone no event can reach
\* is reported; the cameras without a zone are those no event gets a zone on.
ASSUME TwinIsConsistent ==
    \A z1, z2 \in TwinZones :
        LET twin == LoadTwin(<<"aisle", "counter", "exit">>, <<z1, z2>>)
            At(camera, x, y) == MapEvent(twin, [camera |-> camera, point |-> <<>>,
                                                norm |-> <<x, y>>, box |-> <<>>])
            hit == UNION {At(c, x, y) : c \in twin.cameras \union {"nowhere"},
                                        x \in 0..Unit, y \in 0..Unit}
        IN  /\ Validate(twin) = {} => hit = twin.zones
            /\ \A z \in twin.zones \ hit : \E p \in Validate(twin) : p[1] = z.id
            /\ \A c \in Summary(twin).blind : \A x, y \in 0..Unit : At(c, x, y) = {}

\* The twin reads the box of a detection by its corners, the worker, which writes it, as
\* place and size: they put the same detection on different shelves.
ASSUME BoxesAreReadTwice ==
    LET zones == {Square("a", "aisle", 0, 4), Square("d", "aisle", 4, 8)}
        box == <<4, 4, 2, 2>>
        event == [camera |-> "aisle", point |-> <<>>, norm |-> <<>>, box |-> box]
    IN  MapDetectionToZones(zones, "aisle", box)
            # MapEvent([cameras |-> {"aisle"}, zones |-> zones], event)

=============================================================================
