---------------------------- MODULE MCRuleWorker ----------------------------
(***************************************************************************)
(* Small instances of RuleWorker.  The feeds are shaped like the messages  *)
(* of the CV worker (zones, no zone_types, no ts) and like the enriched    *)
(* events of the engine's own tests and golden fixtures.                   *)
(***************************************************************************)
EXTENDS RuleWorker, SequencesExt

CONSTANTS r1, r2

Event(id, camera, tracks, ts, zoneTypes) ==
    [id |-> <<"cv", id>>, camera |-> camera, tracks |-> tracks, ts |-> ts, zones |-> {},
     zoneTypes |-> zoneTypes, near |-> FALSE, item |-> FALSE, health |-> "none",
     type |-> "observation", segment |-> "s1", vlm |-> FALSE, sources |-> {}, by |-> "cv"]

\* A shelf interaction and a walk to the exit: e1 and e2 are the hypotheses of two clips
\* about one subject.  Afterwards it pays at the counter, which a worker may hear of first.
ShelfToExit ==
    {[Event("e1", "aisle", <<Track("p1")>>, 10, {"shelf"})
        EXCEPT !.near = TRUE, !.vlm = TRUE, !.type = Suspicious],
     [Event("e2", "aisle", <<Track("p1")>>, 14, {"shelf"})
        EXCEPT !.item = TRUE, !.vlm = TRUE, !.type = Suspicious, !.segment = "s2"],
     Event("e3", "aisle", <<Track("p1")>>, 19, {"exit"}),
     Event("e4", "counter", <<Track("p1")>>, 21, {"billing_counter"})}

\* What the CV worker publishes: zone ids, but neither zone_types nor ts.
CvOnly ==
    {[Event(id, "aisle", <<Track("1")>>, 0, {})
        EXCEPT !.zones = {"left_shelf_zone"}, !.item = TRUE, !.vlm = TRUE, !.type = Suspicious] :
     id \in {"e1", "e2"}}

-----------------------------------------------------------------------------
(* The rules over every order of arrival                                    *)

\* Shelf, counter and exit, as in test_visiting_billing_suppresses_loss_incident.
Payer == {[Event("e1", "aisle", <<Track("p3")>>, 1, {"shelf"}) EXCEPT !.item = TRUE],
          Event("e2", "counter", <<Track("p3")>>, 5, {"billing_counter"}),
          Event("e3", "entry", <<Track("p3")>>, 10, {"exit"})}

ContextAfter(s) == FoldLeft(AddTo, NewContext(Head(s)), Tail(s))
Arrivals(feed) == {SubSeq(s, 1, n) : s \in SetToSeqs(feed), n \in 1..Cardinality(feed)}

\* A visit to the counter that was heard of suppresses the billing rule; one that was not
\* yet does not, whatever its time.
ASSUME BillingSuppresses ==
    LET fires == {s \in Arrivals(Payer) : Holds(Bypass, ContextAfter(s))}
    IN  /\ \A s \in fires : \A e \in ToSet(s) : "billing_counter" \notin e.zoneTypes
        /\ \E s \in fires : Len(s) = 2

\* A reading of the camera's health fires for the camera, and no other event does.
ASSUME HealthIsOfTheCamera ==
    LET low == [Event("e6", "aisle", <<>>, 7, {}) EXCEPT !.health = "low"]
    IN  /\ TrackKey(low) = <<"cam", "aisle">> /\ Holds(CameraHealth, NewContext(low))
        /\ \A s \in Arrivals(Payer) : ~Holds(CameraHealth, ContextAfter(s))

=============================================================================
