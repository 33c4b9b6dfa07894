----------------------------- MODULE RuleWorker -----------------------------
(***************************************************************************)
(* The rule_engine worker (services/rule_engine/worker.py): it takes       *)
(* event.created messages one by one, feeds its in-memory engine, and then *)
(* makes the outputs one by one: forwards to event.needs_vlm, incident     *)
(* rows, event rows and their republication on event.created, which it     *)
(* consumes again itself.  Every write may fail and is swallowed; the      *)
(* process may die between any two of them, and a new process starts with  *)
(* an empty engine.                                                        *)
(***************************************************************************)
EXTENDS RuleEngine, FiniteSets

CONSTANTS
    Worker,         \* rule_engine processes
    Feed,           \* the events other components publish on event.created
    MaxFaults       \* bound: process deaths and swallowed failures of a write or publish

ASSUME BoundAssumption == MaxFaults \in Nat /\ IsFiniteSet(Worker)

\* Events of other components say so, have ids of their own, and are not about track "?".
ASSUME FeedAssumption ==
    /\ \A e \in Feed : e.by # "rule" /\ TrackKey(e) # Unknown
    /\ \A e, f \in Feed : e.id = f.id => e = f
    /\ \A e, f \in Feed, r \in Rule : e.id # OutputId(r, TrackKey(f))

VARIABLES
    arrived,    \* events of Feed published so far
    created,    \* pending event.created messages, oldest first
    contexts,   \* contexts[w]: key -> context, the engine's _contexts
    fired,      \* fired[w]: the engine's _fired
    forwarded,  \* forwarded[w]: the module's _vlm_forwarded
    todo,       \* todo[w]: outputs still to make for the message in hand
    eventRows,  \* rows the worker inserted in events, in order
    incidents,  \* rows it inserted in incidents, with their linked event ids
    needsVlm,   \* messages published on event.needs_vlm, in order, with the engine they are from
    handled,    \* messages whose handling ran to its end (history)
    lives,      \* lives[w]: engine instances of w so far
    faults      \* swallowed failures so far

vars == <<arrived, created, contexts, fired, forwarded, todo, eventRows, incidents,
          needsVlm, handled, lives, faults>>
memory == <<contexts, fired, forwarded>>

RangeOf(s) == {s[i] : i \in DOMAIN s}

None == << >>       \* the empty function: no contexts

Init ==
    /\ arrived = {}
    /\ created = <<>>
    /\ contexts = [w \in Worker |-> None]
    /\ fired = [w \in Worker |-> {}]
    /\ forwarded = [w \in Worker |-> {}]
    /\ todo = [w \in Worker |-> <<>>]
    /\ eventRows = <<>>
    /\ incidents = <<>>
    /\ needsVlm = <<>>
    /\ handled = {}
    /\ lives = [w \in Worker |-> 1]
    /\ faults = 0

-----------------------------------------------------------------------------
(* Publishers *)

Arrive(e) ==
    /\ e \notin arrived
    /\ arrived' = arrived \union {e}
    /\ created' = Append(created, e)
    /\ UNCHANGED <<memory, todo, eventRows, incidents, needsVlm, handled, lives, faults>>

-----------------------------------------------------------------------------
(* The worker *)

ContextWith(w, e) ==
    LET k == TrackKey(e)
    IN  IF k \in DOMAIN contexts[w] THEN AddTo(contexts[w][k], e) ELSE NewContext(e)

\* Mutant of Outputs: the event is announced before its row is written.
OutputsAnnounceFirst(r, key, ctx) ==
    LET a == Action(r, key, ctx)
        out == ActionEvent(a)
    IN  IF CreatesIncident(r)
        THEN <<[op |-> "incident", what |-> a]>>
        ELSE <<[op |-> "publish", what |-> out], [op |-> "forward", what |-> out],
               [op |-> "event", what |-> out]>>

\* The outputs of one fired rule, in process_event's order.
Outputs(r, key, ctx) ==
    LET a == Action(r, key, ctx)
        out == ActionEvent(a)
    IN  IF CreatesIncident(r)
        THEN <<[op |-> "incident", what |-> a]>>
        ELSE <<[op |-> "event", what |-> out], [op |-> "publish", what |-> out],
               [op |-> "forward", what |-> out]>>

\* Mutant of NewlyFired: the fired set is not consulted.
HoldingRules(w, key, ctx) == {r \in Rule : Holds(r, ctx)}

\* RuleEngine.feed: the rules that hold and have not fired for this subject yet.
NewlyFired(w, key, ctx) == {r \in Rule : Holds(r, ctx) /\ <<key, r>> \notin fired[w]}

\* Take a message and feed the engine: memory changes at once, outputs follow.
Take(w) ==
    /\ todo[w] = <<>>
    /\ created # <<>>
    /\ LET e == Head(created)
           k == TrackKey(e)
           ctx == ContextWith(w, e)
           new == NewlyFired(w, k, ctx)
           OutputsOf(r) == IF r \in new THEN Outputs(r, k, ctx) ELSE <<>>
       IN  /\ contexts' = [contexts EXCEPT ![w] =
                  [x \in DOMAIN contexts[w] \union {k} |->
                      IF x = k THEN ctx ELSE contexts[w][x]]]
           /\ fired' = [fired EXCEPT ![w] = @ \union ({k} \X new)]
           /\ todo' = [todo EXCEPT ![w] =
                  <<[op |-> "forward", what |-> e]>>
                  \o OutputsOf(Suspicious) \o OutputsOf(Bypass) \o OutputsOf(CameraHealth)
                  \o <<[op |-> "ack", what |-> e]>>]
    /\ created' = Tail(created)
    /\ UNCHANGED <<arrived, forwarded, eventRows, incidents, needsVlm, handled, lives, faults>>

Doing(w, op) == todo[w] # <<>> /\ Head(todo[w]).op = op
Now(w) == Head(todo[w]).what
Pop(w) == todo' = [todo EXCEPT ![w] = Tail(@)]

\* The engine instances so far: instance n of worker w.
Engines == UNION {{w} \X (1..lives[w]) : w \in Worker}
Lives == Cardinality(Engines)
Deaths == Lives - Cardinality(Worker)
Tolerable == faults + Deaths < MaxFaults

\* A best-effort write or publish: it happens, or its exception is swallowed.
Fault == Tolerable /\ faults' = faults + 1
Attempt(log, x) ==
    \/ log' = Append(log, x) /\ UNCHANGED faults
    \/ UNCHANGED log /\ Fault

\* Mutant of ShouldForward: no dedup.
IsFlagged(w, e) == e.vlm

ShouldForward(w, e) == e.vlm /\ ForwardKey(e) \notin forwarded[w]

\* _forward_for_vlm: the key is remembered before the publish is tried.
Forward(w) ==
    /\ Doing(w, "forward")
    /\ IF ShouldForward(w, Now(w))
       THEN /\ forwarded' = [forwarded EXCEPT ![w] = @ \union {ForwardKey(Now(w))}]
            /\ Attempt(needsVlm, [event |-> Now(w), engine |-> <<w, lives[w]>>])
       ELSE UNCHANGED <<forwarded, needsVlm, faults>>
    /\ Pop(w)
    /\ UNCHANGED <<arrived, created, contexts, fired, eventRows, incidents, handled, lives>>

\* _write_incident: the row and its links, one transaction.  A link the database
\* rejects is swallowed inside it, but the transaction is aborted by then: the
\* commit rolls the incident back without an exception, a fault like any other.
WriteIncident(w) ==
    /\ Doing(w, "incident")
    /\ Attempt(incidents, Now(w))
    /\ Pop(w)
    /\ UNCHANGED <<arrived, created, memory, eventRows, needsVlm, handled, lives>>

\* _write_event: a plain INSERT; (id, event_time) is the key, so no conflict.
WriteEvent(w) ==
    /\ Doing(w, "event")
    /\ Attempt(eventRows, Now(w))
    /\ Pop(w)
    /\ UNCHANGED <<arrived, created, memory, incidents, needsVlm, handled, lives>>

Republish(w) ==
    /\ Doing(w, "publish")
    /\ Attempt(created, Now(w))
    /\ Pop(w)
    /\ UNCHANGED <<arrived, memory, eventRows, incidents, needsVlm, handled, lives>>

\* Mutant of Ack: a handled message goes back to the stream.
AckRequeues(w) ==
    /\ Doing(w, "ack")
    /\ handled' = handled \union {Now(w)}
    /\ created' = Append(created, Now(w))
    /\ Pop(w)
    /\ UNCHANGED <<arrived, memory, eventRows, incidents, needsVlm, lives, faults>>

Ack(w) ==
    /\ Doing(w, "ack")
    /\ handled' = handled \union {Now(w)}
    /\ Pop(w)
    /\ UNCHANGED <<arrived, created, memory, eventRows, incidents, needsVlm,
                   lives, faults>>

\* The process dies and is started again: the claimed message and the outputs
\* not made yet are gone, and so is everything the engine remembered.
Restart(w) ==
    /\ Tolerable
    /\ lives' = [lives EXCEPT ![w] = @ + 1]
    /\ contexts' = [contexts EXCEPT ![w] = None]
    /\ fired' = [fired EXCEPT ![w] = {}]
    /\ forwarded' = [forwarded EXCEPT ![w] = {}]
    /\ todo' = [todo EXCEPT ![w] = <<>>]
    /\ UNCHANGED <<arrived, created, eventRows, incidents, needsVlm, handled, faults>>

Process(w) ==
    Take(w) \/ Forward(w) \/ WriteIncident(w) \/ WriteEvent(w) \/ Republish(w) \/ Ack(w)

Next ==
    \/ \E e \in Feed : Arrive(e)
    \/ \E w \in Worker : Process(w) \/ Restart(w)

Spec == Init /\ [][Next]_vars

\* A started worker keeps processing; publishers and deaths are not obliged.
FairSpec == Spec /\ \A w \in Worker : WF_vars(Process(w))

-----------------------------------------------------------------------------
(* Safety *)

HowMany(log, Is(_)) == Cardinality({i \in DOMAIN log : Is(log[i])})

\* Two messages that ask the VLM the same thing: camera, lead subject, type, clip.
SameHypothesis(x, y) ==
    /\ x.camera = y.camera /\ x.type = y.type /\ x.segment = y.segment
    /\ (x.tracks = <<>>) = (y.tracks = <<>>)
    /\ x.tracks # <<>> => Head(x.tracks) = Head(y.tracks)

Forwarded == {x.event : x \in RangeOf(needsVlm)}

Linked(x) == {e \in Feed : e.id \in x.sources}

\* engine.py: each (track, rule) fires at most once within an engine instance.
\* So a subject never has more incidents or hypotheses of a rule than there were
\* engine instances, however often its evidence and the engine's own output,
\* which it consumes again, are seen.
FiresOncePerEngine ==
    /\ \A x \in RangeOf(incidents) :
          HowMany(incidents, LAMBDA y : y.rule = x.rule /\ y.track = x.track) <= Lives
    /\ \A x \in RangeOf(eventRows) :
          HowMany(eventRows, LAMBDA y : y.id = x.id) <= Lives

\* One engine instance forwards a hypothesis (camera, subject, type, clip) once, though it
\* meets its own events again on the stream.
ForwardsOncePerEngine ==
    \A i, j \in DOMAIN needsVlm :
        i < j /\ needsVlm[i].engine = needsVlm[j].engine
            => ~SameHypothesis(needsVlm[i].event, needsVlm[j].event)

\* A flagged event whose message was handled to the end is represented on
\* event.needs_vlm by a hypothesis of the same camera, subject, type and clip,
\* unless a publish failed: the dedup never swallows a hypothesis of its own.
FlaggedReachesVlm ==
    faults = 0 =>
        \A e \in handled : e.vlm => \E x \in Forwarded : SameHypothesis(x, e)

\* The row of a rule's event is written before any message about it leaves, so
\* the VLM worker's UPDATE by id finds it, unless the write itself failed.
RowBeforeMessages ==
    faults = 0 =>
        \A x \in Forwarded \union RangeOf(created) :
            x.by = "rule" => x \in RangeOf(eventRows)

\* An incident is explained by the events it links: together they show the item
\* and the exit, and no visit to the billing counter.
IncidentIsExplained ==
    \A x \in RangeOf(incidents) :
        /\ \E e \in Linked(x) : "exit" \in e.zoneTypes
        /\ \E e \in Linked(x) : e.item
        /\ \A e \in Linked(x) : "billing_counter" \notin e.zoneTypes

-----------------------------------------------------------------------------
(* Liveness *)

\* The engine consumes its own output, yet the feedback dies out: the stream
\* drains and the workers come to rest.
FeedbackDiesOut == <>[](created = <<>> /\ \A w \in Worker : todo[w] = <<>>)

-----------------------------------------------------------------------------
(* What the repository says, which the code does not do *)

\* event_to_track_event: "when zone_types isn't pre-resolved we fall back to the
\* raw `zones` list".
ZonesStandInForZoneTypes ==
    \A w \in Worker : \A k \in DOMAIN contexts[w] : \A e \in contexts[w][k].seen :
        e.zones # {} => e.zoneTypes # {}

=============================================================================
