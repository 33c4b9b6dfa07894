-------------------------- MODULE RuleWorkerProofs --------------------------
(***************************************************************************)
(* Proofs about RuleWorker for any workers, any events of other components *)
(* in any order, and any number of faults.                                 *)
(***************************************************************************)
EXTENDS RuleWorker, FiniteSetTheorems, TLAPS

-----------------------------------------------------------------------------
(* Sequences of whatever *)

Log(s) == \E S : s \in Seq(S)

LEMMA LogFacts ==
  ASSUME NEW s, Log(s)
  PROVE  /\ Len(s) \in Nat /\ DOMAIN s = 1..Len(s)
         /\ RangeOf(s) = {s[i] : i \in 1..Len(s)}
         /\ s # <<>> => Len(s) > 0 /\ Head(s) = s[1] /\ Head(s) \in RangeOf(s)
<1>1. PICK S : s \in Seq(S)
  BY DEF Log
<1> QED
  BY <1>1 DEF RangeOf

LEMMA EmptyLog == Log(<<>>) /\ RangeOf(<<>>) = {}
<1>1. <<>> \in Seq({})
  OBVIOUS
<1> QED
  BY <1>1 DEF Log, RangeOf

LEMMA LogAppend ==
  ASSUME NEW s, NEW x, Log(s)
  PROVE  /\ Log(Append(s, x))
         /\ Len(Append(s, x)) = Len(s) + 1
         /\ \A i \in 1..Len(s) : Append(s, x)[i] = s[i]
         /\ Append(s, x)[Len(s) + 1] = x
         /\ RangeOf(Append(s, x)) = RangeOf(s) \union {x}
<1>1. PICK S : s \in Seq(S)
  BY DEF Log
<1>2. s \in Seq(S \union {x})
  BY <1>1
<1>3. Append(s, x) \in Seq(S \union {x})
  BY <1>2
<1>4. /\ Log(Append(s, x)) /\ Len(Append(s, x)) = Len(s) + 1
      /\ \A i \in 1..Len(s) : Append(s, x)[i] = s[i]
      /\ Append(s, x)[Len(s) + 1] = x
  BY <1>2, <1>3 DEF Log
<1>5. RangeOf(Append(s, x)) = {Append(s, x)[i] : i \in 1..(Len(s) + 1)}
  BY <1>4, LogFacts
<1>6. RangeOf(s) = {s[i] : i \in 1..Len(s)} /\ Len(s) \in Nat
  BY LogFacts
<1>7. 1..(Len(s) + 1) = (1..Len(s)) \union {Len(s) + 1}
  BY <1>6
<1> QED
  BY <1>4, <1>5, <1>6, <1>7

LEMMA LogTail ==
  ASSUME NEW s, Log(s), s # <<>>
  PROVE  /\ Log(Tail(s))
         /\ Len(Tail(s)) = Len(s) - 1
         /\ \A i \in 1..(Len(s) - 1) : Tail(s)[i] = s[i + 1]
         /\ RangeOf(Tail(s)) \subseteq RangeOf(s)
<1>1. PICK S : s \in Seq(S)
  BY DEF Log
<1>2. Tail(s) \in Seq(S)
  BY <1>1
<1>3. /\ Log(Tail(s)) /\ Len(Tail(s)) = Len(s) - 1
      /\ \A i \in 1..(Len(s) - 1) : Tail(s)[i] = s[i + 1]
  BY <1>1, <1>2 DEF Log
<1>4. RangeOf(Tail(s)) = {Tail(s)[i] : i \in 1..(Len(s) - 1)}
  BY <1>3, LogFacts
<1>5. RangeOf(s) = {s[i] : i \in 1..Len(s)} /\ Len(s) \in Nat
  BY LogFacts
<1> QED
  BY <1>3, <1>4, <1>5

LEMMA LogConcat ==
  ASSUME NEW s, NEW t, Log(s), Log(t)
  PROVE  /\ Log(s \o t)
         /\ Len(s \o t) = Len(s) + Len(t)
         /\ \A i \in 1..Len(s) : (s \o t)[i] = s[i]
         /\ \A i \in 1..Len(t) : (s \o t)[Len(s) + i] = t[i]
         /\ \A i \in 1..Len(s \o t) :
               i \in 1..Len(s) \/ \E j \in 1..Len(t) : i = Len(s) + j
<1>1. PICK S : s \in Seq(S)
  BY DEF Log
<1>2. PICK T : t \in Seq(T)
  BY DEF Log
<1>3. s \in Seq(S \union T) /\ t \in Seq(S \union T)
  BY <1>1, <1>2
<1>4. s \o t \in Seq(S \union T)
  BY <1>3
<1>5. Len(s) \in Nat /\ Len(t) \in Nat
  BY LogFacts
<1>6. Len(s \o t) = Len(s) + Len(t)
  BY <1>3
<1>7. \A i \in 1..Len(s) : (s \o t)[i] = s[i]
  BY <1>3, <1>5
<1>8. \A i \in 1..Len(t) : (s \o t)[Len(s) + i] = t[i]
  BY <1>3, <1>5
<1>9. \A i \in 1..(Len(s) + Len(t)) :
         i \in 1..Len(s) \/ \E j \in 1..Len(t) : i = Len(s) + j
  <2> SUFFICES ASSUME NEW i \in 1..(Len(s) + Len(t)), i \notin 1..Len(s)
               PROVE  \E j \in 1..Len(t) : i = Len(s) + j
    OBVIOUS
  <2>1. i - Len(s) \in 1..Len(t) /\ i = Len(s) + (i - Len(s))
    BY <1>5
  <2> QED
    BY <2>1
<1> QED
  BY <1>4, <1>6, <1>7, <1>8, <1>9 DEF Log

-----------------------------------------------------------------------------
(* Shapes of the state *)

ShapeInv ==
    /\ Log(created) /\ Log(eventRows) /\ Log(incidents) /\ Log(needsVlm)
    /\ todo = [w \in Worker |-> todo[w]]
    /\ \A w \in Worker : Log(todo[w])
    /\ contexts = [w \in Worker |-> contexts[w]]
    /\ forwarded = [w \in Worker |-> forwarded[w]]
    /\ lives \in [Worker -> Nat]
    /\ faults \in Nat

LEMMA LogOne == ASSUME NEW x PROVE Log(<<x>>) /\ Len(<<x>>) = 1 /\ <<x>>[1] = x
<1>1. <<x>> \in Seq({x})
  OBVIOUS
<1> QED
  BY <1>1 DEF Log

LEMMA LogOutputs ==
  ASSUME NEW r, NEW k, NEW ctx
  PROVE  Log(Outputs(r, k, ctx))
<1> DEFINE a == Action(r, k, ctx)
           out == ActionEvent(a)
           E == [op |-> "event", what |-> out]
           P == [op |-> "publish", what |-> out]
           F == [op |-> "forward", what |-> out]
<1>1. Log(<<[op |-> "incident", what |-> a]>>)
  BY LogOne
<1>2. Log(<<E, P, F>>)
  <2> HIDE DEF E, P, F
  <2>1. <<E, P, F>> \in Seq({E, P, F})
    OBVIOUS
  <2> QED
    BY <2>1 DEF Log
<1> QED
  BY <1>1, <1>2 DEF Outputs

\* What Take leaves to do: the forward of the message, the outputs of the rules, the ack.
OutputsIf(fires, r, k, ctx) == IF fires THEN Outputs(r, k, ctx) ELSE <<>>

LEMMA TakeTodo ==
  ASSUME ShapeInv, NEW w \in Worker, Take(w)
  PROVE  LET e == Head(created)
             k == TrackKey(e)
             ctx == ContextWith(w, e)
             new == NewlyFired(w, k, ctx)
         IN  /\ created # <<>>
             /\ created' = Tail(created)
             /\ todo' = [todo EXCEPT ![w] =
                    <<[op |-> "forward", what |-> e]>>
                    \o OutputsIf(Suspicious \in new, Suspicious, k, ctx)
                    \o OutputsIf(Bypass \in new, Bypass, k, ctx)
                    \o OutputsIf(CameraHealth \in new, CameraHealth, k, ctx)
                    \o <<[op |-> "ack", what |-> e]>>]
             /\ contexts' = [contexts EXCEPT ![w] =
                    [x \in DOMAIN contexts[w] \union {k} |->
                        IF x = k THEN ctx ELSE contexts[w][x]]]
             /\ UNCHANGED <<arrived, forwarded, eventRows, incidents, needsVlm, handled,
                            lives, faults>>
  BY DEF Take, OutputsIf

LEMMA LogOutputsIf ==
  ASSUME NEW fires, NEW r, NEW k, NEW ctx
  PROVE  Log(OutputsIf(fires, r, k, ctx))
  BY LogOutputs, EmptyLog DEF OutputsIf

LEMMA LogTaken ==
  ASSUME NEW e, NEW x, NEW A, NEW B, NEW C, Log(A), Log(B), Log(C)
  PROVE  Log(<<e>> \o A \o B \o C \o <<x>>)
  BY LogOne, LogConcat

LEMMA AttemptShape ==
  ASSUME ShapeInv, NEW log, NEW next, NEW x, Log(log),
         \/ next = Append(log, x) /\ UNCHANGED faults
         \/ next = log /\ Fault
  PROVE  Log(next) /\ faults' \in Nat /\ (faults' = 0 => faults = 0 /\ next = Append(log, x))
<1>1. Log(Append(log, x))
  BY LogAppend
<1>2. faults \in Nat
  BY DEF ShapeInv
<1>3. CASE next = Append(log, x) /\ UNCHANGED faults
  BY <1>1, <1>2, <1>3
<1>4. CASE next = log /\ Fault
  <2>1. faults' = faults + 1
    BY <1>4 DEF Fault
  <2> QED
    BY <1>2, <1>4, <2>1
<1> QED
  BY <1>3, <1>4

LEMMA PopShape ==
  ASSUME ShapeInv, NEW w \in Worker, todo[w] # <<>>, Pop(w)
  PROVE  /\ todo' = [v \in Worker |-> todo'[v]]
         /\ \A v \in Worker : Log(todo'[v])
         /\ \A v \in Worker : v # w => todo'[v] = todo[v]
         /\ todo'[w] = Tail(todo[w])
  BY LogTail DEF ShapeInv, Pop

LEMMA ShapeInit == Init => ShapeInv
  BY EmptyLog DEF Init, ShapeInv

LEMMA ShapeNext == ShapeInv /\ [Next]_vars => ShapeInv'
<1> SUFFICES ASSUME ShapeInv, [Next]_vars PROVE ShapeInv'
  OBVIOUS
<1> USE DEF ShapeInv
<1>1. ASSUME NEW e \in Feed, Arrive(e) PROVE ShapeInv'
  BY <1>1, LogAppend DEF Arrive, memory
<1>2. ASSUME NEW w \in Worker, Take(w) PROVE ShapeInv'
  <2> DEFINE e == Head(created)
             k == TrackKey(e)
             ctx == ContextWith(w, e)
             new == NewlyFired(w, k, ctx)
             A == OutputsIf(Suspicious \in new, Suspicious, k, ctx)
             B == OutputsIf(Bypass \in new, Bypass, k, ctx)
             C == OutputsIf(CameraHealth \in new, CameraHealth, k, ctx)
             list == <<[op |-> "forward", what |-> e]>> \o A \o B \o C
                     \o <<[op |-> "ack", what |-> e]>>
  <2>1. Log(list)
    BY LogOutputsIf, LogTaken
  <2>2. todo' = [todo EXCEPT ![w] = list]
    BY <1>2, TakeTodo
  <2>3. Log(created')
    <3>1. created # <<>> /\ created' = Tail(created) /\ Log(created)
      BY <1>2, TakeTodo
    <3>2. Log(Tail(created))
      BY <3>1, LogTail
    <3> QED
      BY <3>1, <3>2
  <2>4. contexts' = [v \in Worker |-> contexts'[v]]
    BY <1>2, TakeTodo
  <2>5. UNCHANGED <<forwarded, eventRows, incidents, needsVlm, lives, faults>>
    BY <1>2, TakeTodo
  <2> HIDE DEF list
  <2>6. todo' = [v \in Worker |-> todo'[v]] /\ \A v \in Worker : Log(todo'[v])
    BY <2>1, <2>2
  <2> QED
    BY <2>3, <2>4, <2>5, <2>6
<1>3. ASSUME NEW w \in Worker, Forward(w) PROVE ShapeInv'
  <2>1. Pop(w) /\ todo[w] # <<>>
    BY <1>3 DEF Forward, Doing
  <2>2. Log(needsVlm') /\ faults' \in Nat
    BY <1>3, AttemptShape DEF Forward, Attempt
  <2>3. forwarded' = [v \in Worker |-> forwarded'[v]]
    BY <1>3 DEF Forward
  <2> QED
    BY <1>3, <2>1, <2>2, <2>3, PopShape DEF Forward
<1>4. ASSUME NEW w \in Worker, WriteIncident(w) PROVE ShapeInv'
  BY <1>4, AttemptShape, PopShape DEF WriteIncident, Attempt, Doing, memory
<1>5. ASSUME NEW w \in Worker, WriteEvent(w) PROVE ShapeInv'
  BY <1>5, AttemptShape, PopShape DEF WriteEvent, Attempt, Doing, memory
<1>6. ASSUME NEW w \in Worker, Republish(w) PROVE ShapeInv'
  BY <1>6, AttemptShape, PopShape DEF Republish, Attempt, Doing, memory
<1>7. ASSUME NEW w \in Worker, Ack(w) PROVE ShapeInv'
  BY <1>7, PopShape DEF Ack, Doing, memory
<1>8. ASSUME NEW w \in Worker, Restart(w) PROVE ShapeInv'
  <2>1. lives' \in [Worker -> Nat]
    BY <1>8 DEF Restart
  <2>2. todo' = [v \in Worker |-> todo'[v]] /\ \A v \in Worker : Log(todo'[v])
    BY <1>8, EmptyLog DEF Restart
  <2>3. /\ contexts' = [v \in Worker |-> contexts'[v]]
        /\ forwarded' = [v \in Worker |-> forwarded'[v]]
    BY <1>8 DEF Restart
  <2>4. UNCHANGED <<created, eventRows, incidents, needsVlm, faults>>
    BY <1>8 DEF Restart
  <2> QED
    BY <2>1, <2>2, <2>3, <2>4
<1>9. CASE UNCHANGED vars
  BY <1>9 DEF vars, memory
<1> QED
  BY <1>1, <1>2, <1>3, <1>4, <1>5, <1>6, <1>7, <1>8, <1>9 DEF Next, Process

-----------------------------------------------------------------------------
(* Dedup of the forwards *)

\* A message is from an engine instance so far, and the present one remembers its key.
Remembered ==
    \A i \in DOMAIN needsVlm : \E w \in Worker, n \in Nat :
        /\ needsVlm[i].engine = <<w, n>>
        /\ n <= lives[w]
        /\ n = lives[w] => ForwardKey(needsVlm[i].event) \in forwarded[w]

DedupInv == ShapeInv /\ Remembered /\ ForwardsOncePerEngine

LEMMA SameKey ==
  ASSUME NEW x, NEW y, SameHypothesis(x, y)
  PROVE  ForwardKey(x) = ForwardKey(y)
  BY DEF SameHypothesis, ForwardKey

LEMMA DedupNext == DedupInv /\ [Next]_vars => DedupInv'
<1> SUFFICES ASSUME DedupInv, [Next]_vars PROVE DedupInv'
  OBVIOUS
<1>0. ShapeInv /\ Remembered /\ ForwardsOncePerEngine /\ ShapeInv'
  BY ShapeNext DEF DedupInv
<1> SUFFICES Remembered' /\ ForwardsOncePerEngine'
  BY <1>0 DEF DedupInv
<1>1. CASE UNCHANGED <<needsVlm, lives, forwarded>>
  BY <1>0, <1>1 DEF Remembered, ForwardsOncePerEngine
<1>2. ASSUME NEW w \in Worker, Forward(w), needsVlm' # needsVlm
      PROVE  Remembered' /\ ForwardsOncePerEngine'
  <2> DEFINE m == [event |-> Now(w), engine |-> <<w, lives[w]>>]
             n == Len(needsVlm)
  <2>1. /\ needsVlm' = Append(needsVlm, m)
        /\ ForwardKey(Now(w)) \notin forwarded[w]
        /\ forwarded' = [forwarded EXCEPT ![w] = @ \union {ForwardKey(Now(w))}]
        /\ UNCHANGED lives
    BY <1>2 DEF Forward, ShouldForward, Attempt
  <2>2. Log(needsVlm) /\ lives[w] \in Nat
    BY <1>0 DEF ShapeInv
  <2>3. n \in Nat /\ DOMAIN needsVlm = 1..n
    BY <2>2, LogFacts
  <2>4. /\ Log(needsVlm')
        /\ Len(needsVlm') = n + 1
        /\ \A i \in 1..n : needsVlm'[i] = needsVlm[i]
        /\ needsVlm'[n + 1] = m
    BY <2>1, <2>2, LogAppend
  <2>5. DOMAIN needsVlm' = 1..(n + 1)
    BY <2>4, LogFacts
  <2>6. m.event = Now(w) /\ m.engine = <<w, lives[w]>>
    OBVIOUS
  <2> HIDE DEF m, n
  <2>7. /\ \A v \in Worker : forwarded[v] \subseteq forwarded'[v]
        /\ ForwardKey(Now(w)) \in forwarded'[w]
    BY <1>0, <2>1 DEF ShapeInv
  <2>8. Remembered'
    <3>0. lives' = lives
      BY <2>1
    <3> SUFFICES ASSUME NEW i \in 1..(n + 1)
                 PROVE  \E v \in Worker, k \in Nat :
                           /\ needsVlm'[i].engine = <<v, k>>
                           /\ k <= lives'[v]
                           /\ k = lives'[v] => ForwardKey(needsVlm'[i].event) \in forwarded'[v]
      BY <2>5 DEF Remembered
    <3>1. CASE i = n + 1
      BY <2>2, <2>4, <2>6, <2>7, <3>0, <3>1
    <3>2. CASE i \in 1..n
      <4>1. PICK v \in Worker, k \in Nat :
               /\ needsVlm[i].engine = <<v, k>>
               /\ k <= lives[v]
               /\ k = lives[v] => ForwardKey(needsVlm[i].event) \in forwarded[v]
        BY <1>0, <2>3, <3>2 DEF Remembered
      <4> QED
        BY <2>4, <2>7, <3>0, <3>2, <4>1
    <3> QED
      BY <2>3, <3>1, <3>2
  <2>9. ForwardsOncePerEngine'
    <3> SUFFICES ASSUME NEW i \in 1..(n + 1), NEW j \in 1..(n + 1), i < j,
                        needsVlm'[i].engine = needsVlm'[j].engine,
                        SameHypothesis(needsVlm'[i].event, needsVlm'[j].event)
                 PROVE  FALSE
      BY <2>5 DEF ForwardsOncePerEngine
    <3>1. i \in 1..n
      BY <2>3
    <3>2. CASE j \in 1..n
      BY <1>0, <2>3, <2>4, <3>1, <3>2 DEF ForwardsOncePerEngine
    <3>3. CASE j = n + 1
      <4>1. PICK v \in Worker, k \in Nat :
               /\ needsVlm[i].engine = <<v, k>>
               /\ k = lives[v] => ForwardKey(needsVlm[i].event) \in forwarded[v]
        BY <1>0, <2>3, <3>1 DEF Remembered
      <4>2. v = w /\ k = lives[w]
        BY <2>4, <2>6, <3>1, <3>3, <4>1
      <4>3. ForwardKey(needsVlm[i].event) = ForwardKey(Now(w))
        BY <2>4, <2>6, <3>1, <3>3, SameKey
      <4> QED
        BY <2>1, <4>1, <4>2, <4>3
    <3> QED
      BY <2>3, <3>2, <3>3
  <2> QED
    BY <2>8, <2>9
<1>3. ASSUME NEW w \in Worker, Forward(w), needsVlm' = needsVlm
      PROVE  Remembered' /\ ForwardsOncePerEngine'
  <2>1. UNCHANGED <<needsVlm, lives>> /\ \A v \in Worker : forwarded[v] \subseteq forwarded'[v]
    BY <1>0, <1>3 DEF Forward, ShapeInv
  <2> QED
    BY <1>0, <2>1 DEF Remembered, ForwardsOncePerEngine
<1>4. ASSUME NEW w \in Worker, Restart(w) PROVE Remembered' /\ ForwardsOncePerEngine'
  <2>1. /\ lives' = [lives EXCEPT ![w] = @ + 1]
        /\ UNCHANGED needsVlm
        /\ \A v \in Worker : v # w => forwarded'[v] = forwarded[v]
    BY <1>0, <1>4 DEF Restart, ShapeInv
  <2>2. \A v \in Worker : lives[v] \in Nat /\ lives'[v] = IF v = w THEN lives[v] + 1 ELSE lives[v]
    BY <1>0, <2>1 DEF ShapeInv
  <2> SUFFICES ASSUME NEW i \in DOMAIN needsVlm
               PROVE  \E v \in Worker, k \in Nat :
                         /\ needsVlm[i].engine = <<v, k>>
                         /\ k <= lives'[v]
                         /\ k = lives'[v] => ForwardKey(needsVlm[i].event) \in forwarded'[v]
    BY <1>0, <2>1 DEF Remembered, ForwardsOncePerEngine
  <2>3. PICK v \in Worker, k \in Nat :
           /\ needsVlm[i].engine = <<v, k>>
           /\ k <= lives[v]
           /\ k = lives[v] => ForwardKey(needsVlm[i].event) \in forwarded[v]
    BY <1>0 DEF Remembered
  <2>4. /\ k <= lives'[v]
        /\ k = lives'[v] => v # w
    BY <2>2, <2>3
  <2> QED
    BY <2>1, <2>2, <2>3, <2>4
<1> QED
  BY <1>1, <1>2, <1>3, <1>4
     DEF Next, Process, Arrive, Take, WriteIncident, WriteEvent, Republish, Ack, vars, memory

\* One engine instance forwards a hypothesis (camera, lead subject, type, clip) once, whatever
\* arrives in whatever order and wherever processes die or publishes fail.
THEOREM ForwardedOnce == Spec => []ForwardsOncePerEngine
<1>1. Init => DedupInv
  BY ShapeInit DEF Init, DedupInv, Remembered, ForwardsOncePerEngine
<1>2. DedupInv => ForwardsOncePerEngine
  BY DEF DedupInv
<1> QED
  BY <1>1, <1>2, DedupNext, PTL DEF Spec

-----------------------------------------------------------------------------
(* Where events come from, and what incidents rest on *)

\* An event that a rule made: it shows nothing itself, and is about a subject of the feed.
RuleEvent(e) ==
    /\ ~e.item
    /\ e.zoneTypes = {}
    /\ \E r \in Rule, f \in Feed : e.id = OutputId(r, TrackKey(f)) /\ e.tracks = <<TrackKey(f)>>

Known(e) == e \in Feed \/ RuleEvent(e)

KnownContext(ctx) ==
    /\ \E c, S, l : ctx \in [camera : {c}, seen : {S}, latest : {l}]
    /\ ctx.latest \in ctx.seen
    /\ \A e \in ctx.seen : Known(e)

Explained(x) ==
    /\ \E e \in Linked(x) : "exit" \in e.zoneTypes
    /\ \E e \in Linked(x) : e.item
    /\ \A e \in Linked(x) : "billing_counter" \notin e.zoneTypes

KnownOutput(o) ==
    /\ o.op = "incident" => Explained(o.what)
    /\ o.op # "incident" => Known(o.what)

KnownOutputs(s) == \A i \in 1..Len(s) : KnownOutput(s[i])

LEMMA KnownKey ==
  ASSUME NEW e, Known(e)
  PROVE  /\ \E f \in Feed : TrackKey(e) = TrackKey(f)
         /\ e.tracks # <<>> => Head(e.tracks) # Unknown
<1>1. CASE e \in Feed
  BY <1>1, FeedAssumption DEF TrackKey
<1>2. CASE RuleEvent(e)
  <2>1. PICK f \in Feed : e.tracks = <<TrackKey(f)>>
    BY <1>2 DEF RuleEvent
  <2>2. e.tracks # <<>> /\ Head(e.tracks) = TrackKey(f)
    <3> DEFINE k == TrackKey(f)
    <3> HIDE DEF k
    <3>1. <<k>> # <<>> /\ Head(<<k>>) = k
      OBVIOUS
    <3> QED
      BY <2>1, <3>1 DEF k
  <2>3. TrackKey(e) = TrackKey(f)
    BY <2>2 DEF TrackKey
  <2> QED
    BY <2>2, <2>3, FeedAssumption
<1> QED
  BY <1>1, <1>2 DEF Known

LEMMA KnownAction ==
  ASSUME NEW r \in Rule, NEW f \in Feed, NEW ctx
  PROVE  RuleEvent(ActionEvent(Action(r, TrackKey(f), ctx)))
  BY DEF RuleEvent, ActionEvent, Action, OutputId

\* A rule that fires for billing rests on events of the feed: those of rules show nothing,
\* and no other event has the id of one that was seen.
LEMMA BypassExplained ==
  ASSUME NEW ctx, NEW k, KnownContext(ctx), Holds(Bypass, ctx)
  PROVE  Explained(Action(Bypass, k, ctx))
<1> DEFINE x == Action(Bypass, k, ctx)
<1>1. x.sources = {e.id : e \in ctx.seen}
  BY DEF Action
<1>2. PersonHasItem(ctx) /\ ~VisitedBilling(ctx) /\ MovedToZone(ctx, "exit")
  BY DEF Holds, Suspicious, Bypass, CameraHealth
<1>3. \A e \in Feed : e \in Linked(x) <=> \E g \in ctx.seen : e.id = g.id
  BY <1>1 DEF Linked
<1>4. \A e \in Linked(x) : e \in Feed /\ e \in ctx.seen
  <2> SUFFICES ASSUME NEW e \in Feed, NEW g \in ctx.seen, e.id = g.id
               PROVE  e \in ctx.seen
    BY <1>3 DEF Linked
  <2>1. CASE g \in Feed
    BY <2>1, FeedAssumption
  <2>2. CASE RuleEvent(g)
    BY <2>2, FeedAssumption DEF RuleEvent
  <2> QED
    BY <2>1, <2>2 DEF KnownContext, Known
<1>5. \E e \in Linked(x) : "exit" \in e.zoneTypes
  <2>1. ctx.latest \in ctx.seen /\ "exit" \in ctx.latest.zoneTypes
    BY <1>2 DEF MovedToZone, KnownContext
  <2>2. ctx.latest \in Feed
    BY <2>1 DEF KnownContext, Known, RuleEvent
  <2> QED
    BY <1>3, <2>1, <2>2
<1>6. \E e \in Linked(x) : e.item
  <2>1. PICK e \in ctx.seen : e.item
    BY <1>2 DEF PersonHasItem
  <2>2. e \in Feed
    BY <2>1 DEF KnownContext, Known, RuleEvent
  <2> QED
    BY <1>3, <2>1, <2>2
<1>7. \A e \in Linked(x) : "billing_counter" \notin e.zoneTypes
  BY <1>2, <1>4 DEF VisitedBilling
<1> QED
  BY <1>5, <1>6, <1>7 DEF Explained

\* What a fired rule puts out: the incident, or its event three times, the row first.
IncidentOut(s, a) == Len(s) = 1 /\ s[1] = [op |-> "incident", what |-> a]
EventOut(s, a) ==
    /\ Len(s) = 3
    /\ s[1] = [op |-> "event", what |-> ActionEvent(a)]
    /\ s[2] = [op |-> "publish", what |-> ActionEvent(a)]
    /\ s[3] = [op |-> "forward", what |-> ActionEvent(a)]

LEMMA OutputList ==
  ASSUME NEW r, NEW k, NEW ctx
  PROVE  /\ r = Bypass => IncidentOut(Outputs(r, k, ctx), Action(r, k, ctx))
         /\ r # Bypass => EventOut(Outputs(r, k, ctx), Action(r, k, ctx))
<1> DEFINE a == Action(r, k, ctx)
           out == ActionEvent(a)
           E == [op |-> "event", what |-> out]
           P == [op |-> "publish", what |-> out]
           F == [op |-> "forward", what |-> out]
           I == [op |-> "incident", what |-> a]
<1>1. /\ r = Bypass => Outputs(r, k, ctx) = <<I>>
      /\ r # Bypass => Outputs(r, k, ctx) = <<E, P, F>>
  BY DEF Outputs, CreatesIncident
<1> HIDE DEF E, P, F, I
<1>2. /\ Len(<<I>>) = 1 /\ <<I>>[1] = I
      /\ Len(<<E, P, F>>) = 3
      /\ <<E, P, F>>[1] = E /\ <<E, P, F>>[2] = P /\ <<E, P, F>>[3] = F
  OBVIOUS
<1> QED
  BY <1>1, <1>2 DEF E, P, F, I, IncidentOut, EventOut

LEMMA KnownOutputList ==
  ASSUME NEW r \in Rule, NEW f \in Feed, NEW ctx, KnownContext(ctx), Holds(r, ctx)
  PROVE  KnownOutputs(Outputs(r, TrackKey(f), ctx))
<1> DEFINE a == Action(r, TrackKey(f), ctx)
           s == Outputs(r, TrackKey(f), ctx)
<1>1. CASE r = Bypass
  <2>1. IncidentOut(s, a)
    BY <1>1, OutputList
  <2>2. Explained(a)
    BY <1>1, BypassExplained
  <2> HIDE DEF s, a
  <2> QED
    BY <2>1, <2>2 DEF IncidentOut, KnownOutputs, KnownOutput, s
<1>2. CASE r # Bypass
  <2>1. EventOut(s, a)
    BY <1>2, OutputList
  <2>2. Known(ActionEvent(a))
    BY KnownAction DEF Known
  <2> HIDE DEF s, a
  <2>3. \A i \in 1..3 : s[i].op # "incident" /\ s[i].what = ActionEvent(a)
    BY <2>1 DEF EventOut
  <2> QED
    BY <2>1, <2>2, <2>3 DEF EventOut, KnownOutputs, KnownOutput, s
<1> QED
  BY <1>1, <1>2

LEMMA KnownConcat ==
  ASSUME NEW s, NEW t, Log(s), Log(t), KnownOutputs(s), KnownOutputs(t)
  PROVE  KnownOutputs(s \o t)
<1> SUFFICES ASSUME NEW i \in 1..Len(s \o t) PROVE KnownOutput((s \o t)[i])
  BY DEF KnownOutputs
<1>1. CASE i \in 1..Len(s)
  BY <1>1, LogConcat DEF KnownOutputs
<1>2. CASE \E j \in 1..Len(t) : i = Len(s) + j
  BY <1>2, LogConcat DEF KnownOutputs
<1> QED
  BY <1>1, <1>2, LogConcat

LEMMA KnownTail ==
  ASSUME NEW s, Log(s), s # <<>>, KnownOutputs(s)
  PROVE  KnownOutputs(Tail(s)) /\ KnownOutput(Head(s))
<1>1. /\ Len(s) \in Nat /\ Len(s) > 0 /\ Head(s) = s[1]
      /\ Len(Tail(s)) = Len(s) - 1
      /\ \A i \in 1..(Len(s) - 1) : Tail(s)[i] = s[i + 1]
  BY LogFacts, LogTail
<1>2. \A i \in 1..(Len(s) - 1) : i + 1 \in 1..Len(s)
  BY <1>1
<1>3. 1 \in 1..Len(s)
  BY <1>1
<1> QED
  BY <1>1, <1>2, <1>3 DEF KnownOutputs

KnownInv ==
    /\ ShapeInv
    /\ \A e \in RangeOf(created) : Known(e)
    /\ \A w \in Worker : KnownOutputs(todo[w])
    /\ \A w \in Worker : \A k \in DOMAIN contexts[w] : KnownContext(contexts[w][k])
    /\ \A x \in RangeOf(incidents) : Explained(x)
    /\ \A x \in Forwarded : Known(x)

LEMMA ContextKnown ==
  ASSUME NEW w \in Worker, NEW e, Known(e),
         \A k \in DOMAIN contexts[w] : KnownContext(contexts[w][k])
  PROVE  KnownContext(ContextWith(w, e))
<1>1. KnownContext(NewContext(e))
  BY DEF KnownContext, NewContext, TrackEvent
<1>2. ASSUME NEW ctx, KnownContext(ctx) PROVE KnownContext(AddTo(ctx, e))
  <2>1. PICK c, S, l : ctx \in [camera : {c}, seen : {S}, latest : {l}]
    BY <1>2 DEF KnownContext
  <2> DEFINE T == S \union {e}
             L == IF e.ts >= l.ts THEN e ELSE l
  <2>2. ctx.seen = S /\ ctx.latest = l
    BY <2>1
  <2>3. AddTo(ctx, e) = [ctx EXCEPT !.seen = T, !.latest = L]
    <3>1. AddTo(ctx, e) = [ctx EXCEPT !.seen = ctx.seen \union {e},
                                      !.latest = IF e.ts >= ctx.latest.ts THEN e ELSE ctx.latest]
      BY Zenon DEF AddTo, TrackEvent
    <3> QED
      BY <2>2, <3>1, Zenon DEF T, L
  <2>4. L \in {e, l}
    OBVIOUS
  <2> HIDE DEF T, L
  <2>5. AddTo(ctx, e) \in [camera : {c}, seen : {T}, latest : {L}]
    BY <2>1, <2>3
  <2>6. AddTo(ctx, e).seen = T /\ AddTo(ctx, e).latest = L
    BY <2>5
  <2>7. l \in S /\ \A x \in S : Known(x)
    BY <1>2, <2>2 DEF KnownContext
  <2> QED
    BY <2>4, <2>5, <2>6, <2>7 DEF KnownContext, T
<1> QED
  BY <1>1, <1>2 DEF ContextWith

LEMMA KnownIf ==
  ASSUME NEW fires, NEW r \in Rule, NEW f \in Feed, NEW ctx, KnownContext(ctx),
         fires => Holds(r, ctx)
  PROVE  KnownOutputs(OutputsIf(fires, r, TrackKey(f), ctx))
<1>1. KnownOutputs(<<>>)
  BY DEF KnownOutputs
<1> QED
  BY <1>1, KnownOutputList DEF OutputsIf

LEMMA KnownTaken ==
  ASSUME NEW e, NEW x, NEW A, NEW B, NEW C, Log(A), Log(B), Log(C),
         KnownOutput(e), KnownOutput(x), KnownOutputs(A), KnownOutputs(B), KnownOutputs(C)
  PROVE  KnownOutputs(<<e>> \o A \o B \o C \o <<x>>)
<1>1. KnownOutputs(<<e>>) /\ KnownOutputs(<<x>>)
  BY LogOne DEF KnownOutputs
<1>2. Log(<<e>> \o A) /\ KnownOutputs(<<e>> \o A)
  BY <1>1, LogOne, LogConcat, KnownConcat
<1>3. Log(<<e>> \o A \o B) /\ KnownOutputs(<<e>> \o A \o B)
  BY <1>2, LogConcat, KnownConcat
<1>4. Log(<<e>> \o A \o B \o C) /\ KnownOutputs(<<e>> \o A \o B \o C)
  BY <1>3, LogConcat, KnownConcat
<1> QED
  BY <1>1, <1>4, LogOne, KnownConcat

LEMMA KnownPop ==
  ASSUME KnownInv, NEW w \in Worker, todo[w] # <<>>, Pop(w)
  PROVE  (\A v \in Worker : KnownOutputs(todo'[v])) /\ KnownOutput(Head(todo[w]))
<1>1. ShapeInv /\ Log(todo[w]) /\ \A v \in Worker : KnownOutputs(todo[v])
  BY DEF KnownInv, ShapeInv
<1>2. KnownOutputs(Tail(todo[w])) /\ KnownOutput(Head(todo[w]))
  BY <1>1, KnownTail
<1> QED
  BY <1>1, <1>2, PopShape

LEMMA KnownNext == KnownInv /\ [Next]_vars => KnownInv'
<1> SUFFICES ASSUME KnownInv, [Next]_vars PROVE KnownInv'
  OBVIOUS
<1>0. /\ ShapeInv
      /\ \A e \in RangeOf(created) : Known(e)
      /\ \A w \in Worker : KnownOutputs(todo[w])
      /\ \A w \in Worker : \A k \in DOMAIN contexts[w] : KnownContext(contexts[w][k])
      /\ \A x \in RangeOf(incidents) : Explained(x)
      /\ \A x \in Forwarded : Known(x)
      /\ Log(created) /\ Log(incidents) /\ Log(needsVlm)
      /\ \A w \in Worker : Log(todo[w])
  BY DEF KnownInv, ShapeInv
<1>s. ShapeInv'
  BY <1>0, ShapeNext
<1>1. ASSUME NEW e \in Feed, Arrive(e) PROVE KnownInv'
  <2>1. RangeOf(created') = RangeOf(created) \union {e}
    BY <1>0, <1>1, LogAppend DEF Arrive
  <2>2. Known(e)
    BY DEF Known
  <2> QED
    BY <1>0, <1>s, <1>1, <2>1, <2>2 DEF Arrive, memory, KnownInv, Forwarded
<1>2. ASSUME NEW w \in Worker, Take(w) PROVE KnownInv'
  <2> DEFINE e == Head(created)
             k == TrackKey(e)
             ctx == ContextWith(w, e)
             new == NewlyFired(w, k, ctx)
             A == OutputsIf(Suspicious \in new, Suspicious, k, ctx)
             B == OutputsIf(Bypass \in new, Bypass, k, ctx)
             C == OutputsIf(CameraHealth \in new, CameraHealth, k, ctx)
             fwd == [op |-> "forward", what |-> e]
             ack == [op |-> "ack", what |-> e]
  <2>1. /\ created # <<>>
        /\ created' = Tail(created)
        /\ todo' = [todo EXCEPT ![w] = <<fwd>> \o A \o B \o C \o <<ack>>]
        /\ contexts' = [contexts EXCEPT ![w] =
               [x \in DOMAIN contexts[w] \union {k} |-> IF x = k THEN ctx ELSE contexts[w][x]]]
        /\ UNCHANGED <<incidents, needsVlm>>
    BY <1>0, <1>2, TakeTodo
  <2>2. Known(e)
    BY <1>0, <2>1, LogFacts
  <2>3. PICK f \in Feed : k = TrackKey(f)
    BY <2>2, KnownKey
  <2>4. KnownContext(ctx)
    BY <1>0, <2>2, ContextKnown
  <2>5. \A r \in Rule : r \in new => Holds(r, ctx)
    BY DEF NewlyFired
  <2>6. Suspicious \in Rule /\ Bypass \in Rule /\ CameraHealth \in Rule
    BY DEF Rule
  <2>7. KnownOutputs(A) /\ KnownOutputs(B) /\ KnownOutputs(C)
    BY <2>3, <2>4, <2>5, <2>6, KnownIf
  <2>8. Log(A) /\ Log(B) /\ Log(C)
    BY LogOutputsIf
  <2>9. KnownOutput(fwd) /\ KnownOutput(ack)
    BY <2>2 DEF KnownOutput
  <2>10. KnownOutputs(<<fwd>> \o A \o B \o C \o <<ack>>)
    <3> HIDE DEF fwd, ack, A, B, C
    <3> QED
      BY <2>7, <2>8, <2>9, KnownTaken
  <2>11. \A v \in Worker : KnownOutputs(todo'[v])
    <3> DEFINE list == <<fwd>> \o A \o B \o C \o <<ack>>
    <3>1. KnownOutputs(list) /\ todo' = [todo EXCEPT ![w] = list]
      BY <2>1, <2>10
    <3> HIDE DEF list
    <3> QED
      BY <1>0, <3>1 DEF ShapeInv
  <2>12. \A v \in Worker : \A x \in DOMAIN contexts'[v] : KnownContext(contexts'[v][x])
    <3> HIDE DEF ctx, k
    <3> QED
      BY <1>0, <2>1, <2>4 DEF ShapeInv
  <2>13. \A x \in RangeOf(created') : Known(x)
    BY <1>0, <2>1, LogTail
  <2> QED
    BY <1>0, <1>s, <2>1, <2>11, <2>12, <2>13 DEF KnownInv, Forwarded
<1>3. ASSUME NEW w \in Worker, Forward(w) PROVE KnownInv'
  <2>1. todo[w] # <<>> /\ Pop(w) /\ Head(todo[w]).op = "forward"
    BY <1>3 DEF Forward, Doing
  <2>2. (\A v \in Worker : KnownOutputs(todo'[v])) /\ Known(Now(w))
    BY <2>1, KnownPop DEF KnownOutput, Now
  <2>3. \/ needsVlm' = needsVlm
        \/ needsVlm' = Append(needsVlm, [event |-> Now(w), engine |-> <<w, lives[w]>>])
    BY <1>3 DEF Forward, Attempt
  <2>4. \A x \in Forwarded' : Known(x)
    <3> DEFINE m == [event |-> Now(w), engine |-> <<w, lives[w]>>]
    <3>1. RangeOf(Append(needsVlm, m)) = RangeOf(needsVlm) \union {m}
      BY <1>0, LogAppend
    <3>2. m.event = Now(w)
      OBVIOUS
    <3> HIDE DEF m
    <3>3. needsVlm' = needsVlm \/ needsVlm' = Append(needsVlm, m)
      BY <2>3 DEF m
    <3> QED
      BY <1>0, <2>2, <3>1, <3>2, <3>3 DEF Forwarded
  <2> QED
    BY <1>0, <1>s, <1>3, <2>2, <2>4 DEF Forward, KnownInv
<1>4. ASSUME NEW w \in Worker, WriteIncident(w) PROVE KnownInv'
  <2>1. todo[w] # <<>> /\ Pop(w) /\ Head(todo[w]).op = "incident"
    BY <1>4 DEF WriteIncident, Doing
  <2>2. (\A v \in Worker : KnownOutputs(todo'[v])) /\ Explained(Now(w))
    BY <2>1, KnownPop DEF KnownOutput, Now
  <2>3. incidents' = incidents \/ incidents' = Append(incidents, Now(w))
    BY <1>4 DEF WriteIncident, Attempt
  <2>4. RangeOf(Append(incidents, Now(w))) = RangeOf(incidents) \union {Now(w)}
    BY <1>0, LogAppend
  <2>5. \A x \in RangeOf(incidents') : Explained(x)
    BY <1>0, <2>2, <2>3, <2>4
  <2> QED
    BY <1>0, <1>s, <1>4, <2>2, <2>5 DEF WriteIncident, memory, KnownInv, Forwarded
<1>5. ASSUME NEW w \in Worker, WriteEvent(w) PROVE KnownInv'
  <2>1. \A v \in Worker : KnownOutputs(todo'[v])
    BY <1>5, KnownPop DEF WriteEvent, Doing
  <2> QED
    BY <1>0, <1>s, <1>5, <2>1 DEF WriteEvent, memory, KnownInv, Forwarded
<1>6. ASSUME NEW w \in Worker, Republish(w) PROVE KnownInv'
  <2>1. todo[w] # <<>> /\ Pop(w) /\ Head(todo[w]).op = "publish"
    BY <1>6 DEF Republish, Doing
  <2>2. (\A v \in Worker : KnownOutputs(todo'[v])) /\ Known(Now(w))
    BY <2>1, KnownPop DEF KnownOutput, Now
  <2>3. created' = created \/ created' = Append(created, Now(w))
    BY <1>6 DEF Republish, Attempt
  <2>4. RangeOf(Append(created, Now(w))) = RangeOf(created) \union {Now(w)}
    BY <1>0, LogAppend
  <2>5. \A x \in RangeOf(created') : Known(x)
    BY <1>0, <2>2, <2>3, <2>4
  <2> QED
    BY <1>0, <1>s, <1>6, <2>2, <2>5 DEF Republish, memory, KnownInv, Forwarded
<1>7. ASSUME NEW w \in Worker, Ack(w) PROVE KnownInv'
  <2>1. \A v \in Worker : KnownOutputs(todo'[v])
    BY <1>7, KnownPop DEF Ack, Doing
  <2> QED
    BY <1>0, <1>s, <1>7, <2>1 DEF Ack, memory, KnownInv, Forwarded
<1>8. ASSUME NEW w \in Worker, Restart(w) PROVE KnownInv'
  <2>1. KnownOutputs(<<>>)
    BY DEF KnownOutputs
  <2>2. \A v \in Worker : KnownOutputs(todo'[v])
    BY <1>0, <1>8, <2>1 DEF Restart, ShapeInv
  <2>3. DOMAIN None = {}
    BY DEF None
  <2>4. \A v \in Worker : \A k \in DOMAIN contexts'[v] : KnownContext(contexts'[v][k])
    BY <1>0, <1>8, <2>3 DEF Restart, ShapeInv
  <2> QED
    BY <1>0, <1>s, <1>8, <2>2, <2>4 DEF Restart, KnownInv, Forwarded
<1>9. CASE UNCHANGED vars
  BY <1>0, <1>s, <1>9 DEF vars, memory, KnownInv, Forwarded
<1> QED
  BY <1>1, <1>2, <1>3, <1>4, <1>5, <1>6, <1>7, <1>8, <1>9 DEF Next, Process

LEMMA KnownInit == Init => KnownInv
<1> SUFFICES ASSUME Init PROVE KnownInv
  OBVIOUS
<1>1. KnownOutputs(<<>>) /\ DOMAIN None = {}
  BY DEF KnownOutputs, None
<1> QED
  BY <1>1, ShapeInit, EmptyLog DEF Init, KnownInv, Forwarded

\* An incident is explained by the events it links, whatever was seen in whatever order and
\* however often the engine consumed its own output.
THEOREM IncidentExplained == Spec => []IncidentIsExplained
<1>1. KnownInv => IncidentIsExplained
  BY DEF KnownInv, IncidentIsExplained, Explained
<1> QED
  BY <1>1, KnownInit, KnownNext, PTL DEF Spec

-----------------------------------------------------------------------------
(* The order of the outputs *)

Asked(e, sent) == \E x \in sent : SameHypothesis(x, e)

Preceded(s, i, op) == \E j \in 1..Len(s) : j < i /\ s[j].op = op /\ s[j].what = s[i].what

\* In a list of outputs the row of a rule's event precedes messages about it, and the forward
\* of a message precedes its ack, unless the row is there or the question is asked.
Lined(s, rows, sent) ==
    \A i \in 1..Len(s) :
        /\ s[i].op \in {"publish", "forward"} /\ s[i].what.by = "rule"
              => s[i].what \in rows \/ Preceded(s, i, "event")
        /\ s[i].op = "ack" /\ s[i].what.vlm
              => Asked(s[i].what, sent) \/ Preceded(s, i, "forward")

LEMMA LinedConcat ==
  ASSUME NEW s, NEW t, NEW rows, NEW sent, Log(s), Log(t),
         Lined(s, rows, sent), Lined(t, rows, sent)
  PROVE  Lined(s \o t, rows, sent)
<1> DEFINE u == s \o t
<1>1. /\ Len(s) \in Nat /\ Len(t) \in Nat /\ Len(u) = Len(s) + Len(t)
      /\ \A i \in 1..Len(s) : u[i] = s[i]
      /\ \A i \in 1..Len(t) : u[Len(s) + i] = t[i]
      /\ \A i \in 1..Len(u) : i \in 1..Len(s) \/ \E j \in 1..Len(t) : i = Len(s) + j
  <2>1. Len(s) \in Nat /\ Len(t) \in Nat
    BY LogFacts
  <2>2. /\ Len(u) = Len(s) + Len(t)
        /\ \A i \in 1..Len(s) : u[i] = s[i]
        /\ \A i \in 1..Len(t) : u[Len(s) + i] = t[i]
        /\ \A i \in 1..Len(u) : i \in 1..Len(s) \/ \E j \in 1..Len(t) : i = Len(s) + j
    BY LogConcat
  <2> HIDE DEF u
  <2> QED
    BY <2>1, <2>2
<1> HIDE DEF u
<1>2. ASSUME NEW i \in 1..Len(s), NEW op, Preceded(s, i, op) PROVE Preceded(u, i, op)
  <2>1. PICK j \in 1..Len(s) : j < i /\ s[j].op = op /\ s[j].what = s[i].what
    BY <1>2 DEF Preceded
  <2>2. u[j] = s[j] /\ u[i] = s[i]
    BY <1>1
  <2>3. j \in 1..Len(u)
    <3>1. Len(s) \in Nat /\ Len(t) \in Nat /\ Len(u) = Len(s) + Len(t)
      BY <1>1
    <3> QED
      BY <3>1
  <2> QED
    BY <2>1, <2>2, <2>3 DEF Preceded
<1>3. ASSUME NEW i \in 1..Len(t), NEW op, Preceded(t, i, op) PROVE Preceded(u, Len(s) + i, op)
  <2>1. PICK j \in 1..Len(t) : j < i /\ t[j].op = op /\ t[j].what = t[i].what
    BY <1>3 DEF Preceded
  <2>2. /\ Len(s) + j \in 1..Len(u) /\ Len(s) + j < Len(s) + i
        /\ u[Len(s) + j] = t[j] /\ u[Len(s) + i] = t[i]
    BY <1>1, <2>1
  <2> QED
    BY <2>1, <2>2 DEF Preceded
<1> SUFFICES ASSUME NEW i \in 1..Len(u)
             PROVE  /\ u[i].op \in {"publish", "forward"} /\ u[i].what.by = "rule"
                          => u[i].what \in rows \/ Preceded(u, i, "event")
                    /\ u[i].op = "ack" /\ u[i].what.vlm
                          => Asked(u[i].what, sent) \/ Preceded(u, i, "forward")
  BY DEF Lined, u
<1>4. CASE i \in 1..Len(s)
  <2>1. u[i] = s[i]
    BY <1>1, <1>4
  <2> QED
    BY <1>2, <1>4, <2>1 DEF Lined
<1>5. CASE \E j \in 1..Len(t) : i = Len(s) + j
  <2>1. PICK j \in 1..Len(t) : i = Len(s) + j
    BY <1>5
  <2>2. u[i] = t[j]
    BY <1>1, <2>1
  <2>3. \A op : Preceded(t, j, op) => Preceded(u, i, op)
    BY <1>3, <2>1
  <2> QED
    BY <2>1, <2>2, <2>3 DEF Lined
<1> QED
  BY <1>1, <1>4, <1>5

LEMMA LinedAck ==
  ASSUME NEW s, NEW e, NEW rows, NEW sent, Log(s), Lined(s, rows, sent),
         Len(s) > 0, s[1] = [op |-> "forward", what |-> e]
  PROVE  Lined(s \o <<[op |-> "ack", what |-> e]>>, rows, sent)
<1> DEFINE ack == [op |-> "ack", what |-> e]
           u == s \o <<ack>>
           n == Len(s)
<1>0. Log(<<ack>>) /\ Len(<<ack>>) = 1 /\ <<ack>>[1] = ack
  <2> HIDE DEF ack
  <2> QED
    BY LogOne
<1>1. /\ n \in Nat /\ Len(u) = n + 1
      /\ \A i \in 1..n : u[i] = s[i]
      /\ u[n + 1] = ack
  <2> HIDE DEF ack
  <2>1. /\ Len(u) = n + Len(<<ack>>)
        /\ \A i \in 1..n : u[i] = s[i]
        /\ \A i \in 1..Len(<<ack>>) : u[n + i] = <<ack>>[i]
    BY <1>0, LogConcat
  <2>2. n \in Nat
    BY LogFacts
  <2>3. u[n + 1] = <<ack>>[1]
    BY <1>0, <2>1
  <2> QED
    BY <1>0, <2>1, <2>2, <2>3
<1>2. ack.op = "ack" /\ ack.what = e /\ s[1].op = "forward" /\ s[1].what = e
  OBVIOUS
<1> HIDE DEF u, n, ack
<1> SUFFICES ASSUME NEW i \in 1..(n + 1)
             PROVE  /\ u[i].op \in {"publish", "forward"} /\ u[i].what.by = "rule"
                          => u[i].what \in rows \/ Preceded(u, i, "event")
                    /\ u[i].op = "ack" /\ u[i].what.vlm
                          => Asked(u[i].what, sent) \/ Preceded(u, i, "forward")
  BY <1>1 DEF Lined, u, ack
<1>3. CASE i \in 1..n
  <2>1. ASSUME NEW op, Preceded(s, i, op) PROVE Preceded(u, i, op)
    BY <1>1, <1>3, <2>1 DEF Preceded, n
  <2>2. u[i] = s[i]
    BY <1>1, <1>3
  <2> QED
    BY <1>3, <2>1, <2>2 DEF Lined, n
<1>4. CASE i = n + 1
  <2>1. 1 \in 1..n /\ 1 < i /\ 1 \in 1..Len(u)
    BY <1>1, <1>4 DEF n
  <2>2. Preceded(u, i, "forward")
    BY <1>1, <1>2, <1>4, <2>1 DEF Preceded
  <2> QED
    BY <1>1, <1>2, <1>4, <2>2
<1> QED
  BY <1>1, <1>3, <1>4

LEMMA LinedTail ==
  ASSUME NEW s, NEW rows, NEW sent, NEW rows2, NEW sent2, Log(s), s # <<>>,
         Lined(s, rows, sent), rows \subseteq rows2, sent \subseteq sent2,
         Head(s).op = "event" => Head(s).what \in rows2,
         Head(s).op = "forward" /\ Head(s).what.vlm => Asked(Head(s).what, sent2)
  PROVE  Lined(Tail(s), rows2, sent2)
<1> DEFINE t == Tail(s)
<1>1. /\ Len(s) \in Nat /\ Len(s) > 0 /\ Head(s) = s[1]
      /\ Len(t) = Len(s) - 1
      /\ \A i \in 1..(Len(s) - 1) : t[i] = s[i + 1]
  BY LogFacts, LogTail
<1>2. \A e : Asked(e, sent) => Asked(e, sent2)
  BY DEF Asked
<1> HIDE DEF t
<1>3. ASSUME NEW i \in 1..Len(t), NEW op, Preceded(s, i + 1, op)
      PROVE  Preceded(t, i, op) \/ (s[1].op = op /\ s[1].what = t[i].what)
  <2>1. PICK j \in 1..Len(s) : j < i + 1 /\ s[j].op = op /\ s[j].what = s[i + 1].what
    BY <1>3 DEF Preceded
  <2>2. t[i] = s[i + 1]
    BY <1>1
  <2>3. CASE j = 1
    BY <2>1, <2>2, <2>3
  <2>4. CASE j > 1
    <3>1. j - 1 \in 1..Len(t) /\ j - 1 < i /\ (j - 1) + 1 = j
      BY <1>1, <2>1, <2>4
    <3>2. t[j - 1] = s[j]
      BY <1>1, <3>1
    <3> QED
      BY <2>1, <2>2, <3>1, <3>2 DEF Preceded
  <2> QED
    BY <1>1, <2>3, <2>4
<1> SUFFICES ASSUME NEW i \in 1..Len(t)
             PROVE  /\ t[i].op \in {"publish", "forward"} /\ t[i].what.by = "rule"
                          => t[i].what \in rows2 \/ Preceded(t, i, "event")
                    /\ t[i].op = "ack" /\ t[i].what.vlm
                          => Asked(t[i].what, sent2) \/ Preceded(t, i, "forward")
  BY DEF Lined, t
<1>4. i + 1 \in 1..Len(s) /\ t[i] = s[i + 1]
  BY <1>1
<1>5. ASSUME t[i].op \in {"publish", "forward"}, t[i].what.by = "rule"
      PROVE  t[i].what \in rows2 \/ Preceded(t, i, "event")
  <2>1. s[i + 1].what \in rows \/ Preceded(s, i + 1, "event")
    BY <1>4, <1>5 DEF Lined
  <2> QED
    BY <1>1, <1>3, <1>4, <2>1
<1>6. ASSUME t[i].op = "ack", t[i].what.vlm
      PROVE  Asked(t[i].what, sent2) \/ Preceded(t, i, "forward")
  <2>1. Asked(s[i + 1].what, sent) \/ Preceded(s, i + 1, "forward")
    BY <1>4, <1>6 DEF Lined
  <2> QED
    BY <1>1, <1>2, <1>3, <1>4, <1>6, <2>1
<1> QED
  BY <1>5, <1>6

\* The outputs of a rule are lined, whatever is stored or asked.
LEMMA LinedOutputs ==
  ASSUME NEW fires, NEW r, NEW k, NEW ctx, NEW rows, NEW sent
  PROVE  Lined(OutputsIf(fires, r, k, ctx), rows, sent)
<1> DEFINE a == Action(r, k, ctx)
           s == Outputs(r, k, ctx)
<1>1. Lined(<<>>, rows, sent)
  BY DEF Lined
<1>2. CASE r = Bypass
  <2>1. IncidentOut(s, a)
    BY <1>2, OutputList
  <2> HIDE DEF s, a
  <2>2. Lined(s, rows, sent)
    BY <2>1 DEF IncidentOut, Lined
  <2> QED
    BY <1>1, <2>2 DEF OutputsIf, s
<1>3. CASE r # Bypass
  <2>1. EventOut(s, a)
    BY <1>3, OutputList
  <2> HIDE DEF s, a
  <2>2. \A i \in 1..3 : /\ s[i].op # "ack"
                        /\ s[i].op \in {"publish", "forward"} => Preceded(s, i, "event")
    <3>1. /\ s[1].op = "event" /\ s[2].op = "publish" /\ s[3].op = "forward"
          /\ s[2].what = s[1].what /\ s[3].what = s[1].what
      BY <2>1 DEF EventOut
    <3>2. ASSUME NEW i \in {2, 3} PROVE Preceded(s, i, "event")
      <4>1. 1 < i /\ s[1].what = s[i].what
        BY <3>1
      <4>2. 1 \in 1..Len(s)
        BY <2>1 DEF EventOut
      <4> QED
        BY <3>1, <4>1, <4>2 DEF Preceded
    <3> SUFFICES ASSUME NEW i \in 1..3
                 PROVE  /\ s[i].op # "ack"
                        /\ s[i].op \in {"publish", "forward"} => Preceded(s, i, "event")
      OBVIOUS
    <3>3. i = 1 \/ i = 2 \/ i = 3
      OBVIOUS
    <3> QED
      BY <3>1, <3>2, <3>3
  <2>3. Lined(s, rows, sent)
    BY <2>1, <2>2 DEF EventOut, Lined
  <2> QED
    BY <1>1, <2>3 DEF OutputsIf, s
<1> QED
  BY <1>2, <1>3

LEMMA LinedHead ==
  ASSUME NEW s, NEW rows, NEW sent, Log(s), s # <<>>, Lined(s, rows, sent)
  PROVE  /\ Head(s).op \in {"publish", "forward"} /\ Head(s).what.by = "rule"
               => Head(s).what \in rows
         /\ Head(s).op = "ack" /\ Head(s).what.vlm => Asked(Head(s).what, sent)
<1>1. Len(s) \in Nat /\ Len(s) > 0 /\ Head(s) = s[1]
  BY LogFacts
<1>2. 1 \in 1..Len(s)
  BY <1>1
<1>3. \A op : ~Preceded(s, 1, op)
  BY DEF Preceded
<1> QED
  BY <1>1, <1>2, <1>3 DEF Lined

LEMMA LinedMore ==
  ASSUME NEW s, NEW rows, NEW sent, NEW rows2, NEW sent2,
         Lined(s, rows, sent), rows \subseteq rows2, sent \subseteq sent2
  PROVE  Lined(s, rows2, sent2)
  BY DEF Lined, Asked

LEMMA LinedTaken ==
  ASSUME NEW e, NEW A, NEW B, NEW C, NEW rows, NEW sent, Log(A), Log(B), Log(C),
         e.by = "rule" => e \in rows,
         Lined(A, rows, sent), Lined(B, rows, sent), Lined(C, rows, sent)
  PROVE  Lined(<<[op |-> "forward", what |-> e]>> \o A \o B \o C
               \o <<[op |-> "ack", what |-> e]>>, rows, sent)
<1> DEFINE fwd == [op |-> "forward", what |-> e]
<1>1. fwd.op = "forward" /\ fwd.what = e
  OBVIOUS
<1> HIDE DEF fwd
<1>2. Log(<<fwd>>) /\ Len(<<fwd>>) = 1 /\ <<fwd>>[1] = fwd
  BY LogOne
<1>3. Lined(<<fwd>>, rows, sent)
  BY <1>1, <1>2 DEF Lined
<1>4. ASSUME NEW s, NEW t, Log(s), Log(t), Lined(s, rows, sent), Lined(t, rows, sent),
             Len(s) > 0, s[1] = fwd
      PROVE  /\ Log(s \o t) /\ Lined(s \o t, rows, sent)
             /\ Len(s \o t) > 0 /\ (s \o t)[1] = fwd
  <2>1. Len(s) \in Nat /\ Len(t) \in Nat
    BY <1>4, LogFacts
  <2>2. /\ Log(s \o t) /\ Len(s \o t) = Len(s) + Len(t)
        /\ \A i \in 1..Len(s) : (s \o t)[i] = s[i]
    BY <1>4, LogConcat
  <2>3. Lined(s \o t, rows, sent)
    BY <1>4, LinedConcat
  <2> QED
    BY <1>4, <2>1, <2>2, <2>3
<1>5. /\ Log(<<fwd>> \o A) /\ Lined(<<fwd>> \o A, rows, sent)
      /\ Len(<<fwd>> \o A) > 0 /\ (<<fwd>> \o A)[1] = fwd
  BY <1>2, <1>3, <1>4
<1>6. /\ Log(<<fwd>> \o A \o B) /\ Lined(<<fwd>> \o A \o B, rows, sent)
      /\ Len(<<fwd>> \o A \o B) > 0 /\ (<<fwd>> \o A \o B)[1] = fwd
  BY <1>4, <1>5
<1>7. /\ Log(<<fwd>> \o A \o B \o C) /\ Lined(<<fwd>> \o A \o B \o C, rows, sent)
      /\ Len(<<fwd>> \o A \o B \o C) > 0 /\ (<<fwd>> \o A \o B \o C)[1] = fwd
  BY <1>4, <1>6
<1> QED
  BY <1>7, LinedAck DEF fwd

LEMMA KeyOfHypothesis ==
  ASSUME NEW x, NEW y, Known(x), Known(y), ForwardKey(x) = ForwardKey(y)
  PROVE  SameHypothesis(x, y)
<1>1. /\ x.tracks # <<>> => Head(x.tracks) # Unknown
      /\ y.tracks # <<>> => Head(y.tracks) # Unknown
  BY KnownKey
<1> QED
  BY <1>1 DEF ForwardKey, SameHypothesis

Stored(x) == x.by = "rule" => x \in RangeOf(eventRows)

\* Without swallowed failures every list of outputs is lined, messages have their rows, and
\* what an engine remembers as forwarded was.
OrderInv ==
    faults = 0 =>
        /\ \A w \in Worker : Lined(todo[w], RangeOf(eventRows), Forwarded)
        /\ \A x \in Forwarded \union RangeOf(created) : Stored(x)
        /\ \A e \in handled : e.vlm => Asked(e, Forwarded)
        /\ \A w \in Worker : \A k \in forwarded[w] : \E x \in Forwarded : ForwardKey(x) = k

LEMMA OrderInit == Init => OrderInv
<1> SUFFICES ASSUME Init PROVE OrderInv
  OBVIOUS
<1>1. \A rows, sent : Lined(<<>>, rows, sent)
  BY DEF Lined
<1> QED
  BY <1>1, EmptyLog DEF Init, OrderInv, Forwarded

\* A worker goes on to its next output: what is stored and asked grows, and what it was to
\* store or to ask is.
LEMMA OrderPop ==
  ASSUME ShapeInv, OrderInv, faults = 0, NEW w \in Worker, todo[w] # <<>>, Pop(w),
         RangeOf(eventRows) \subseteq RangeOf(eventRows)', Forwarded \subseteq Forwarded',
         Head(todo[w]).op = "event" => Now(w) \in RangeOf(eventRows)',
         Head(todo[w]).op = "forward" /\ Now(w).vlm => Asked(Now(w), Forwarded')
  PROVE  \A v \in Worker : Lined(todo'[v], RangeOf(eventRows)', Forwarded')
<1> SUFFICES ASSUME NEW v \in Worker
             PROVE  Lined(todo'[v], RangeOf(eventRows)', Forwarded')
  OBVIOUS
<1>1. Lined(todo[v], RangeOf(eventRows), Forwarded) /\ Log(todo[v])
  BY DEF OrderInv, ShapeInv
<1>2. CASE v # w
  <2>1. todo'[v] = todo[v]
    BY <1>2, PopShape
  <2>2. Lined(todo[v], RangeOf(eventRows)', Forwarded')
    BY <1>1, LinedMore
  <2> QED
    BY <2>1, <2>2
<1>3. CASE v = w
  <2>1. todo'[w] = Tail(todo[w])
    BY PopShape
  <2>2. Lined(Tail(todo[w]), RangeOf(eventRows)', Forwarded')
    BY <1>1, <1>3, LinedTail DEF Now
  <2> QED
    BY <1>3, <2>1, <2>2
<1> QED
  BY <1>2, <1>3

LEMMA OrderNext == KnownInv /\ OrderInv /\ [Next]_vars => OrderInv'
<1> SUFFICES ASSUME KnownInv, OrderInv, [Next]_vars, faults' = 0 PROVE OrderInv'
  BY DEF OrderInv
<1>0. /\ ShapeInv /\ faults \in Nat
      /\ Log(created) /\ Log(eventRows) /\ Log(needsVlm)
      /\ \A w \in Worker : Log(todo[w])
      /\ \A w \in Worker : KnownOutputs(todo[w])
      /\ \A e \in RangeOf(created) : Known(e)
      /\ \A x \in Forwarded : Known(x)
  BY DEF KnownInv, ShapeInv
<1>f. faults = 0
  <2>1. CASE UNCHANGED faults
    BY <2>1
  <2>2. CASE faults' = faults + 1
    BY <1>0, <2>2
  <2> QED
    BY <2>1, <2>2 DEF Next, Process, Arrive, Take, Forward, WriteIncident, WriteEvent, Republish,
       Ack, Restart, Attempt, Fault, vars
<1>n. faults' # faults + 1
  BY <1>f
<1>i. /\ \A w \in Worker : Lined(todo[w], RangeOf(eventRows), Forwarded)
      /\ \A x \in Forwarded \union RangeOf(created) : Stored(x)
      /\ \A e \in handled : e.vlm => Asked(e, Forwarded)
      /\ \A w \in Worker : \A k \in forwarded[w] : \E x \in Forwarded : ForwardKey(x) = k
  BY <1>f DEF OrderInv
<1> SUFFICES /\ \A w \in Worker : Lined(todo'[w], RangeOf(eventRows)', Forwarded')
             /\ \A x \in Forwarded' \union RangeOf(created)' : Stored(x)'
             /\ \A e \in handled' : e.vlm => Asked(e, Forwarded')
             /\ \A w \in Worker : \A k \in forwarded'[w] :
                   \E x \in Forwarded' : ForwardKey(x) = k
  BY DEF OrderInv
<1> DEFINE Goal == /\ \A w \in Worker : Lined(todo'[w], RangeOf(eventRows)', Forwarded')
                   /\ \A x \in Forwarded' \union RangeOf(created)' : Stored(x)'
                   /\ \A e \in handled' : e.vlm => Asked(e, Forwarded')
                   /\ \A w \in Worker : \A k \in forwarded'[w] :
                         \E x \in Forwarded' : ForwardKey(x) = k
<1>1. ASSUME NEW e \in Feed, Arrive(e) PROVE Goal
  <2>1. RangeOf(created') = RangeOf(created) \union {e}
    BY <1>0, <1>1, LogAppend DEF Arrive
  <2>2. Stored(e)
    BY FeedAssumption DEF Stored
  <2>3. UNCHANGED <<todo, eventRows, needsVlm, handled, forwarded>>
    BY <1>1 DEF Arrive, memory
  <2> QED
    BY <1>i, <2>1, <2>2, <2>3 DEF Forwarded, Stored
<1>2. ASSUME NEW w \in Worker, Take(w) PROVE Goal
  <2> DEFINE e == Head(created)
             k == TrackKey(e)
             ctx == ContextWith(w, e)
             new == NewlyFired(w, k, ctx)
             A == OutputsIf(Suspicious \in new, Suspicious, k, ctx)
             B == OutputsIf(Bypass \in new, Bypass, k, ctx)
             C == OutputsIf(CameraHealth \in new, CameraHealth, k, ctx)
             list == <<[op |-> "forward", what |-> e]>> \o A \o B \o C
                     \o <<[op |-> "ack", what |-> e]>>
  <2>1. /\ created # <<>>
        /\ created' = Tail(created)
        /\ todo' = [todo EXCEPT ![w] = list]
        /\ UNCHANGED <<eventRows, needsVlm, handled, forwarded>>
    BY <1>0, <1>2, TakeTodo
  <2>2. e.by = "rule" => e \in RangeOf(eventRows)
    BY <1>0, <1>i, <2>1, LogFacts DEF Stored
  <2>3. Log(A) /\ Log(B) /\ Log(C)
    BY LogOutputsIf
  <2>4. /\ Lined(A, RangeOf(eventRows), Forwarded)
        /\ Lined(B, RangeOf(eventRows), Forwarded)
        /\ Lined(C, RangeOf(eventRows), Forwarded)
    BY LinedOutputs
  <2>5. Lined(list, RangeOf(eventRows), Forwarded)
    <3> HIDE DEF A, B, C, e
    <3> QED
      BY <2>2, <2>3, <2>4, LinedTaken
  <2> HIDE DEF list
  <2>6. \A v \in Worker : Lined(todo'[v], RangeOf(eventRows), Forwarded)
    BY <1>0, <1>i, <2>1, <2>5 DEF ShapeInv
  <2>7. RangeOf(created') \subseteq RangeOf(created)
    BY <1>0, <2>1, LogTail
  <2> QED
    BY <1>i, <2>1, <2>6, <2>7 DEF Forwarded, Stored
<1>3. ASSUME NEW w \in Worker, Forward(w) PROVE Goal
  <2> DEFINE e == Now(w)
             m == [event |-> e, engine |-> <<w, lives[w]>>]
  <2>1. todo[w] # <<>> /\ Pop(w) /\ Head(todo[w]).op = "forward"
    BY <1>3 DEF Forward, Doing
  <2>2. Known(e)
    BY <2>1, KnownPop DEF KnownOutput, Now
  <2>3. Stored(e)
    <3>1. Log(todo[w]) /\ Lined(todo[w], RangeOf(eventRows), Forwarded)
      BY <1>0, <1>i
    <3> QED
      BY <2>1, <3>1, LinedHead DEF Stored, Now
  <2>4. UNCHANGED <<created, eventRows, handled>>
    BY <1>3 DEF Forward
  <2>5. CASE ShouldForward(w, e)
    <3>1. /\ needsVlm' = Append(needsVlm, m)
          /\ forwarded' = [forwarded EXCEPT ![w] = @ \union {ForwardKey(e)}]
      BY <1>3, <1>n, <2>5 DEF Forward, Attempt, Fault
    <3>2. RangeOf(needsVlm') = RangeOf(needsVlm) \union {m} /\ m.event = e
      BY <1>0, <3>1, LogAppend
    <3> HIDE DEF m
    <3>3. Forwarded' = Forwarded \union {e}
      BY <3>2 DEF Forwarded
    <3>4. Asked(e, Forwarded')
      BY <3>3 DEF Asked, SameHypothesis
    <3>5. \A v \in Worker : Lined(todo'[v], RangeOf(eventRows)', Forwarded')
      BY <1>0, <1>f, <2>1, <2>4, <3>3, <3>4, OrderPop
    <3>6. \A v \in Worker : \A k \in forwarded'[v] : \E x \in Forwarded' : ForwardKey(x) = k
      <4>1. \A v \in Worker : forwarded'[v] \subseteq forwarded[v] \union {ForwardKey(e)}
        BY <1>0, <3>1 DEF ShapeInv
      <4> QED
        BY <1>i, <3>3, <4>1
    <3>7. \A x \in handled' : x.vlm => Asked(x, Forwarded')
      BY <1>i, <2>4, <3>3 DEF Asked
    <3> QED
      BY <1>i, <2>3, <2>4, <3>3, <3>5, <3>6, <3>7 DEF Stored
  <2>6. CASE ~ShouldForward(w, e)
    <3>1. UNCHANGED <<needsVlm, forwarded>>
      BY <1>3, <2>6 DEF Forward
    <3>2. Forwarded' = Forwarded
      BY <3>1 DEF Forwarded
    <3>3. e.vlm => Asked(e, Forwarded')
      <4>1. e.vlm => \E x \in Forwarded : ForwardKey(x) = ForwardKey(e)
        BY <1>i, <2>6 DEF ShouldForward
      <4> QED
        BY <1>0, <2>2, <3>2, <4>1, KeyOfHypothesis DEF Asked
    <3>4. \A v \in Worker : Lined(todo'[v], RangeOf(eventRows)', Forwarded')
      BY <1>0, <1>f, <2>1, <2>4, <3>2, <3>3, OrderPop
    <3> QED
      BY <1>i, <2>4, <3>1, <3>2, <3>4 DEF Stored
  <2> QED
    BY <2>5, <2>6
<1>4. ASSUME NEW w \in Worker, WriteIncident(w) PROVE Goal
  <2>1. todo[w] # <<>> /\ Pop(w) /\ Head(todo[w]).op = "incident"
    BY <1>4 DEF WriteIncident, Doing
  <2>2. UNCHANGED <<created, eventRows, needsVlm, handled, forwarded>>
    BY <1>4 DEF WriteIncident, memory
  <2>3. Forwarded' = Forwarded
    BY <2>2 DEF Forwarded
  <2>4. \A v \in Worker : Lined(todo'[v], RangeOf(eventRows)', Forwarded')
    BY <1>0, <1>f, <2>1, <2>2, <2>3, OrderPop
  <2> QED
    BY <1>i, <2>2, <2>3, <2>4 DEF Stored
<1>5. ASSUME NEW w \in Worker, WriteEvent(w) PROVE Goal
  <2>1. todo[w] # <<>> /\ Pop(w) /\ Head(todo[w]).op = "event"
    BY <1>5 DEF WriteEvent, Doing
  <2>2. UNCHANGED <<created, needsVlm, handled, forwarded>>
    BY <1>5 DEF WriteEvent, memory
  <2>3. eventRows' = Append(eventRows, Now(w))
    BY <1>5, <1>n DEF WriteEvent, Attempt, Fault
  <2>4. RangeOf(eventRows)' = RangeOf(eventRows) \union {Now(w)}
    BY <1>0, <2>3, LogAppend
  <2>5. Forwarded' = Forwarded
    BY <2>2 DEF Forwarded
  <2>6. \A v \in Worker : Lined(todo'[v], RangeOf(eventRows)', Forwarded')
    BY <1>0, <1>f, <2>1, <2>4, <2>5, OrderPop
  <2> QED
    BY <1>i, <2>2, <2>4, <2>5, <2>6 DEF Stored
<1>6. ASSUME NEW w \in Worker, Republish(w) PROVE Goal
  <2>1. todo[w] # <<>> /\ Pop(w) /\ Head(todo[w]).op = "publish"
    BY <1>6 DEF Republish, Doing
  <2>2. UNCHANGED <<eventRows, needsVlm, handled, forwarded>>
    BY <1>6 DEF Republish, memory
  <2>3. created' = Append(created, Now(w))
    BY <1>6, <1>n DEF Republish, Attempt, Fault
  <2>4. RangeOf(created)' = RangeOf(created) \union {Now(w)}
    BY <1>0, <2>3, LogAppend
  <2>5. Stored(Now(w))
    <3>1. Log(todo[w]) /\ Lined(todo[w], RangeOf(eventRows), Forwarded)
      BY <1>0, <1>i
    <3> QED
      BY <2>1, <3>1, LinedHead DEF Stored, Now
  <2>6. Forwarded' = Forwarded
    BY <2>2 DEF Forwarded
  <2>7. \A v \in Worker : Lined(todo'[v], RangeOf(eventRows)', Forwarded')
    BY <1>0, <1>f, <2>1, <2>2, <2>6, OrderPop
  <2> QED
    BY <1>i, <2>2, <2>4, <2>5, <2>6, <2>7 DEF Stored
<1>7. ASSUME NEW w \in Worker, Ack(w) PROVE Goal
  <2>1. todo[w] # <<>> /\ Pop(w) /\ Head(todo[w]).op = "ack"
    BY <1>7 DEF Ack, Doing
  <2>2. UNCHANGED <<created, eventRows, needsVlm, forwarded>>
        /\ handled' = handled \union {Now(w)}
    BY <1>7 DEF Ack, memory
  <2>3. Now(w).vlm => Asked(Now(w), Forwarded)
    <3>1. Log(todo[w]) /\ Lined(todo[w], RangeOf(eventRows), Forwarded)
      BY <1>0, <1>i
    <3> QED
      BY <2>1, <3>1, LinedHead DEF Now
  <2>4. Forwarded' = Forwarded
    BY <2>2 DEF Forwarded
  <2>5. \A v \in Worker : Lined(todo'[v], RangeOf(eventRows)', Forwarded')
    BY <1>0, <1>f, <2>1, <2>2, <2>4, OrderPop
  <2> QED
    BY <1>i, <2>2, <2>3, <2>4, <2>5 DEF Stored
<1>8. ASSUME NEW w \in Worker, Restart(w) PROVE Goal
  <2>1. UNCHANGED <<created, eventRows, needsVlm, handled>>
    BY <1>8 DEF Restart
  <2>2. \A rows, sent : Lined(<<>>, rows, sent)
    BY DEF Lined
  <2>3. \A v \in Worker : /\ todo'[v] = todo[v] \/ todo'[v] = <<>>
                          /\ forwarded'[v] \subseteq forwarded[v]
    BY <1>0, <1>8 DEF Restart, ShapeInv
  <2>4. Forwarded' = Forwarded
    BY <2>1 DEF Forwarded
  <2>5. \A v \in Worker : Lined(todo'[v], RangeOf(eventRows)', Forwarded')
    BY <1>i, <2>1, <2>2, <2>3, <2>4
  <2> QED
    BY <1>i, <2>1, <2>3, <2>4, <2>5 DEF Stored
<1>9. CASE UNCHANGED vars
  BY <1>i, <1>9 DEF vars, memory, Forwarded, Stored
<1> QED
  BY <1>1, <1>2, <1>3, <1>4, <1>5, <1>6, <1>7, <1>8, <1>9 DEF Next, Process

\* Without swallowed failures the row of a rule's event is there before any message about it.
THEOREM RowsComeFirst == Spec => []RowBeforeMessages
<1>1. OrderInv => RowBeforeMessages
  BY DEF OrderInv, RowBeforeMessages, Stored
<1> QED
  BY <1>1, KnownInit, KnownNext, OrderInit, OrderNext, PTL DEF Spec

\* Without swallowed failures a flagged event that was handled is represented on event.needs_vlm:
\* the dedup swallows no hypothesis of its own, however often workers die.
THEOREM FlaggedIsAsked == Spec => []FlaggedReachesVlm
<1>1. OrderInv => FlaggedReachesVlm
  BY DEF OrderInv, FlaggedReachesVlm, Asked
<1> QED
  BY <1>1, KnownInit, KnownNext, OrderInit, OrderNext, PTL DEF Spec

-----------------------------------------------------------------------------
(* A subject of a rule has an incident or an event once per engine          *)

Table == {"incident", "event"}

\* What a row says has been fired: the rule and the subject.
Firing(op, x) == IF op = "incident" THEN <<x.rule, x.track>> ELSE x.id

HasFired(set, s) == \E r, k : s = <<r, k>> /\ <<k, r>> \in set

\* A firing that a list of outputs has still to put in a table.
Due(list, op, s) == \E i \in 1..Len(list) : list[i].op = op /\ Firing(op, list[i].what) = s

DueOnce(list, op) ==
    \A i, j \in 1..Len(list) :
        /\ list[i].op = op /\ list[j].op = op
        /\ Firing(op, list[i].what) = Firing(op, list[j].what)
        => i = j

\* What is due has fired, and is due once.
DueInv ==
    \A w \in Worker, op \in Table :
        /\ DueOnce(todo[w], op)
        /\ \A s : Due(todo[w], op, s) => HasFired(fired[w], s)

\* A firing that is over: nothing is due for it, and it will not fire again.
Settled(op, s, set, list) == HasFired(set, s) /\ ~Due(list, op, s)

EnginesOf(n) == UNION {{w} \X (1..n[w]) : w \in Worker}

\* Every row of a table can be put down to an engine, different rows of one firing to
\* different engines; for the present engine of a worker (of n, with fired sets f and
\* outputs t to make) the firing is over.
PutDown(log, op, g, n, f, t) ==
    /\ g \in [1..Len(log) -> EnginesOf(n)]
    /\ \A i, j \in 1..Len(log) :
          Firing(op, log[i]) = Firing(op, log[j]) /\ g[i] = g[j] => i = j
    /\ \A i \in 1..Len(log), w \in Worker :
          g[i] = <<w, n[w]>> => Settled(op, Firing(op, log[i]), f[w], t[w])

FiringInv ==
    /\ ShapeInv
    /\ fired = [w \in Worker |-> fired[w]]
    /\ \A w \in Worker : lives[w] >= 1
    /\ DueInv
    /\ \E g : PutDown(incidents, "incident", g, lives, fired, todo)
    /\ \E g : PutDown(eventRows, "event", g, lives, fired, todo)

\* What a list of outputs has due comes from rules of R that fired for k.
DueFrom(list, op, R, k) ==
    /\ DueOnce(list, op)
    /\ \A s : Due(list, op, s) => \E r \in R : s = <<r, k>>

LEMMA DueConcat ==
  ASSUME NEW s, NEW t, NEW op, NEW k, NEW R, NEW T, Log(s), Log(t),
         DueFrom(s, op, R, k), DueFrom(t, op, T, k), R \cap T = {}
  PROVE  DueFrom(s \o t, op, R \union T, k)
<1> DEFINE u == s \o t
<1>1. /\ Len(s) \in Nat /\ Len(t) \in Nat /\ Len(u) = Len(s) + Len(t)
      /\ \A i \in 1..Len(s) : u[i] = s[i]
      /\ \A i \in 1..Len(t) : u[Len(s) + i] = t[i]
      /\ \A i \in 1..Len(u) : i \in 1..Len(s) \/ \E j \in 1..Len(t) : i = Len(s) + j
  <2>1. Len(s) \in Nat /\ Len(t) \in Nat
    BY LogFacts
  <2> QED
    BY <2>1, LogConcat
<1> HIDE DEF u
<1>2. \A i \in 1..Len(s) : s[i].op = op => \E r \in R : Firing(op, s[i].what) = <<r, k>>
  BY DEF DueFrom, Due
<1>3. \A i \in 1..Len(t) : t[i].op = op => \E r \in T : Firing(op, t[i].what) = <<r, k>>
  BY DEF DueFrom, Due
<1>4. ASSUME NEW q, Due(u, op, q) PROVE \E r \in R \union T : q = <<r, k>>
  <2>1. PICK i \in 1..Len(u) : u[i].op = op /\ Firing(op, u[i].what) = q
    BY <1>4 DEF Due
  <2>2. CASE i \in 1..Len(s)
    BY <1>1, <1>2, <2>1, <2>2
  <2>3. CASE \E j \in 1..Len(t) : i = Len(s) + j
    <3>1. PICK j \in 1..Len(t) : i = Len(s) + j
      BY <2>3
    <3>2. t[j].op = op /\ Firing(op, t[j].what) = q
      BY <1>1, <2>1, <3>1
    <3> QED
      BY <1>3, <3>2
  <2> QED
    BY <1>1, <2>2, <2>3
<1>5. ASSUME NEW i \in 1..Len(s), NEW j \in 1..Len(t), s[i].op = op, t[j].op = op
      PROVE  Firing(op, s[i].what) # Firing(op, t[j].what)
  BY <1>2, <1>3, <1>5
<1>6. ASSUME NEW i \in 1..Len(u), NEW j \in 1..Len(u), u[i].op = op, u[j].op = op,
             Firing(op, u[i].what) = Firing(op, u[j].what)
      PROVE  i = j
  <2>1. DueOnce(s, op) /\ DueOnce(t, op)
    BY DEF DueFrom
  <2>2. CASE i \in 1..Len(s) /\ j \in 1..Len(s)
    BY <1>1, <1>6, <2>1, <2>2 DEF DueOnce
  <2>3. CASE i \in 1..Len(s) /\ \E m \in 1..Len(t) : j = Len(s) + m
    BY <1>1, <1>5, <1>6, <2>3
  <2>4. CASE j \in 1..Len(s) /\ \E m \in 1..Len(t) : i = Len(s) + m
    <3>1. PICK m \in 1..Len(t) : i = Len(s) + m
      BY <2>4
    <3>2. u[i] = t[m] /\ u[j] = s[j]
      BY <1>1, <2>4, <3>1
    <3> QED
      BY <1>5, <1>6, <2>4, <3>2
  <2>5. CASE (\E m \in 1..Len(t) : i = Len(s) + m) /\ \E n \in 1..Len(t) : j = Len(s) + n
    <3>1. PICK m \in 1..Len(t), n \in 1..Len(t) : i = Len(s) + m /\ j = Len(s) + n
      BY <2>5
    <3>2. u[i] = t[m] /\ u[j] = t[n]
      BY <1>1, <3>1
    <3>3. m = n
      BY <1>6, <2>1, <3>2 DEF DueOnce
    <3> QED
      BY <3>1, <3>3
  <2> QED
    BY <1>1, <2>2, <2>3, <2>4, <2>5
<1> QED
  BY <1>4, <1>6 DEF DueFrom, DueOnce, u

\* A fired rule has its subject due in one table, once.
LEMMA DueOutputs ==
  ASSUME NEW fires, NEW r, NEW k, NEW ctx, NEW op \in Table
  PROVE  DueFrom(OutputsIf(fires, r, k, ctx), op, IF fires THEN {r} ELSE {}, k)
<1>1. Len(<<>>) = 0
  OBVIOUS
<1>2. CASE ~fires
  BY <1>1, <1>2 DEF OutputsIf, DueFrom, DueOnce, Due
<1>3. CASE fires
  <2> DEFINE s == Outputs(r, k, ctx)
             a == Action(r, k, ctx)
  <2>1. (r = Bypass => IncidentOut(s, a)) /\ (r # Bypass => EventOut(s, a))
    BY OutputList
  <2>2. /\ Firing("incident", a) = <<r, k>>
        /\ Firing("event", ActionEvent(a)) = <<r, k>>
    BY DEF Firing, Action, ActionEvent, OutputId
  <2> HIDE DEF s, a
  <2>3. /\ Len(s) \in {1, 3}
        /\ \A i \in 1..Len(s) : s[i].op = op => i = 1 /\ Firing(op, s[i].what) = <<r, k>>
    <3>1. CASE r = Bypass
      <4>1. Len(s) = 1 /\ s[1].op = "incident" /\ s[1].what = a
        BY <2>1, <3>1 DEF IncidentOut
      <4>2. \A i \in 1..1 : i = 1
        OBVIOUS
      <4> QED
        BY <2>2, <4>1, <4>2
    <3>2. CASE r # Bypass
      <4>1. Len(s) = 3
        BY <2>1, <3>2 DEF EventOut
      <4>2. \A i \in 1..3 : i = 1 \/ i = 2 \/ i = 3
        OBVIOUS
      <4>3. s[1].op = "event" /\ s[2].op = "publish" /\ s[3].op = "forward"
            /\ s[1].what = ActionEvent(a)
        BY <2>1, <3>2 DEF EventOut
      <4> QED
        BY <2>2, <4>1, <4>2, <4>3 DEF Table
    <3> QED
      BY <3>1, <3>2
  <2>4. DueFrom(s, op, {r}, k)
    BY <2>3 DEF DueFrom, DueOnce, Due
  <2> QED
    BY <1>3, <2>4 DEF OutputsIf, s
<1> QED
  BY <1>2, <1>3

LEMMA DueTaken ==
  ASSUME NEW e, NEW k, NEW ctx, NEW new, NEW op \in Table
  PROVE  DueFrom(<<[op |-> "forward", what |-> e]>>
                 \o OutputsIf(Suspicious \in new, Suspicious, k, ctx)
                 \o OutputsIf(Bypass \in new, Bypass, k, ctx)
                 \o OutputsIf(CameraHealth \in new, CameraHealth, k, ctx)
                 \o <<[op |-> "ack", what |-> e]>>, op, new, k)
<1> DEFINE A == OutputsIf(Suspicious \in new, Suspicious, k, ctx)
           B == OutputsIf(Bypass \in new, Bypass, k, ctx)
           C == OutputsIf(CameraHealth \in new, CameraHealth, k, ctx)
           fwd == [op |-> "forward", what |-> e]
           ack == [op |-> "ack", what |-> e]
           RA == IF Suspicious \in new THEN {Suspicious} ELSE {}
           RB == IF Bypass \in new THEN {Bypass} ELSE {}
           RC == IF CameraHealth \in new THEN {CameraHealth} ELSE {}
<1>1. /\ Log(A) /\ Log(B) /\ Log(C)
      /\ DueFrom(A, op, RA, k) /\ DueFrom(B, op, RB, k) /\ DueFrom(C, op, RC, k)
  BY LogOutputsIf, DueOutputs
<1>2. fwd.op # op /\ ack.op # op
  BY DEF Table
<1>3. /\ RA \cap RB = {} /\ (RA \union RB) \cap RC = {}
      /\ RA \union RB \union RC \subseteq new
  BY DEF Suspicious, Bypass, CameraHealth
<1> HIDE DEF A, B, C, fwd, ack, RA, RB, RC
<1>4. ASSUME NEW x, x.op # op PROVE Log(<<x>>) /\ DueFrom(<<x>>, op, {}, k)
  <2>1. Log(<<x>>) /\ Len(<<x>>) = 1 /\ <<x>>[1] = x
    BY LogOne
  <2> QED
    BY <1>4, <2>1 DEF DueFrom, DueOnce, Due
<1>5. /\ Log(<<fwd>> \o A) /\ DueFrom(<<fwd>> \o A, op, {} \union RA, k)
  BY <1>1, <1>2, <1>4, LogConcat, DueConcat
<1>6. /\ Log(<<fwd>> \o A \o B) /\ DueFrom(<<fwd>> \o A \o B, op, {} \union RA \union RB, k)
  <2>1. ({} \union RA) \cap RB = {}
    BY <1>3
  <2> QED
    BY <1>1, <1>5, <2>1, LogConcat, DueConcat
<1>7. /\ Log(<<fwd>> \o A \o B \o C)
      /\ DueFrom(<<fwd>> \o A \o B \o C, op, {} \union RA \union RB \union RC, k)
  <2>1. ({} \union RA \union RB) \cap RC = {}
    BY <1>3
  <2> QED
    BY <1>1, <1>6, <2>1, LogConcat, DueConcat
<1>8. DueFrom(<<fwd>> \o A \o B \o C \o <<ack>>, op, {} \union RA \union RB \union RC \union {}, k)
  <2>1. Log(<<ack>>) /\ DueFrom(<<ack>>, op, {}, k)
    BY <1>2, <1>4
  <2>2. ({} \union RA \union RB \union RC) \cap {} = {}
    OBVIOUS
  <2> QED
    BY <1>7, <2>1, <2>2, DueConcat
<1>9. \A r \in {} \union RA \union RB \union RC \union {} : r \in new
  BY <1>3
<1> QED
  BY <1>8, <1>9 DEF DueFrom, A, B, C, fwd, ack

\* The next output of a list is due no more, and nothing else has become due.
LEMMA DueTail ==
  ASSUME NEW list, NEW op, Log(list), list # <<>>, DueOnce(list, op)
  PROVE  /\ DueOnce(Tail(list), op)
         /\ \A s : Due(Tail(list), op, s) => Due(list, op, s)
         /\ Head(list).op = op => /\ Due(list, op, Firing(op, Head(list).what))
                                  /\ ~Due(Tail(list), op, Firing(op, Head(list).what))
<1> DEFINE t == Tail(list)
<1>1. /\ Len(list) \in Nat /\ Len(list) > 0 /\ Head(list) = list[1]
      /\ Len(t) = Len(list) - 1
      /\ \A i \in 1..(Len(list) - 1) : t[i] = list[i + 1]
  BY LogFacts, LogTail
<1> HIDE DEF t
<1>2. \A i \in 1..Len(t) : i + 1 \in 1..Len(list) /\ t[i] = list[i + 1] /\ i + 1 # 1
  BY <1>1
<1>3. DueOnce(t, op)
  <2> SUFFICES ASSUME NEW i \in 1..Len(t), NEW j \in 1..Len(t), t[i].op = op, t[j].op = op,
                      Firing(op, t[i].what) = Firing(op, t[j].what)
               PROVE  i = j
    BY DEF DueOnce
  <2>1. i + 1 = j + 1
    BY <1>2 DEF DueOnce
  <2> QED
    BY <1>1, <2>1
<1>4. \A s : Due(t, op, s) => Due(list, op, s)
  BY <1>2 DEF Due
<1>5. ASSUME Head(list).op = op
      PROVE  /\ Due(list, op, Firing(op, Head(list).what))
             /\ ~Due(t, op, Firing(op, Head(list).what))
  <2>1. 1 \in 1..Len(list) /\ list[1].op = op
    BY <1>1, <1>5
  <2> QED
    BY <1>1, <1>2, <1>5, <2>1 DEF Due, DueOnce
<1> QED
  BY <1>3, <1>4, <1>5 DEF t

\* Rows stay put down while no worker has to make again what it settled.
LEMMA PutDownStays ==
  ASSUME NEW log, NEW op, NEW g, NEW n, NEW f, NEW t, NEW f2, NEW t2,
         PutDown(log, op, g, n, f, t),
         \A w \in Worker : \A s : Settled(op, s, f[w], t[w]) => Settled(op, s, f2[w], t2[w])
  PROVE  PutDown(log, op, g, n, f2, t2)
  BY DEF PutDown

\* A row more: the firing was due in the engine that makes it, and is over.
LEMMA PutDownMore ==
  ASSUME NEW log, NEW op, NEW g, NEW n, NEW f, NEW t, NEW f2, NEW t2, NEW x, NEW w \in Worker,
         Log(log), PutDown(log, op, g, n, f, t), n[w] \in Nat, n[w] >= 1,
         \A v \in Worker : \A s : Settled(op, s, f[v], t[v]) => Settled(op, s, f2[v], t2[v]),
         Due(t[w], op, Firing(op, x)), Settled(op, Firing(op, x), f2[w], t2[w])
  PROVE  \E h : PutDown(Append(log, x), op, h, n, f2, t2)
<1> DEFINE m == Len(log)
           log2 == Append(log, x)
           h == [i \in 1..(m + 1) |-> IF i = m + 1 THEN <<w, n[w]>> ELSE g[i]]
<1>1. /\ m \in Nat /\ Len(log2) = m + 1
      /\ \A i \in 1..m : log2[i] = log[i]
      /\ log2[m + 1] = x
  BY LogFacts, LogAppend
<1>2. <<w, n[w]>> \in EnginesOf(n)
  BY DEF EnginesOf
<1>3. /\ g \in [1..m -> EnginesOf(n)]
      /\ \A i, j \in 1..m : Firing(op, log[i]) = Firing(op, log[j]) /\ g[i] = g[j] => i = j
      /\ \A i \in 1..m, v \in Worker :
            g[i] = <<v, n[v]>> => Settled(op, Firing(op, log[i]), f[v], t[v])
  BY DEF PutDown
<1>4. /\ h[m + 1] = <<w, n[w]>> /\ \A i \in 1..m : h[i] = g[i]
      /\ \A i \in 1..(m + 1) : i \in 1..m \/ i = m + 1
  BY <1>1
<1>5. h \in [1..(m + 1) -> EnginesOf(n)]
  BY <1>1, <1>2, <1>3
<1> HIDE DEF log2, h, m
<1>6. \A i \in 1..m : Firing(op, log2[i]) = Firing(op, x) => h[i] # <<w, n[w]>>
  BY <1>1, <1>3, <1>4 DEF Settled
<1>7. \A i, j \in 1..(m + 1) :
         Firing(op, log2[i]) = Firing(op, log2[j]) /\ h[i] = h[j] => i = j
  BY <1>1, <1>3, <1>4, <1>6
<1>8. ASSUME NEW i \in 1..(m + 1), NEW v \in Worker, h[i] = <<v, n[v]>>
      PROVE  Settled(op, Firing(op, log2[i]), f2[v], t2[v])
  <2>1. CASE i \in 1..m
    BY <1>1, <1>3, <1>4, <1>8, <2>1
  <2>2. CASE i = m + 1
    <3>1. v = w
      BY <1>4, <1>8, <2>2
    <3> QED
      BY <1>1, <2>2, <3>1
  <2> QED
    BY <1>4, <2>1, <2>2
<1>9. PutDown(log2, op, h, n, f2, t2)
  BY <1>1, <1>5, <1>7, <1>8 DEF PutDown
<1> QED
  BY <1>9 DEF log2

\* A new engine has made no row.
LEMMA PutDownRestart ==
  ASSUME NEW log, NEW op, NEW g, NEW n, NEW f, NEW t, NEW n2, NEW f2, NEW t2, NEW w \in Worker,
         PutDown(log, op, g, n, f, t), n \in [Worker -> Nat],
         \A v \in Worker : n2[v] = IF v = w THEN n[w] + 1 ELSE n[v],
         \A v \in Worker \ {w} : f2[v] = f[v] /\ t2[v] = t[v]
  PROVE  PutDown(log, op, g, n2, f2, t2)
<1>1. \A v \in Worker : n2[v] = IF v = w THEN n[w] + 1 ELSE n[v]
  OBVIOUS
<1>2. \A v \in Worker : 1..n[v] \subseteq 1..n2[v]
  BY <1>1
<1>3. EnginesOf(n) \subseteq EnginesOf(n2)
  BY <1>2 DEF EnginesOf
<1>4. <<w, n[w] + 1>> \notin EnginesOf(n)
  BY DEF EnginesOf
<1>5. \A i \in 1..Len(log), v \in Worker : g[i] = <<v, n2[v]>> => v # w /\ n2[v] = n[v]
  <2> SUFFICES ASSUME NEW i \in 1..Len(log), NEW v \in Worker, g[i] = <<v, n2[v]>>
               PROVE  v # w
    BY <1>1
  <2>1. g[i] \in EnginesOf(n)
    BY DEF PutDown
  <2> QED
    BY <1>1, <1>4, <2>1
<1> QED
  BY <1>3, <1>5 DEF PutDown

LEMMA FiringInit == Init => FiringInv
<1> SUFFICES ASSUME Init PROVE FiringInv
  OBVIOUS
<1>1. Len(<<>>) = 0
  OBVIOUS
<1>2. DueInv
  BY <1>1 DEF Init, DueInv, DueOnce, Due
<1>3. \A op : PutDown(<<>>, op, <<>>, lives, fired, todo)
  <2>1. <<>> \in [1..0 -> EnginesOf(lives)]
    OBVIOUS
  <2> QED
    BY <1>1, <2>1 DEF PutDown
<1>4. fired = [w \in Worker |-> fired[w]] /\ \A w \in Worker : lives[w] >= 1
  BY DEF Init
<1> QED
  BY <1>2, <1>3, <1>4, ShapeInit DEF Init, FiringInv

\* What is over stays over.
OverStays ==
    \A w \in Worker, op \in Table : \A s :
        Settled(op, s, fired[w], todo[w]) => Settled(op, s, fired'[w], todo'[w])

\* A worker goes on to its next output.
LEMMA FiringPop ==
  ASSUME FiringInv, NEW w \in Worker, todo[w] # <<>>, Pop(w), UNCHANGED fired
  PROVE  /\ DueInv' /\ OverStays
         /\ \A op \in Table : Head(todo[w]).op = op =>
               /\ Due(todo[w], op, Firing(op, Now(w)))
               /\ Settled(op, Firing(op, Now(w)), fired'[w], todo'[w])
<1>1. /\ todo'[w] = Tail(todo[w]) /\ \A v \in Worker \ {w} : todo'[v] = todo[v]
      /\ Log(todo[w])
  BY PopShape DEF FiringInv, ShapeInv
<1>2. \A op \in Table :
         /\ DueOnce(Tail(todo[w]), op)
         /\ \A s : Due(Tail(todo[w]), op, s) => Due(todo[w], op, s)
         /\ Head(todo[w]).op = op => /\ Due(todo[w], op, Firing(op, Now(w)))
                                     /\ ~Due(Tail(todo[w]), op, Firing(op, Now(w)))
  BY <1>1, DueTail DEF FiringInv, DueInv, Now
<1>3. \A v \in Worker, op \in Table : \A s : Due(todo'[v], op, s) => Due(todo[v], op, s)
  BY <1>1, <1>2
<1>4. \A v \in Worker, op \in Table : \A s : Due(todo[v], op, s) => HasFired(fired[v], s)
  BY DEF FiringInv, DueInv
<1>5. DueInv'
  <2>1. \A v \in Worker, op \in Table : DueOnce(todo'[v], op)
    BY <1>1, <1>2 DEF FiringInv, DueInv
  <2> QED
    BY <1>3, <1>4, <2>1 DEF DueInv
<1>6. OverStays
  BY <1>3 DEF OverStays, Settled
<1> QED
  BY <1>1, <1>2, <1>4, <1>5, <1>6 DEF Settled

\* A step that makes no row and starts no engine.
LEMMA FiringStays ==
  ASSUME FiringInv, ShapeInv', fired' = [w \in Worker |-> fired'[w]], DueInv', OverStays,
         UNCHANGED <<lives, incidents, eventRows>>
  PROVE  FiringInv'
<1>1. ASSUME NEW log, NEW op \in Table, NEW g, PutDown(log, op, g, lives, fired, todo)
      PROVE  PutDown(log, op, g, lives', fired', todo')
  BY <1>1, PutDownStays DEF OverStays
<1>2. "incident" \in Table /\ "event" \in Table
  BY DEF Table
<1>3. PICK g : PutDown(incidents, "incident", g, lives, fired, todo)
  BY DEF FiringInv
<1>4. PICK h : PutDown(eventRows, "event", h, lives, fired, todo)
  BY DEF FiringInv
<1>5. /\ PutDown(incidents', "incident", g, lives', fired', todo')
      /\ PutDown(eventRows', "event", h, lives', fired', todo')
  BY <1>1, <1>2, <1>3, <1>4
<1> QED
  BY <1>5 DEF FiringInv

\* A row of table `op`, or none.
LEMMA FiringRow ==
  ASSUME FiringInv, NEW w \in Worker, NEW op \in Table, NEW log, NEW log2, Log(log),
         todo[w] # <<>>, Pop(w), Head(todo[w]).op = op, UNCHANGED <<fired, lives>>,
         log2 = log \/ log2 = Append(log, Now(w)),
         \E g : PutDown(log, op, g, lives, fired, todo)
  PROVE  \E g : PutDown(log2, op, g, lives', fired', todo')
<1>1. /\ OverStays /\ Due(todo[w], op, Firing(op, Now(w)))
      /\ Settled(op, Firing(op, Now(w)), fired'[w], todo'[w])
  BY FiringPop
<1>2. PICK g : PutDown(log, op, g, lives, fired, todo)
  OBVIOUS
<1>3. \A v \in Worker : \A s :
         Settled(op, s, fired[v], todo[v]) => Settled(op, s, fired'[v], todo'[v])
  BY <1>1 DEF OverStays
<1>4. CASE log2 = log
  BY <1>2, <1>3, <1>4, PutDownStays
<1>5. CASE log2 = Append(log, Now(w))
  <2>1. lives[w] \in Nat /\ lives[w] >= 1
    BY DEF FiringInv, ShapeInv
  <2> QED
    BY <1>1, <1>2, <1>3, <1>5, <2>1, PutDownMore
<1> QED
  BY <1>4, <1>5

LEMMA FiringTake ==
  ASSUME FiringInv, NEW w \in Worker, Take(w)
  PROVE  /\ fired' = [v \in Worker |-> fired'[v]] /\ DueInv' /\ OverStays
<1> DEFINE e == Head(created)
           k == TrackKey(e)
           ctx == ContextWith(w, e)
           new == NewlyFired(w, k, ctx)
           list == <<[op |-> "forward", what |-> e]>>
                   \o OutputsIf(Suspicious \in new, Suspicious, k, ctx)
                   \o OutputsIf(Bypass \in new, Bypass, k, ctx)
                   \o OutputsIf(CameraHealth \in new, CameraHealth, k, ctx)
                   \o <<[op |-> "ack", what |-> e]>>
<1>1. /\ todo[w] = <<>>
      /\ fired' = [fired EXCEPT ![w] = @ \union ({k} \X new)]
  BY DEF Take
<1>2. todo' = [todo EXCEPT ![w] = list]
  BY TakeTodo DEF FiringInv
<1>3. \A op \in Table : DueFrom(list, op, new, k)
  BY DueTaken
<1>4. \A r \in new : <<k, r>> \notin fired[w]
  BY DEF NewlyFired
<1> HIDE DEF list, new, k
<1>5. /\ todo'[w] = list /\ \A v \in Worker \ {w} : todo'[v] = todo[v]
      /\ fired'[w] = fired[w] \union ({k} \X new)
      /\ \A v \in Worker \ {w} : fired'[v] = fired[v]
      /\ fired' = [v \in Worker |-> fired'[v]]
  BY <1>1, <1>2 DEF FiringInv, ShapeInv
<1>6. \A s : HasFired(fired[w], s) => HasFired(fired'[w], s)
  BY <1>5 DEF HasFired
<1>7. \A r \in new : HasFired(fired'[w], <<r, k>>) /\ ~HasFired(fired[w], <<r, k>>)
  BY <1>4, <1>5 DEF HasFired
<1>8. \A op \in Table : \A s :
         Due(list, op, s) => HasFired(fired'[w], s) /\ ~HasFired(fired[w], s)
  BY <1>3, <1>7 DEF DueFrom
<1>9. DueInv'
  <2>1. \A op \in Table : DueOnce(todo'[w], op)
    BY <1>3, <1>5 DEF DueFrom
  <2> QED
    BY <1>5, <1>8, <2>1 DEF FiringInv, DueInv
<1>10. OverStays
  BY <1>5, <1>6, <1>8 DEF OverStays, Settled
<1> QED
  BY <1>5, <1>9, <1>10

LEMMA FiringNext == FiringInv /\ [Next]_vars => FiringInv'
<1> SUFFICES ASSUME FiringInv, [Next]_vars PROVE FiringInv'
  OBVIOUS
<1>0. /\ ShapeInv /\ ShapeInv'
      /\ fired = [w \in Worker |-> fired[w]] /\ DueInv
      /\ Log(incidents) /\ Log(eventRows)
      /\ "incident" \in Table /\ "event" \in Table
  BY ShapeNext DEF FiringInv, ShapeInv, Table
<1>1. CASE UNCHANGED <<todo, fired, lives, incidents, eventRows>>
  <2>1. DueInv'
    BY <1>0, <1>1 DEF DueInv
  <2>2. OverStays
    BY <1>1 DEF OverStays
  <2> QED
    BY <1>0, <1>1, <2>1, <2>2, FiringStays
<1>2. ASSUME NEW w \in Worker, Take(w) PROVE FiringInv'
  <2>1. UNCHANGED <<lives, incidents, eventRows>>
    BY <1>2 DEF Take
  <2> QED
    BY <1>0, <1>2, <2>1, FiringTake, FiringStays
<1>3. ASSUME NEW w \in Worker, Forward(w) \/ Republish(w) \/ Ack(w) PROVE FiringInv'
  <2>1. todo[w] # <<>> /\ Pop(w) /\ UNCHANGED <<fired, lives, incidents, eventRows>>
    BY <1>3 DEF Forward, Republish, Ack, Doing, memory
  <2> QED
    BY <1>0, <2>1, FiringPop, FiringStays
<1>4. ASSUME NEW w \in Worker, WriteIncident(w) \/ WriteEvent(w) PROVE FiringInv'
  <2>1. /\ todo[w] # <<>> /\ Pop(w) /\ UNCHANGED <<fired, lives>>
        /\ \/ /\ Head(todo[w]).op = "incident" /\ eventRows' = eventRows
              /\ incidents' = incidents \/ incidents' = Append(incidents, Now(w))
           \/ /\ Head(todo[w]).op = "event" /\ incidents' = incidents
              /\ eventRows' = eventRows \/ eventRows' = Append(eventRows, Now(w))
    BY <1>4 DEF WriteIncident, WriteEvent, Doing, Attempt, memory
  <2>2. DueInv' /\ OverStays
    BY <2>1, FiringPop
  <2>3. ASSUME NEW log, NEW op \in Table, \E g : PutDown(log, op, g, lives, fired, todo)
        PROVE  \E g : PutDown(log, op, g, lives', fired', todo')
    BY <2>1, <2>2, <2>3, PutDownStays DEF OverStays
  <2>4. /\ \E g : PutDown(incidents, "incident", g, lives, fired, todo)
        /\ \E g : PutDown(eventRows, "event", g, lives, fired, todo)
    BY DEF FiringInv
  <2>5. /\ \E g : PutDown(incidents', "incident", g, lives', fired', todo')
        /\ \E g : PutDown(eventRows', "event", g, lives', fired', todo')
    <3>1. CASE Head(todo[w]).op = "incident" /\ eventRows' = eventRows
               /\ (incidents' = incidents \/ incidents' = Append(incidents, Now(w)))
      BY <1>0, <2>1, <2>3, <2>4, <3>1, FiringRow
    <3>2. CASE Head(todo[w]).op = "event" /\ incidents' = incidents
               /\ (eventRows' = eventRows \/ eventRows' = Append(eventRows, Now(w)))
      BY <1>0, <2>1, <2>3, <2>4, <3>2, FiringRow
    <3> QED
      BY <2>1, <3>1, <3>2
  <2>6. /\ fired' = [v \in Worker |-> fired'[v]]
        /\ \A v \in Worker : lives'[v] >= 1
    BY <1>0, <2>1 DEF FiringInv
  <2> QED
    BY <1>0, <2>2, <2>5, <2>6 DEF FiringInv
<1>5. ASSUME NEW w \in Worker, Restart(w) PROVE FiringInv'
  <2>1. /\ lives' = [lives EXCEPT ![w] = @ + 1] /\ lives \in [Worker -> Nat]
        /\ fired' = [fired EXCEPT ![w] = {}] /\ todo' = [todo EXCEPT ![w] = <<>>]
        /\ UNCHANGED <<incidents, eventRows>>
    BY <1>0, <1>5 DEF Restart, ShapeInv
  <2>2. \A v \in Worker \ {w} : fired'[v] = fired[v] /\ todo'[v] = todo[v]
    BY <2>1 DEF FiringInv, ShapeInv
  <2>3. todo'[w] = <<>> /\ fired' = [v \in Worker |-> fired'[v]]
    BY <1>0, <2>1 DEF ShapeInv
  <2>4. DueInv'
    <3>1. Len(<<>>) = 0
      OBVIOUS
    <3>2. \A op : DueOnce(<<>>, op) /\ \A s : ~Due(<<>>, op, s)
      BY <3>1 DEF DueOnce, Due
    <3> QED
      BY <1>0, <2>2, <2>3, <3>2 DEF DueInv
  <2>5. \A v \in Worker : lives'[v] >= 1
    BY <2>1 DEF FiringInv
  <2>6. PICK g : PutDown(incidents, "incident", g, lives, fired, todo)
    BY DEF FiringInv
  <2>7. PICK h : PutDown(eventRows, "event", h, lives, fired, todo)
    BY DEF FiringInv
  <2>8. /\ PutDown(incidents, "incident", g, lives', fired', todo')
        /\ PutDown(eventRows, "event", h, lives', fired', todo')
    <3>1. ASSUME NEW log, NEW op, NEW i, PutDown(log, op, i, lives, fired, todo)
          PROVE  PutDown(log, op, i, lives', fired', todo')
      <4>1. /\ lives \in [Worker -> Nat]
            /\ \A v \in Worker : lives'[v] = IF v = w THEN lives[w] + 1 ELSE lives[v]
        BY <2>1
      <4> QED
        BY <2>2, <3>1, <4>1, PutDownRestart
    <3> QED
      BY <2>6, <2>7, <3>1
  <2> QED
    BY <1>0, <2>1, <2>3, <2>4, <2>5, <2>8 DEF FiringInv
<1> QED
  BY <1>1, <1>2, <1>3, <1>4, <1>5 DEF Next, Process, Arrive, vars, memory

LEMMA EnginesFinite == ASSUME ShapeInv PROVE IsFiniteSet(Engines)
<1> DEFINE Of(w) == {w} \X (1..lives[w])
           Family == {Of(w) : w \in Worker}
           f == [w \in Worker |-> Of(w)]
<1>1. f \in Surjection(Worker, Family)
  BY DEF Surjection
<1>2. IsFiniteSet(Family)
  BY <1>1, BoundAssumption, FS_Surjection
<1>3. ASSUME NEW w \in Worker PROVE IsFiniteSet(Of(w))
  <2>1. lives[w] \in Int
    BY DEF ShapeInv
  <2>2. IsFiniteSet(1..lives[w])
    BY <2>1, FS_Interval
  <2>3. IsFiniteSet({w})
    BY FS_Singleton
  <2> QED
    BY <2>2, <2>3, FS_Product
<1>4. \A T \in Family : IsFiniteSet(T)
  BY <1>3
<1> HIDE DEF Of
<1>5. IsFiniteSet(UNION Family)
  <2> HIDE DEF Family
  <2> QED
    BY <1>2, <1>4, FS_UNION
<1> QED
  BY <1>5 DEF Engines, Of

RowsOf(log, op, s) == {i \in DOMAIN log : Firing(op, log[i]) = s}

\* Rows of one firing are from different engines, so there are no more of them than engines.
LEMMA RowsOfFiring ==
  ASSUME NEW log, NEW op, NEW g, NEW s, ShapeInv, Log(log),
         PutDown(log, op, g, lives, fired, todo)
  PROVE  Cardinality(RowsOf(log, op, s)) <= Lives
<1> DEFINE T == RowsOf(log, op, s)
           h == [i \in T |-> g[i]]
<1>1. DOMAIN log = 1..Len(log) /\ \A i \in T : i \in DOMAIN log /\ Firing(op, log[i]) = s
  BY LogFacts DEF RowsOf
<1> HIDE DEF T
<1>2. h \in [T -> Engines]
  BY <1>1 DEF PutDown, Engines, EnginesOf
<1>3. \A i, j \in T : h[i] = h[j] => i = j
  BY <1>1 DEF PutDown
<1>4. h \in Injection(T, Engines)
  BY <1>2, <1>3 DEF Injection, IsInjective
<1> HIDE DEF h
<1>5. Cardinality(T) <= Cardinality(Engines)
  BY <1>4, EnginesFinite, FS_Injection
<1> QED
  BY <1>5 DEF T, Lives

\* Each rule fires at most once for a subject within an engine instance: a subject never has
\* more incidents or events of a rule than there were engines, whatever dies or fails, in
\* whatever order its evidence comes and although the engine consumes its own output.
THEOREM FiredOncePerEngine == Spec => []FiresOncePerEngine
<1>1. FiringInv => FiresOncePerEngine
  <2> SUFFICES ASSUME FiringInv PROVE FiresOncePerEngine
    OBVIOUS
  <2>1. PICK g : PutDown(incidents, "incident", g, lives, fired, todo)
    BY DEF FiringInv
  <2>2. PICK h : PutDown(eventRows, "event", h, lives, fired, todo)
    BY DEF FiringInv
  <2>3. ShapeInv /\ Log(incidents) /\ Log(eventRows)
    BY DEF FiringInv, ShapeInv
  <2>4. \A s : Cardinality(RowsOf(incidents, "incident", s)) <= Lives
    BY <2>1, <2>3, RowsOfFiring
  <2>5. \A s : Cardinality(RowsOf(eventRows, "event", s)) <= Lives
    BY <2>2, <2>3, RowsOfFiring
  <2>6. ASSUME NEW x
        PROVE  Cardinality({i \in DOMAIN incidents :
                   incidents[i].rule = x.rule /\ incidents[i].track = x.track}) <= Lives
    <3> DEFINE s == <<x.rule, x.track>>
    <3>1. {i \in DOMAIN incidents : incidents[i].rule = x.rule /\ incidents[i].track = x.track}
          = RowsOf(incidents, "incident", s)
      BY DEF RowsOf, Firing
    <3> HIDE DEF s
    <3> QED
      BY <2>4, <3>1
  <2>7. ASSUME NEW x
        PROVE  Cardinality({i \in DOMAIN eventRows : eventRows[i].id = x.id}) <= Lives
    <3>1. {i \in DOMAIN eventRows : eventRows[i].id = x.id} = RowsOf(eventRows, "event", x.id)
      BY DEF RowsOf, Firing
    <3> QED
      BY <2>5, <3>1
  <2> QED
    BY <2>6, <2>7 DEF FiresOncePerEngine, HowMany
<1> QED
  BY <1>1, FiringInit, FiringNext, PTL DEF Spec

=============================================================================
