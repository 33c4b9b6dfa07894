------------------------------ MODULE MCCascade ------------------------------
(***************************************************************************)
(* A small instance of Cascade: three cameras on two threads, two find     *)
(* queries, and answers that tie across cameras, so that an order other    *)
(* than the videos' own would change the report.                           *)
(***************************************************************************)
EXTENDS Cascade, ResultsServer

E(start, end, words, length) ==
    [start |-> start, end |-> end, words |-> words, length |-> length]

McQueries == <<"enters", "conceals">>

\* Cameras 1 and 3 describe the same visit in their own words, camera 2 another one.
McCaption == [c \in Camera |->
    CASE c = 1 -> <<E(0, 4, {"man", "enters"}, 10)>>
      [] c = 2 -> <<E(6, 9, {"man", "pays"}, 8)>>
      [] OTHER -> <<E(1, 5, {"man", "enters", "slowly"}, 17), E(6, 9, {"man", "pays"}, 8)>>]

\* The longest span of "enters" is seen by two cameras, "conceals" by one.
McFind == [c \in Camera |->
    CASE c = 1 -> "enters" :> <<0, 4>> @@ "conceals" :> NoSpan
      [] c = 2 -> "enters" :> <<1, 5>> @@ "conceals" :> <<2, 3>>
      [] OTHER -> "enters" :> <<1, 2>> @@ "conceals" :> NoSpan]

-----------------------------------------------------------------------------
(* Fusion                                                                   *)

Events == {E(s, s + 3, w, l) : s \in 0..2, w \in {{"man"}, {"man", "enters"}}, l \in {3, 9}}

\* Fusing never invents an event, and keeps one of every raw event or a longer telling.
ASSUME FusionKeepsTheLongest ==
    \A a, b \in Events :
        LET kept == Deduplicated(<<a, b>>)
        IN  /\ ToSet(kept) \subseteq {a, b}
            /\ \A e \in {a, b} : \E k \in ToSet(kept) : k = e \/ k.length >= e.length

\* Merging is greedy: of three events the outer two may be kept apart or merged away,
\* depending on which camera is listed first.
ASSUME FusionDependsOnOrder ==
    \E a, b, c \in Events :
        Len(Deduplicated(<<a, b, c>>)) # Len(Deduplicated(<<b, a, c>>))

-----------------------------------------------------------------------------
(* ResultsServer *)

ResultFile(label, events, span) ==
    [label |-> label, events |-> events, answers |-> << >>,
     find |-> ("enters" :> [span |-> span, ok |-> TRUE])]
ResultFiles(label) ==
    {Torn} \union {ResultFile(label, n, span) : n \in {0, 2}, span \in {<<>>, <<1, 3>>}}
Directories == [cameras : {<<a, b>> : a \in ResultFiles("c1"), b \in ResultFiles("c2")},
                fused : {NoFile}, economy : {("wall" :> 3)}]
Whole(dir) == Torn \notin ToSet(dir.cameras)

\* What a poll caught in the middle of a write is gone with the next one over whole files;
\* a second poll of the same files changes nothing; the totals are those of the readable
\* files and never more than what the cameras' own gauges add up to.
ASSUME PollsRecover ==
    \A before, during, after \in Directories :
        LET g == LoadResults(NoGauges, before)
            h == LoadResults(g, during)
            k == LoadResults(h, after)
        IN  /\ LoadResults(h, during) = h
            /\ Whole(after) =>
                  /\ k.processed = 2
                  /\ k.total = k.events["c1"] + k.events["c2"]
                  /\ during.cameras = <<Torn, Torn>> => k.events = LoadResults(g, after).events
            /\ h.processed <= Cardinality(DOMAIN h.events)

\* A query that no longer finds anything keeps the span of an earlier run on display,
\* with its success.
ASSUME SpansOutliveTheirRun ==
    LET Dir(span) == [cameras |-> <<ResultFile("c1", 1, span)>>, fused |-> NoFile,
                      economy |-> NoFile]
    IN  LoadResults(LoadResults(NoGauges, Dir(<<1, 3>>)), Dir(<<>>)).spans
            = LoadResults(NoGauges, Dir(<<1, 3>>)).spans

==============================================================================
