------------------------------- MODULE Fusion --------------------------------
(***************************************************************************)
(* What the store cascade makes of the cameras it watched                  *)
(* (src/kathirmani/pipeline.py, fuse_results).  A span is a pair of times  *)
(* or NoSpan; an event is [start, end, words, length], `words` being the   *)
(* set of words of its description and `length` its characters.  A result  *)
(* is what one camera left: [label, events, find], `find` mapping the find *)
(* queries that were asked to a span, NoSpan, or Failed.                   *)
(***************************************************************************)
EXTENDS Integers, FiniteSets, SequencesExt

CONSTANTS Query, NoSpan, Failed

\* A set of cameras in the order of the videos: the n-th has n - 1 before it.
InOrder(S) ==
    [n \in 1..Cardinality(S) |-> CHOOSE c \in S : Cardinality({d \in S : d < c}) = n - 1]

Largest(a, b) == IF a >= b THEN a ELSE b
Smallest(a, b) == IF a <= b THEN a ELSE b

\* The results that answered q with a span, in the order of the cameras.
Candidates(results, q) ==
    {i \in DOMAIN results : /\ q \in DOMAIN results[i].find
                            /\ results[i].find[q] \notin {NoSpan, Failed}}

Length(results, q, i) == results[i].find[q][2] - results[i].find[q][1]

\* The sort is stable: of the longest spans the first camera's is taken.
Best(results, q) ==
    CHOOSE i \in Candidates(results, q) :
        \A j \in Candidates(results, q) :
            \/ Length(results, q, j) < Length(results, q, i)
            \/ Length(results, q, j) = Length(results, q, i) /\ i <= j

FusedFind(results) ==
    [q \in Query |->
        IF Candidates(results, q) = {} THEN [span |-> NoSpan, camera |-> NoSpan]
        ELSE [span |-> results[Best(results, q)].find[q],
              camera |-> results[Best(results, q)].label]]

\* More than 0.3 of the time that either event spans.
Overlaps(a, b) ==
    LET inter == Largest(0, Smallest(a.end, b.end) - Largest(a.start, b.start))
        union == Largest(a.end, b.end) - Smallest(a.start, b.start)
    IN union > 0 /\ 10 * inter > 3 * union

SimilarWords(a, b) ==
    /\ a.words # {} /\ b.words # {}
    /\ 2 * Cardinality(a.words \cap b.words)
            >= Largest(Cardinality(a.words), Cardinality(b.words))

\* An event joins the first kept one it repeats and stands for both of them
\* when it is described at greater length.
Kept(kept, event) ==
    LET Repeated == {i \in DOMAIN kept : SimilarWords(event, kept[i]) /\ Overlaps(event, kept[i])}
        i == CHOOSE n \in Repeated : \A m \in Repeated : n <= m
    IN IF Repeated = {} THEN Append(kept, event)
       ELSE IF event.length > kept[i].length THEN [kept EXCEPT ![i] = event] ELSE kept

RawEvents(results) == FlattenSeq([i \in DOMAIN results |-> results[i].events])

\* The loop over the raw events; {f[n - 1]} has TLC evaluate what was kept so far once.
Deduplicated(raw) ==
    LET f[n \in 0..Len(raw)] ==
            IF n = 0 THEN <<>>
            ELSE CHOOSE next \in {Kept(kept, raw[n]) : kept \in {f[n - 1]}} : TRUE
    IN f[Len(raw)]

FuseResults(results) ==
    [cameras |-> [i \in DOMAIN results |-> results[i].label],
     find |-> FusedFind(results),
     events |-> Deduplicated(RawEvents(results)),
     total_raw |-> Len(RawEvents(results))]
==============================================================================
