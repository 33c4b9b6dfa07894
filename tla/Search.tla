-------------------------------- MODULE Search --------------------------------
(***************************************************************************)
(* Natural-language search over `events` and `embeddings`                  *)
(* (ai_workers/embedding_worker/search.py).                                *)
(*                                                                         *)
(* A query is a set of cues (what the patterns of the vocabulary match)    *)
(* and words.  A candidate is [id, type, time, vector, words], with        *)
(* NoValue for a missing type or time; similarity and scores are in        *)
(* thousandths.  Similarity is given: the distance belongs to pgvector.    *)
(***************************************************************************)
EXTENDS Integers, FiniteSets, SequencesExt

CONSTANT NoValue

IntentRules ==
    {[cue |-> "without paying",
      types |-> {"possible_billing_bypass", "possible_loss", "billing_bypass"}],
     [cue |-> "picked", types |-> {"suspicious_item_interaction"}],
     [cue |-> "camera blocked", types |-> {"camera_health_issue"}]}
ObjectWords == {"item", "bag"}

\* query_parser: the event types a query asks for.
QueryParser(query) ==
    UNION {r.types : r \in {x \in IntentRules : x.cue \in query}}
    \union (IF query \intersect ObjectWords # {} /\ "away" \in query
            THEN {"possible_billing_bypass", "possible_loss"} ELSE {})

FirstN(s, n) == SubSeq(s, 1, IF Len(s) < n THEN Len(s) ELSE n)

\* metadata_filter: the newest events of these types; of all types if none is asked for.
MetadataFilter(types, events, limit) ==
    LET hits == {e \in events : types = {} \/ e.type \in types}
        newest == SetToSortSeq(hits, LAMBDA d, e : d.time > e.time
                                                   \/ (d.time = e.time /\ d.id < e.id))
    IN  FirstN([n \in DOMAIN newest |->
                    [id |-> newest[n].id, type |-> newest[n].type, time |-> newest[n].time,
                     vector |-> 0, words |-> {}]], limit)

\* vector_search: the rows nearest to the query; they have neither type nor time.
VectorSearch(rows, k) ==
    LET nearest == SetToSortSeq(rows, LAMBDA r, s : r.vector > s.vector
                                                    \/ (r.vector = s.vector /\ r.row < s.row))
    IN  FirstN([n \in DOMAIN nearest |->
                    [id |-> nearest[n].id, type |-> NoValue, time |-> NoValue,
                     vector |-> nearest[n].vector, words |-> nearest[n].words]], k)

\* _merge: one candidate per id, with the best of each signal.
Merge(meta, vec) ==
    LET or(a, b, missing) == IF a = missing THEN b ELSE a
        join(c, d) == [c EXCEPT !.vector = IF d.vector > @ THEN d.vector ELSE @,
                                !.type = or(@, d.type, NoValue), !.time = or(@, d.time, NoValue),
                                !.words = or(@, d.words, {})]
        add(acc, d) ==
            LET i == SelectInSeq(acc, LAMBDA c : c.id = d.id)
            IN  IF i = 0 THEN Append(acc, d) ELSE [acc EXCEPT ![i] = join(@, d)]
    IN  FoldLeft(add, <<>>, meta \o vec)

\* sort(reverse=True) keeps the order of equal scores.
Ranked(cands) ==
    LET order == SetToSortSeq(DOMAIN cands, LAMBDA i, j : cands[i].score > cands[j].score
                                                \/ (cands[i].score = cands[j].score /\ i < j))
    IN  [n \in DOMAIN cands |-> cands[order[n]]]

\* fuse: similarity 0.7, event type 0.2, recency among the candidates 0.1.
Fuse(types, cands) ==
    LET times == {c.time : c \in ToSet(cands)} \ {NoValue}
        span == IF times = {} \/ Max(times) = Min(times) THEN 1 ELSE Max(times) - Min(times)
        recency(c) == IF c.time = NoValue THEN 0 ELSE ((c.time - Min(times)) * 100) \div span
        bonus(c) == IF c.type # NoValue /\ c.type \in types THEN 200 ELSE 0
    IN  Ranked([n \in DOMAIN cands |->
                    [id |-> cands[n].id, words |-> cands[n].words,
                     score |-> (cands[n].vector * 7) \div 10 + bonus(cands[n])
                               + recency(cands[n])]])

\* SearchCriticStub.rerank: 0.05 for every shared word; top_k = 0 asks for everything.
Rerank(query, cands, topK) ==
    LET nudged == Ranked([n \in DOMAIN cands |->
                            [cands[n] EXCEPT !.score =
                                @ + 50 * Cardinality(query \intersect cands[n].words)]])
    IN  IF topK = 0 THEN nudged
        ELSE IF topK > 0 THEN FirstN(nudged, topK)
        ELSE FirstN(nudged, IF Len(nudged) + topK > 0 THEN Len(nudged) + topK ELSE 0)

\* search
SearchHits(query, k, events, rows) ==
    LET types == QueryParser(query)
        cands == Merge(MetadataFilter(types, events, 200),
                       VectorSearch(rows, IF k * 5 > 50 THEN k * 5 ELSE 50))
    IN  Rerank(query, Fuse(types, cands), k)

=============================================================================
