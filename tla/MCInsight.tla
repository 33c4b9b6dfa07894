------------------------------ MODULE MCInsight ------------------------------
(***************************************************************************)
(* A small instance of Insight, and the pure functions checked over        *)
(* bounded inputs.                                                         *)
(***************************************************************************)
EXTENDS Insight, Summaries, Search, ModelProfiles, BakeOff

CONSTANTS w1, i1, i2

Symmetry == Permutations(Indexer)

Str(word) == <<Quote, word, Quote>>

\* {"verdict": "benign", "acts": ["a", "}"], "confidence": 0.9}
Doc == <<"{">> \o Str("verdict") \o <<":">> \o Str("benign") \o <<",">> \o Str("acts")
         \o <<":", "[">> \o Str("a") \o <<",">> \o Str("}") \o <<"]", ",">>
         \o Str("confidence") \o <<":", "0.9", "}">>

\* A well-formed answer in a fence, one that breaks off, and no object at all.
McAnswer == {<<"sure", Fence>> \o Doc \o <<Fence>>, SubSeq(Doc, 1, 16), <<"sure">>}

M(event, type, clip, flagged) == [event |-> event, type |-> type, clip |-> clip,
                                  flagged |-> flagged]

\* Two hypotheses on one clip, one that is not flagged, the first again (a restarted rule
\* engine), and a rule event, which carries no clip.
McMessage == <<M(1, "interaction", "c1", TRUE), M(2, "loss", "c1", TRUE),
               M(2, "loss", NoClip, FALSE), M(1, "interaction", "c1", TRUE),
               M(2, "loss", NoClip, TRUE)>>

-----------------------------------------------------------------------------
(* VlmParser *)

\* Closing brackets outside of strings.
ClosersOfDoc == {i \in 2..Len(Doc) : Doc[i] \in {"}", "]"} /\ Doc[i - 1] # Quote}
                \union {SelectInSeq(Doc, LAMBDA c : c = "]")}

\* Whatever closers a model writes, the brackets that are open decide.
ASSUME ClosersAreRepaired ==
    \A f \in [ClosersOfDoc -> {")", "]", "}"}] :
        ParseVerification([i \in DOMAIN Doc |-> IF i \in DOMAIN f THEN f[i] ELSE Doc[i]])
            = ParseVerification(Doc)

\* A text that breaks off is recovered unless it does so between a key and its value.
ASSUME TruncationIsRepaired ==
    \A n \in DOMAIN Doc :
        LET s == Loaded(SubSeq(Doc, 1, n))
            inKey == s.str /\ s.need \in {"key", "key or end"}
            beforeValue == s.need \in {"colon", "value"} /\ ~s.str /\ Last(s.stack) = "{"
        IN  ParseVerification(SubSeq(Doc, 1, n)).parsed <=> ~inKey /\ ~beforeValue

\* Every text gives a verification within its schema.
ASSUME SchemaHolds ==
    \A t \in BoundedSeq({"{", "}", "[", ")", Quote, Escape, ":", "confidence", "NaN"}, 4) :
        LET v == ParseVerification(t).verification
        IN  v.verdict \in ValidVerdict /\ v.confidence \in 0..100

-----------------------------------------------------------------------------
(* Summaries *)

Ev(id, time, severity, conf) ==
    [id |-> id, time |-> time, camera |-> IF id = 1 THEN "aisle" ELSE "exit",
     severity |-> severity, confidence |-> conf, flagged |-> FALSE, incident |-> None,
     missing |-> {"bag"}]
Req(start) == [cameras |-> {}, start |-> start, end |-> None, low |-> FALSE]

\* The fold loses and repeats nothing: every kept event is in one clip, every clip in one
\* window and every window in one hour, and low confidence hides no suspicious event.
ASSUME FoldIsPartition ==
    \A t, u \in {None, 0, 9, 10, 299, 300, 3599, 3600}, conf \in {20, 90},
       start \in {None, 9} :
        LET events == <<Ev(1, t, "high", 10), Ev(2, u, "info", conf), Ev(1, u, "medium", 0)>>
            r == Summarize(Req(start), events, TRUE)
            clips == {n \in DOMAIN r.clips : TRUE}
        IN  /\ \A e \in ToSet(r.kept) :
                  Cardinality({n \in clips : e \in ToSet(r.clips[n].of)}) = 1
            /\ \A n \in clips :
                  Cardinality({w \in DOMAIN r.windows : n \in ToSet(r.windows[w].of)}) = 1
            /\ \A w \in DOMAIN r.windows :
                  Cardinality({h \in DOMAIN r.hours : w \in ToSet(r.hours[h].of)}) = 1
            /\ \A e \in ToSet(events) :
                  IsSuspicious(e) /\ (start = None \/ e.time = None \/ e.time >= start)
                    => e \in ToSet(r.timeline)
            /\ Len(r.review) = Cardinality(ToSet(r.review))

\* The report of the database: the latest observation counts, and an event that is only
\* flagged has lost its flag (lvs.py says such events are always kept).
ASSUME FlagsAreLost ==
    LET row == [Ev(1, 0, "info", 20) EXCEPT !.flagged = TRUE, !.missing = {}]
        seen == <<[event |-> 1, missing |-> {"bag"}], [event |-> 1, missing |-> {"hands"}]>>
    IN  /\ Summarize(Req(None), <<row>>, TRUE).kept = <<row>>
        /\ LoadEvents(<<row>>, seen)[1].missing = {"hands"}
        /\ Summarize(Req(None), LoadEvents(<<row>>, seen), TRUE).kept = <<>>

\* The parity score is the mean of what could be measured, at least of the self-test.
ASSUME ParityIsMean ==
    \A nEvents, nRows, nSeen \in {None, 0, 10, 60} :
        LET lvs == Summarize(Req(0), <<Ev(1, 1924, "high", 80)>>, TRUE)
            r == BuildReport(nEvents, nRows, nSeen, lvs)
        IN  /\ r.measurable \in 1..5 /\ r.overall \in 0..100
            /\ r.overall = 100 <=> \A d \in ToSet(r.dims) : d.score \in {None, 100}

-----------------------------------------------------------------------------
(* Search *)

SearchEvents == {[id |-> 1, type |-> "possible_loss", time |-> 5],
                 [id |-> 2, type |-> "suspicious_item_interaction", time |-> 9]}
SearchRows == {[id |-> 1, row |-> 1, vector |-> 700, words |-> {"item"}],
               [id |-> 1, row |-> 2, vector |-> 700, words |-> {"item"}],
               [id |-> 2, row |-> 3, vector |-> 400, words |-> {"bag"}],
               [id |-> 3, row |-> 4, vector |-> 900, words |-> {}]}

\* An entity is found once, whatever rows it has; fewer hits are a prefix of more hits;
\* none at all (k = 0) are all of them.
ASSUME HitsAreRanked ==
    \A query \in SUBSET {"item", "away", "picked"}, events \in SUBSET SearchEvents,
       rows \in SUBSET SearchRows, k \in 0..2 :
        LET hits == SearchHits(query, k, events, rows)
            all == SearchHits(query, 0, events, rows)
        IN  /\ \A i, j \in DOMAIN all : i < j => all[i].id # all[j].id
                                                /\ all[i].score >= all[j].score
            /\ {r.id : r \in rows} \subseteq {h.id : h \in ToSet(all)}
            /\ k > 0 => hits = FirstN(all, k)

-----------------------------------------------------------------------------
(* ModelProfiles *)

Operations == {"nvidia", "qwen", "unknown"} \X {"activate", "api", "down", "up"}
              \union {<<"", "rollback">>}
Do(v, op) ==
    CASE op[2] = "activate" -> Applied([v EXCEPT !.history = Activated(@, op[1])], op[1])
      [] op[2] = "api" -> ApiActivated(v, op[1])
      [] op[2] = "rollback" -> RollbackActive(v)
      [] OTHER -> [v EXCEPT !.up = op[2] = "up"]

\* At most one profile is active after any operations; a second rollback undoes the first;
\* and a rollback in a database that never failed leaves active what the history says,
\* whatever was activated through the API in between.
ASSUME RollbackToggles ==
    \A ops \in BoundedSeq(Operations, 3) :
        LET start == [history |-> <<>>, active |-> {"nvidia"}, marker |-> NoProfile, up |-> TRUE]
            end == FoldLeft(Do, start, ops)
            once == RollbackActive(end)
            twice == RollbackActive(once)
        IN  /\ Cardinality(end.active) <= 1
            /\ \A i \in 2..Len(end.history) : end.history[i] # end.history[i - 1]
            /\ Len(end.history) >= 2 =>
                  /\ CurrentOf(twice.history) = CurrentOf(end.history)
                  /\ once.up /\ CurrentOf(once.history) \in Registered =>
                        once.active = {CurrentOf(once.history)}

\* host.py: "always returns a runnable plugin", whatever the file says.
ASSUME PluginIsRunnable ==
    \A active \in {"nvidia", "qwen", NoProfile}, plugin \in {"nvidia_vlm", "typo"},
       env \in {"nvidia", "qwen", NoProfile} :
        \A known \in SUBSET {"nvidia", "qwen"} :
            LET yaml == [active |-> active, profiles |-> [p \in known |-> plugin]]
            IN  /\ LoadPlugin(yaml, {"nvidia_vlm"}, "default") \in {"nvidia_vlm", "default"}
                /\ MakeDetectionPlugin(yaml, env, "cv_oss_detector") = "cv_oss_detector"

-----------------------------------------------------------------------------
(* BakeOff *)

\* A percentile grows with pct, from the least value to the greatest, and what was not
\* measured is in no mean.
ASSUME PercentilesAreOrdered ==
    \A values \in BoundedSeq({1, 2, 7}, 4) \ {<<>>} :
        /\ Percentile(values, 0) = 100 * MinOf(values)
        /\ Percentile(values, 100) = 100 * MaxOf(values)
        /\ \A pct \in 1..100 : Percentile(values, pct - 1) <= Percentile(values, pct)
        /\ LET Run(i) == [latency |-> values[i], power |-> 5, tokens |-> 1,
                          ttft |-> IF i = 1 THEN NotMeasured ELSE values[i],
                          tps |-> NotMeasured, parsed |-> i # 2]
               res == RunBenchmark([i \in DOMAIN values |-> Run(i)], 3)
           IN  /\ res.tps = NotMeasured /\ res.power = 5
               /\ res.ttft = IF Len(values) = 1 THEN NotMeasured
                             ELSE Percentile(Tail(values), 95)
               /\ res.n * 60000 >= res.clipsPerMin * res.wall

Candidate(name, throughput, quality, kind, available) ==
    [runtime |-> name, throughput |-> throughput, quality |-> quality, kind |-> kind,
     available |-> available, latency |-> 10 - throughput, cost |-> (12 \div throughput)]

Better(a, b) == a.throughput > b.throughput /\ a.quality > b.quality

\* Production is available if anything is, and nothing available is better in everything;
\* with a second candidate the fallback is another one, available if one is.
ASSUME SelectionDegrades ==
    \A q1, q2, q3 \in 1..3, t \in 1..2, S \in SUBSET (1..3), kind \in {"local", "container"} :
        LET all == <<Candidate(1, 2, q1, kind, 1 \in S), Candidate(2, t, q2, "server", 2 \in S),
                     Candidate(3, 3, q3, "container", 3 \in S)>>
            sel == SelectProfiles(all, Weights)
        IN  /\ sel.production.available <=> S # {}
            /\ \A r \in ToSet(all) : Better(r, sel.production) => ~r.available /\ S # {}
            /\ sel.fallback.runtime # sel.production.runtime
            /\ sel.fallback.available <=> Cardinality(S) > 1

\* Scores are relative to the worst and the best candidate: one that is not available and
\* not chosen decides which of two available ones becomes production.
ASSUME OthersDecide ==
    LET two == <<Candidate(1, 6, 1, "local", TRUE), Candidate(2, 5, 2, "local", TRUE)>>
        three == Append(two, Candidate(3, 1, 1, "server", FALSE))
    IN  /\ SelectProfiles(two, Weights).production.runtime = 1
        /\ SelectProfiles(three, Weights).production.runtime = 2

\* On two fakes of the repository, llama_cpp and tensorrt_llm: the compiled engine is
\* fastest, so it is production wherever it is available; an operator can force that.
FakeOf(base, jitter, power, ttft) ==
    [base |-> base, jitter |-> jitter, power |-> power, tokens |-> 180, ttft |-> ttft]
Matrix == <<[runtime |-> 1, kind |-> "local", probe |-> TRUE, quality |-> 93,
             fake |-> FakeOf(2050, 550, 145, 470)],
            [runtime |-> 2, kind |-> "server", probe |-> FALSE, quality |-> 96,
             fake |-> FakeOf(950, 250, 260, 210)]>>
ASSUME ForcedWins ==
    \A forced \in SUBSET {1, 2} :
        SelectProfiles([i \in 1..2 |-> RunOneRuntime(Matrix[i], 10, forced)], Weights)
            .production.runtime = IF 2 \in forced THEN 2 ELSE 1

=============================================================================
