---------------------------- MODULE ResultsServer ----------------------------
(***************************************************************************)
(* The legacy metrics server (src/kathirmani/serve_metrics.py): every poll *)
(* reads the result files of the cascade and sets gauges that live as long *)
(* as the server, while a run is rewriting the files.                      *)
(*                                                                         *)
(* A camera's file is [label, events, find, answers], find a function from *)
(* queries to [span, ok] and answers one from questions to [ok, long]; a   *)
(* file that is being rewritten is Torn.  dir is [cameras, fused,          *)
(* economy], cameras a sequence.                                           *)
(***************************************************************************)
EXTENDS Integers, FiniteSets, SequencesExt, TLC

CONSTANTS
    Torn,
    NoFile,
    SecurityQuestion    \* questions about losses

NoGauges == [events |-> << >>, spans |-> << >>, ok |-> << >>, answered |-> << >>,
             signals |-> << >>, processed |-> 0, total |-> 0, fused |-> << >>,
             fusedSpans |-> << >>, economy |-> << >>]

\* The spans of find results: only of those that have one.
SpansOf(find) ==
    [q \in {k \in DOMAIN find : find[k].span # <<>>} |->
        LET span == find[q].span
        IN  [start |-> span[1], end |-> span[2],
             length |-> IF span[2] > span[1] THEN span[2] - span[1] ELSE 0]]

\* The answers that came back, and those that tell of a loss.
Answered(answers) == {q \in DOMAIN answers : answers[q].ok}
Signals(answers) == {q \in Answered(answers) \intersect SecurityQuestion : answers[q].long}

\* A gauge of a camera's queries.
Labelled(label, byQuery) ==
    [k \in {<<label, q>> : q \in DOMAIN byQuery} |-> byQuery[k[2]]]

\* One file of load_results; one that does not parse is passed over.
LoadCamera(g, data) ==
    IF data = Torn THEN g
    ELSE LET asked == data.answers # << >>
         IN  [g EXCEPT
                !.events = (data.label :> data.events) @@ @,
                !.total = @ + data.events,
                !.processed = @ + 1,
                !.ok = Labelled(data.label, [q \in DOMAIN data.find |-> data.find[q].ok]) @@ @,
                !.spans = Labelled(data.label, SpansOf(data.find)) @@ @,
                !.answered = IF ~asked THEN @
                             ELSE (data.label :> Cardinality(Answered(data.answers))) @@ @,
                !.signals = IF ~asked THEN @
                            ELSE (data.label :> Cardinality(Signals(data.answers))) @@ @]

\* _load_fused
LoadFused(g, fused) ==
    IF fused \in {Torn, NoFile} THEN g
    ELSE [g EXCEPT !.fused = [unique |-> fused.unique, raw |-> fused.raw],
                   !.fusedSpans = SpansOf(fused.find) @@ @]

\* _load_economy sets the gauges of the entries that are there.
LoadEconomy(g, economy) ==
    IF economy \in {Torn, NoFile} THEN g ELSE [g EXCEPT !.economy = economy @@ @]

\* load_results: the totals start over, the gauges of cameras and queries do not.
LoadResults(g, dir) ==
    LET cameras == FoldLeft(LoadCamera, [g EXCEPT !.total = 0, !.processed = 0], dir.cameras)
    IN  LoadEconomy(LoadFused(cameras, dir.fused), dir.economy)

=============================================================================
