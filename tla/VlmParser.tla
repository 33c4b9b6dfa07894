------------------------------ MODULE VlmParser ------------------------------
(***************************************************************************)
(* From the text of a vision-language model to a verification              *)
(* (ai_workers/vlm_worker/parser.py).                                      *)
(*                                                                         *)
(* A text is a sequence of tokens: brackets, quotes, commas, colons, the   *)
(* escape character, code fences and words; white space is left out.  Of   *)
(* the fields of a verification the verdict and the confidence are kept,   *)
(* numbers are in hundredths, and None is the empty text.  Texts that make *)
(* the parser raise (an integer no float can hold, nesting beyond the      *)
(* recursion limit) are not among them: infer answers those with the       *)
(* stand-in, as after any other error (VlmWorker's Fake).                  *)
(***************************************************************************)
EXTENDS Integers, SequencesExt

Quote == "\""
Escape == "\\"
Fence == "fence"
ValidVerdict == {"suspicious", "benign", "unclear"}

\* The numbers that texts are made of, in hundredths: all of them fit a float.
NumberOf == [n \in {"0.9", "85", "250", "-1"} |->
                CASE n = "0.9" -> 90 [] n = "85" -> 8500 [] n = "250" -> 25000 [] n = "-1" -> -100]

CloserOf(c) == IF c = "{" THEN "}" ELSE "]"

\* Inside a string literal, which ends at a quote that is not escaped.
Quoted(s, c) == [s EXCEPT !.esc = ~s.esc /\ c = Escape, !.str = s.esc \/ c # Quote]

\* text.find("{") onwards; nothing without one.
FromObject(text) ==
    LET i == SelectInSeq(text, LAMBDA c : c = "{")
    IN  IF i = 0 THEN <<>> ELSE SubSeq(text, i, Len(text))

-----------------------------------------------------------------------------
(* json.loads, as a pushdown automaton: need is what may come next.        *)

Value == {"value", "value or end"}

LoadStep(s, c) ==
    LET closed(t) == [t EXCEPT !.need = IF t.stack = <<>> THEN "done" ELSE "comma or end"]
        valued(t, v) == closed(IF Len(t.stack) = 1 /\ t.key # ""
                               THEN [t EXCEPT !.fields = [k \in DOMAIN @ \union {t.key} |->
                                                            IF k = t.key THEN v ELSE @[k]]]
                               ELSE t)
        word == IF Len(s.text) = 1 THEN s.text[1] ELSE "other"
        opens(need) == [s EXCEPT !.stack = Append(@, c), !.need = need]
        is(set) == s.need \in set
    IN  CASE s.str /\ s.esc /\ c \notin {Quote, Escape} ->
                [s EXCEPT !.need = "nothing", !.str = FALSE]
          [] s.str /\ (s.esc => c \in {Quote, Escape}) ->
                IF s.esc \/ c # Quote THEN Quoted([s EXCEPT !.text = Append(@, c)], c)
                ELSE IF is(Value) THEN valued(Quoted(s, c), word)
                ELSE [Quoted(s, c) EXCEPT !.need = "colon",
                                          !.key = IF Len(s.stack) = 1 THEN word ELSE @]
          [] ~s.str /\ c = Quote /\ s.stack # <<>>
                /\ is(Value \union {"key", "key or end"}) ->
                [s EXCEPT !.str = TRUE, !.text = <<>>]
          [] c = "{" /\ is(Value) -> opens("key or end")
          [] c = "[" /\ is(Value) /\ s.stack # <<>> -> opens("value or end")
          [] c \in DOMAIN NumberOf \union {"NaN"} /\ is(Value) /\ s.stack # <<>> -> valued(s, c)
          [] c \in {"}", "]"} /\ s.stack # <<>> /\ CloserOf(Last(s.stack)) = c
                /\ is({"comma or end", IF c = "}" THEN "key or end" ELSE "value or end"}) ->
                valued([s EXCEPT !.stack = Front(@)], "nested")
          [] c = ":" /\ is({"colon"}) -> [s EXCEPT !.need = "value"]
          [] c = "," /\ is({"comma or end"}) ->
                [s EXCEPT !.need = IF Last(s.stack) = "{" THEN "key" ELSE "value"]
          [] OTHER -> [s EXCEPT !.need = "nothing", !.str = FALSE]

\* The state of the automaton after a text; _try_load accepts an object only.
Loaded(text) ==
    FoldLeft(LoadStep,
             [stack |-> <<>>, need |-> "value", str |-> FALSE, esc |-> FALSE, text |-> <<>>,
              key |-> "", fields |-> <<>>], text)
IsObject(text) == Loaded(text).need = "done"

-----------------------------------------------------------------------------
(* Extraction and repair *)

\* _strip_fences: what is between the first two fences.
StripFences(text) ==
    LET i == SelectInSeq(text, LAMBDA c : c = Fence)
        j == SelectInSubSeq(text, i + 1, Len(text), LAMBDA c : c = Fence)
    IN  IF i = 0 \/ j = 0 THEN text ELSE SubSeq(text, i + 1, j - 1)

\* _first_json_object: up to the brace that brings the depth back to 0.
FirstJsonObject(text) ==
    LET step(s, c) ==
            IF s.done THEN s
            ELSE LET t == [s EXCEPT !.out = Append(@, c)]
                     depth == s.depth + CASE c = "{" -> 1 [] c = "}" -> -1 [] OTHER -> 0
                 IN  IF s.str THEN Quoted(t, c)
                     ELSE [t EXCEPT !.str = c = Quote, !.depth = depth,
                                    !.done = c = "}" /\ depth = 0]
        end == FoldLeft(step, [out |-> <<>>, depth |-> 0, str |-> FALSE, esc |-> FALSE,
                               done |-> FALSE], FromObject(text))
    IN  IF end.done THEN end.out ELSE <<>>

\* _repair_mismatched_closers: every closer becomes the one the structure expects.
RepairMismatchedClosers(text) ==
    LET emit(s, c) == [s EXCEPT !.out = Append(@, c)]
        step(s, c) ==
            CASE s.str -> Quoted(emit(s, c), c)
              [] ~s.str /\ c = Quote -> [emit(s, c) EXCEPT !.str = TRUE]
              [] ~s.str /\ c \in {"{", "["} -> [emit(s, c) EXCEPT !.stack = Append(@, CloserOf(c))]
              [] ~s.str /\ c \in {")", "]", "}"} ->
                    IF s.stack = <<>> THEN s
                    ELSE [emit(s, Last(s.stack)) EXCEPT !.stack = Front(@)]
              [] ~s.str /\ c = "(" -> s
              [] OTHER -> emit(s, c)
    IN  FoldLeft(step, [out |-> <<>>, stack |-> <<>>, str |-> FALSE, esc |-> FALSE],
                 FromObject(text)).out

\* rstrip(","), before every closer that is added.
Stripped(text) ==
    SubSeq(text, 1, SelectLastInSeq(text, LAMBDA c : c # ","))

\* _repair_truncated: the open string and the open brackets are closed.
RepairTruncated(text) ==
    LET step(s, c) ==
            CASE s.str -> Quoted(s, c)
              [] ~s.str /\ c = Quote -> [s EXCEPT !.str = TRUE]
              [] ~s.str /\ c \in {"{", "["} -> [s EXCEPT !.stack = Append(@, CloserOf(c))]
              [] ~s.str /\ c \in {"]", "}"} /\ s.stack # <<>> /\ Last(s.stack) = c ->
                    [s EXCEPT !.stack = Front(@)]
              [] OTHER -> s
        from == FromObject(text)
        end == FoldLeft(step, [stack |-> <<>>, str |-> FALSE, esc |-> FALSE], from)
        close(c, res) == Append(Stripped(res), c)
    IN  FoldRight(close, end.stack, IF end.str THEN Append(from, Quote) ELSE from)

-----------------------------------------------------------------------------
(* Verification *)

\* _as_confidence: NaN passes both comparisons and ends up at the upper bound.
AsConfidence(v) ==
    IF v = "NaN" THEN 100
    ELSE IF v \notin DOMAIN NumberOf THEN 50
    ELSE LET h == NumberOf[v]
         IN  IF h > 10000 THEN 100
             ELSE IF h > 100 THEN h \div 100
             ELSE IF h < 0 THEN 0 ELSE h

\* coerce: schema-valid whatever the object holds.
Coerce(fields) ==
    [verdict |-> IF "verdict" \in DOMAIN fields /\ fields["verdict"] \in ValidVerdict
                 THEN fields["verdict"] ELSE "unclear",
     confidence |-> IF "confidence" \in DOMAIN fields THEN AsConfidence(fields["confidence"])
                    ELSE 50]

\* _unparsed
Unparsed == [verdict |-> "unclear", confidence |-> 0]

\* What parse_verification tries to load, in order.
Tries(raw) ==
    LET text == StripFences(raw)
    IN  <<raw, text, FirstJsonObject(text), RepairMismatchedClosers(text),
          RepairTruncated(text), RepairMismatchedClosers(RepairTruncated(text))>>

\* parse_verification: the first that loads.
ParseVerification(raw) ==
    LET i == SelectInSeq(Tries(raw), IsObject)
    IN  IF i = 0 THEN [verification |-> Unparsed, parsed |-> FALSE]
        ELSE [verification |-> Coerce(Loaded(Tries(raw)[i]).fields), parsed |-> TRUE]

=============================================================================
