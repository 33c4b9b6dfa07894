---------------------------- MODULE CascadeProofs ----------------------------
(***************************************************************************)
(* Proofs about Cascade: the progress counter and the refinement of        *)
(* CascadeBatch, for any cameras, queries, threads and failures.           *)
(***************************************************************************)
EXTENDS Cascade, FiniteSetTheorems, TLAPS

(* The progress counter *)

Prompt == 0..Len(Queries)
Left == {"save", "returned", "raised", "collected", "lost"}

\* The prompts that were answered, or that the camera will never be asked.
Counted == {p \in Camera \X Prompt : p[2] < prompt[p[1]] \/ pc[p[1]] \in Left}

\* A camera is at a prompt that there is, and the counter is the number of prompts counted.
CountInv ==
    /\ DOMAIN pc = Camera /\ DOMAIN prompt = Camera
    /\ \A c \in Camera : prompt[c] \in Nat
    /\ \A c \in Camera : pc[c] \in {"prompt", "gpu", "answer"} => prompt[c] \in Prompt
    /\ \A c \in Camera : pc[c] \in {"listed", "trimmed", "untrimmed"} => prompt[c] = 0
    /\ progress = Cardinality(Counted)

LEMMA Prompts ==
  /\ Len(Queries) \in Nat
  /\ IsFiniteSet(Prompt) /\ Cardinality(Prompt) = 1 + Len(Queries)
  /\ IsFiniteSet(Camera \X Prompt) /\ Cardinality(Camera \X Prompt) = Total
<1>1. Len(Queries) \in Nat
  BY CascadeAssumption
<1>2. IsFiniteSet(Prompt) /\ Cardinality(Prompt) = 1 + Len(Queries)
  BY <1>1, FS_Interval DEF Prompt
<1>3. IsFiniteSet(Camera)
  BY CascadeAssumption
<1>4. /\ IsFiniteSet(Camera \X Prompt)
      /\ Cardinality(Camera \X Prompt) = Cardinality(Camera) * Cardinality(Prompt)
  BY <1>2, <1>3, FS_Product
<1> QED
  BY <1>1, <1>2, <1>4 DEF Total

LEMMA CountedFinite == IsFiniteSet(Counted)
  BY Prompts, FS_Subset DEF Counted

LEMMA CountInit == Init => CountInv
<1> SUFFICES ASSUME Init PROVE CountInv
  OBVIOUS
<1>1. Counted = {}
  BY DEF Init, Counted, Left, Prompt
<1> QED
  BY <1>1, FS_EmptySet DEF Init, CountInv

LEMMA CountNext == CountInv /\ [Next]_vars => CountInv'
<1> SUFFICES ASSUME CountInv, [Next]_vars PROVE CountInv'
  OBVIOUS
<1>1. CASE UNCHANGED <<pc, prompt, progress>>
  BY <1>1 DEF CountInv, Counted
<1>2. ASSUME NEW c \in Camera,
             /\ UNCHANGED <<prompt, progress>>
             /\ DOMAIN pc' = Camera /\ \A d \in Camera \ {c} : pc'[d] = pc[d]
             /\ \/ pc[c] \in {"listed", "trimmed"} /\ pc'[c] \in {"trimmed", "untrimmed", "prompt"}
                \/ pc[c] \in {"prompt", "gpu"} /\ pc'[c] \in {"gpu", "answer"}
                \/ pc[c] \in Left /\ pc'[c] \in Left
      PROVE  CountInv'
  <2>1. \A d \in Camera : pc'[d] \in Left <=> pc[d] \in Left
    BY <1>2 DEF Left
  <2>2. Counted' = Counted
    BY <1>2, <2>1 DEF Counted
  <2>3. \A d \in Camera : /\ pc'[d] \in {"prompt", "gpu", "answer"} => prompt[d] \in Prompt
                          /\ pc'[d] \in {"listed", "trimmed", "untrimmed"} => prompt[d] = 0
    BY <1>2, Prompts DEF CountInv, Left, Prompt
  <2> QED
    BY <1>2, <2>2, <2>3 DEF CountInv, Prompt
<1>3. ASSUME NEW c \in Camera, Decode(c) PROVE CountInv'
  <2>1. CASE pc' = [pc EXCEPT ![c] = "prompt"] /\ progress' = progress
    BY <1>2, <1>3, <2>1 DEF Decode, CountInv
  <2>2. CASE pc' = [pc EXCEPT ![c] = "save"] /\ progress' = Skipped
    <3> DEFINE new == {c} \X Prompt
    <3>1. UNCHANGED prompt /\ prompt[c] = 0 /\ pc[c] = "trimmed"
      BY <1>3 DEF Decode, CountInv
    <3>2. Counted' = Counted \union new /\ Counted \intersect new = {}
      BY <2>2, <3>1 DEF CountInv, Counted, Left, Prompt
    <3>3. IsFiniteSet(new) /\ Cardinality(new) = 1 + Len(Queries)
      <4>1. IsFiniteSet({c}) /\ Cardinality({c}) = 1
        BY FS_Singleton
      <4>2. IsFiniteSet(new) /\ Cardinality(new) = Cardinality({c}) * Cardinality(Prompt)
        BY <4>1, Prompts, FS_Product
      <4> QED
        BY <4>1, <4>2, Prompts
    <3>4. /\ Cardinality(Counted \union new)
                = Cardinality(Counted) + Cardinality(new) - Cardinality(Counted \intersect new)
          /\ Cardinality(Counted \intersect new) = 0
          /\ Cardinality(Counted) \in Nat
      BY <3>2, <3>3, CountedFinite, FS_Union, FS_EmptySet, FS_CardinalityType
    <3>5. progress' = Cardinality(Counted')
      BY <2>2, <3>2, <3>3, <3>4, Prompts DEF CountInv, Skipped
    <3> QED
      BY <2>2, <3>1, <3>5 DEF CountInv, Prompt
  <2> QED
    BY <1>3, <2>1, <2>2 DEF Decode
<1>4. ASSUME NEW c \in Camera, Record(c) PROVE CountInv'
  <2> DEFINE n == prompt[c]
  <2>1. /\ n \in Prompt /\ n \in 0..Len(Queries) /\ pc[c] = "answer"
        /\ prompt' = [prompt EXCEPT ![c] = n + 1] /\ progress' = progress + 1
        /\ pc' = [pc EXCEPT ![c] = IF n = Len(Queries) THEN "save" ELSE "prompt"]
    BY <1>4 DEF Record, CountInv, Prompt
  <2>2. DOMAIN pc = Camera /\ DOMAIN prompt = Camera
    BY DEF CountInv
  <2>3. <<c, n>> \notin Counted
    BY <2>1, Prompts DEF Counted, Left, Prompt
  <2>4. Counted' = Counted \union {<<c, n>>}
    <3>1. ASSUME NEW p \in Camera \X Prompt, p[1] # c PROVE p \in Counted' <=> p \in Counted
      BY <2>1, <2>2, <3>1 DEF Counted
    <3>2. ASSUME NEW m \in Prompt PROVE <<c, m>> \in Counted' <=> m <= n
      BY <2>1, <2>2, <3>2, Prompts DEF Counted, Left, Prompt
    <3>3. ASSUME NEW m \in Prompt PROVE <<c, m>> \in Counted <=> m < n
      BY <2>1, <2>2, <3>3, Prompts DEF Counted, Left, Prompt
    <3>4. ASSUME NEW m \in Prompt PROVE m <= n <=> m < n \/ m = n
      BY <2>1, <3>4, Prompts DEF Prompt
    <3>5. Counted' \subseteq Camera \X Prompt /\ Counted \subseteq Camera \X Prompt
      BY DEF Counted, Prompt
    <3> HIDE DEF n
    <3>6. ASSUME NEW p \in Camera \X Prompt PROVE p \in Counted' <=> p \in Counted \/ p = <<c, n>>
      <4>1. p = <<p[1], p[2]>> /\ p[1] \in Camera /\ p[2] \in Prompt
        BY <3>6
      <4>2. CASE p[1] = c
        <5>1. p = <<c, p[2]>>
          BY <4>1, <4>2
        <5>2. p = <<c, n>> <=> p[2] = n
          BY <5>1
        <5> QED
          BY <4>1, <5>1, <5>2, <3>2, <3>3, <3>4
      <4> QED
        BY <3>1, <4>1, <4>2
    <3> QED
      BY <2>1, <3>5, <3>6
  <2>5. progress' = Cardinality(Counted')
    BY <2>1, <2>3, <2>4, CountedFinite, FS_AddElement DEF CountInv
  <2> QED
    BY <2>1, <2>2, <2>5, Prompts DEF CountInv, Prompt
<1>5. ASSUME NEW c \in Camera, Trim(c) PROVE CountInv'
  BY <1>2, <1>5 DEF Trim, CountInv
<1>6. ASSUME NEW c \in Camera, Acquire(c) PROVE CountInv'
  BY <1>2, <1>6 DEF Acquire, CountInv
<1>7. ASSUME NEW c \in Camera, Generate(c) PROVE CountInv'
  BY <1>2, <1>7 DEF Generate, CountInv
<1>8. ASSUME NEW c \in Camera, Save(c) PROVE CountInv'
  BY <1>2, <1>8 DEF Save, CountInv, Left
<1>9. ASSUME NEW c \in Camera, Collect(c) PROVE CountInv'
  BY <1>2, <1>9 DEF Collect, CountInv, Left
<1>10. CASE \/ Dispatch \/ Fuse \/ ProcessVideo \/ Economy \/ Locate \/ Finish \/ Sample
            \/ UNCHANGED vars \/ \E c \in Camera : Ask(c)
  <2>1. UNCHANGED <<pc, prompt, progress>>
    BY <1>10 DEF Dispatch, Fuse, ProcessVideo, Economy, Locate, Finish, Sample, Ask, vars, threadVars
  <2> QED
    BY <1>1, <2>1
<1> QED
  BY <1>3, <1>4, <1>5, <1>6, <1>7, <1>8, <1>9, <1>10 DEF Next, Main, Thread

\* The count never overshoots and is complete when all cameras are settled, whatever fails.
THEOREM ProgressIsHonest == Spec => []ProgressEndsAtTotal
<1>1. CountInv => ProgressEndsAtTotal
  <2> SUFFICES ASSUME CountInv PROVE ProgressEndsAtTotal
    OBVIOUS
  <2>1. Counted \subseteq Camera \X Prompt
    BY DEF Counted
  <2>2. Cardinality(Counted) <= Cardinality(Camera \X Prompt)
    BY <2>1, Prompts, FS_Subset
  <2>3. ASSUME \A c \in Camera : pc[c] \in {"collected", "lost"} PROVE progress = Total
    <3>1. Counted = Camera \X Prompt
      BY <2>3 DEF Counted, Left
    <3> QED
      BY <3>1, Prompts DEF CountInv
  <2> QED
    BY <2>2, <2>3, Prompts DEF CountInv, ProgressEndsAtTotal
<1> QED
  BY <1>1, CountInit, CountNext, PTL DEF Spec

-----------------------------------------------------------------------------
(* What a camera leaves *)

\* The output of a camera that is at prompt n, when those in `raised` did not come back.
Answers(c, raised, n) ==
    [q \in {Queries[k] : k \in 1..n} |->
        IF \E k \in 1..n : k \in raised /\ Queries[k] = q THEN Failed ELSE Find[c][q]]
Told(c, raised, n) ==
    [label |-> c, events |-> IF n = 0 \/ 0 \in raised THEN <<>> ELSE Caption[c],
     find |-> Answers(c, raised, n - 1)]

LEMMA OneResult ==
  ASSUME NEW a, NEW b, NEW f, NEW r \in [label : {a}, events : {b}, find : {f}]
  PROVE  r = [label |-> a, events |-> b, find |-> f]
  OBVIOUS

LEMMA BlankTold == ASSUME NEW c PROVE Blank(c) = Told(c, {}, 0)
<1>1. <<>> = Answers(c, {}, 0 - 1)
  <2>1. {Queries[k] : k \in 1..(0 - 1)} = {}
    OBVIOUS
  <2> QED
    BY <2>1 DEF Answers
<1> QED
  BY <1>1 DEF Blank, Told

LEMMA RecordedTold ==
  ASSUME NEW c, NEW n \in 0..Len(Queries), NEW raised \in SUBSET (0..(n - 1)), NEW ok
  PROVE  Recorded(Told(c, raised, n), c, n, ok)
            = Told(c, raised \union (IF ok THEN {} ELSE {n}), n + 1)
<1> DEFINE now == raised \union (IF ok THEN {} ELSE {n})
           o == Told(c, raised, n)
<1>0. Len(Queries) \in Nat /\ n \in Nat /\ DOMAIN Queries = 1..Len(Queries)
  BY CascadeAssumption
<1>1. CASE n = 0
  <2> DEFINE e == IF ok THEN Caption[c] ELSE <<>>
  <2>1. raised = {}
    BY <1>1
  <2>2. Answers(c, raised, n - 1) = Answers(c, now, n)
    <3>1. {Queries[k] : k \in 1..(n - 1)} = {} /\ {Queries[k] : k \in 1..n} = {}
      BY <1>1
    <3> QED
      BY <3>1 DEF Answers
  <2>3. o \in [label : {c}, events : {<<>>}, find : {Answers(c, now, n)}]
    BY <1>1, <2>2 DEF Told
  <2>4. [o EXCEPT !.events = e] \in [label : {c}, events : {e}, find : {Answers(c, now, n)}]
    <3> HIDE DEF o, e
    <3> QED
      BY <2>3
  <2>5. Recorded(o, c, n, ok) = [o EXCEPT !.events = e]
    <3>1. o.events = <<>>
      BY <2>3
    <3> HIDE DEF o
    <3> QED
      BY <1>1, <3>1 DEF Recorded
  <2>6. e = IF n + 1 = 0 \/ 0 \in now THEN <<>> ELSE Caption[c]
    BY <1>1, <2>1
  <2>7. Recorded(o, c, n, ok) = [label |-> c, events |-> e, find |-> Answers(c, now, n)]
    <3> HIDE DEF o, e, now
    <3> QED
      BY <2>4, <2>5, OneResult
  <2>8. (n + 1) - 1 = n
    BY <1>0
  <2> QED
    BY <2>6, <2>7, <2>8 DEF Told
<1>2. CASE n > 0
  <2> DEFINE e == IF 0 \in raised THEN <<>> ELSE Caption[c]
             new == IF ok THEN Find[c][Queries[n]] ELSE Failed
             f == Put(Answers(c, raised, n - 1), Queries[n], new)
  <2>1. f = Answers(c, now, n)
    <3>1. {Queries[k] : k \in 1..n} = {Queries[n]} \union {Queries[k] : k \in 1..(n - 1)}
      BY <1>0, <1>2
    <3>2. \A k \in 1..(n - 1) : Queries[k] # Queries[n]
      BY <1>0, <1>2, CascadeAssumption
    <3>3. Queries[n] \notin {Queries[k] : k \in 1..(n - 1)}
      BY <3>2
    <3>4. \A q \in {Queries[k] : k \in 1..(n - 1)} :
             (\E k \in 1..n : k \in now /\ Queries[k] = q)
                <=> (\E k \in 1..(n - 1) : k \in raised /\ Queries[k] = q)
      BY <1>0, <1>2, <3>3
    <3>5. (\E k \in 1..n : k \in now /\ Queries[k] = Queries[n]) <=> ~ok
      <4>1. n \in now <=> ~ok
        BY <1>0, <1>2
      <4> QED
        BY <1>0, <1>2, <3>2, <4>1
    <3> DEFINE old == {Queries[k] : k \in 1..(n - 1)}
               A == Answers(c, raised, n - 1)
               B == Answers(c, now, n)
    <3>6. /\ DOMAIN A = old
          /\ \A q \in old : A[q] = IF \E k \in 1..(n - 1) : k \in raised /\ Queries[k] = q
                                   THEN Failed ELSE Find[c][q]
      BY DEF Answers
    <3>7. /\ B = [q \in {Queries[n]} \union old |-> B[q]]
          /\ \A q \in {Queries[n]} \union old :
                B[q] = IF \E k \in 1..n : k \in now /\ Queries[k] = q
                       THEN Failed ELSE Find[c][q]
      BY <3>1 DEF Answers
    <3>8. f = [q \in {Queries[n]} \union old |-> IF q = Queries[n] THEN new ELSE A[q]]
      <4> HIDE DEF old, new
      <4> QED
        BY <3>6 DEF Put
    <3>9. \A q \in old : B[q] = A[q]
      BY <3>4, <3>6, <3>7
    <3>10. B[Queries[n]] = new
      BY <3>5, <3>7
    <3> HIDE DEF A, B, old, new, f
    <3>11. B = [q \in {Queries[n]} \union old |-> IF q = Queries[n] THEN new ELSE A[q]]
      BY <3>3, <3>7, <3>9, <3>10 DEF old
    <3> QED
      BY <3>8, <3>11 DEF B
  <2>2. o \in [label : {c}, events : {e}, find : {Answers(c, raised, n - 1)}]
    BY <1>0, <1>2 DEF Told
  <2>3. [o EXCEPT !.find = f] \in [label : {c}, events : {e}, find : {f}]
    <3> HIDE DEF o, e, f
    <3> QED
      BY <2>2
  <2>4. Recorded(o, c, n, ok) = [o EXCEPT !.find = f]
    <3>1. o.find = Answers(c, raised, n - 1)
      BY <2>2
    <3> HIDE DEF o
    <3> QED
      BY <1>2, <3>1 DEF Recorded
  <2>5. e = IF n + 1 = 0 \/ 0 \in now THEN <<>> ELSE Caption[c]
    BY <1>0, <1>2
  <2>6. Recorded(o, c, n, ok) = [label |-> c, events |-> e, find |-> f]
    <3> HIDE DEF o, e, f
    <3> QED
      BY <2>3, <2>4, OneResult
  <2>7. (n + 1) - 1 = n
    BY <1>0
  <2> HIDE DEF f
  <2> QED
    BY <2>1, <2>5, <2>6, <2>7 DEF Told
<1> QED
  BY <1>0, <1>1, <1>2

\* After the last prompt the output is one of the camera's outcomes.
LEMMA ToldAll ==
  ASSUME NEW c, NEW raised \in SUBSET (0..Len(Queries))
  PROVE  Told(c, raised, Len(Queries) + 1) \in Outcomes(c)
<1>1. Len(Queries) \in Nat /\ DOMAIN Queries = 1..Len(Queries)
  BY CascadeAssumption
<1>2. Query = {Queries[k] : k \in 1..Len(Queries)}
  BY <1>1, CascadeAssumption DEF ToSet
<1>3. Answers(c, raised, Len(Queries))
        = [q \in Query |-> IF \E n \in raised : n > 0 /\ Queries[n] = q
                           THEN Failed ELSE Find[c][q]]
  <2>1. \A q : (\E k \in 1..Len(Queries) : k \in raised /\ Queries[k] = q)
                  <=> (\E n \in raised : n > 0 /\ Queries[n] = q)
    BY <1>1
  <2> QED
    BY <1>2, <2>1 DEF Answers
<1>4. Told(c, raised, Len(Queries) + 1)
        = [label |-> c, events |-> IF 0 \in raised THEN <<>> ELSE Caption[c],
           find |-> [q \in Query |-> IF \E n \in raised : n > 0 /\ Queries[n] = q
                                     THEN Failed ELSE Find[c][q]]]
  <2>1. (Len(Queries) + 1) - 1 = Len(Queries) /\ Len(Queries) + 1 # 0
    BY <1>1
  <2> QED
    BY <1>3, <2>1 DEF Told
<1> QED
  BY <1>4 DEF Outcomes

\* An output holds what the prompts so far left, a camera that is done has an outcome, and
\* exactly the cameras that returned are collected.  Nothing is reported before the end.
OutInv ==
    /\ DOMAIN pc = Camera /\ DOMAIN out = Camera /\ mode \in {"all", "one"}
    /\ mode = "one" => phase # "infer" /\ \A c \in Camera : pc[c] = "listed"
    /\ mode = "all" =>
          /\ \A c \in Camera : pc[c] \in {"listed", "trimmed", "untrimmed"} => out[c] = Blank(c)
          /\ \A c \in Camera : pc[c] \in {"prompt", "gpu", "answer"} =>
                \E raised \in SUBSET (0..(prompt[c] - 1)) : out[c] = Told(c, raised, prompt[c])
          /\ \A c \in Camera : pc[c] \in Left => out[c] \in Outcomes(c)
          /\ collected \in Seq(Camera)
          /\ \A c \in Camera : c \in ToSet(collected) <=> pc[c] = "collected"
    /\ phase \in {"trim", "infer"} => report = Pending

LEMMA OutInit == Init => OutInv
  BY DEF Init, OutInv, Left, ToSet

\* A thread moves camera c on and leaves its output alone.
LEMMA OutMoves ==
  ASSUME OutInv, NEW c \in Camera, mode = "all",
         UNCHANGED <<mode, phase, report, out, prompt, collected>>,
         DOMAIN pc' = Camera, \A d \in Camera \ {c} : pc'[d] = pc[d],
         \/ pc[c] \in {"listed", "trimmed"} /\ pc'[c] \in {"trimmed", "untrimmed"}
         \/ pc[c] \in {"prompt", "gpu"} /\ pc'[c] \in {"gpu", "answer"}
         \/ pc[c] = "save" /\ pc'[c] \in {"returned", "raised"}
  PROVE  OutInv'
<1>1. \A d \in Camera :
        /\ pc'[d] \in {"listed", "trimmed", "untrimmed"} => pc[d] \in {"listed", "trimmed", "untrimmed"}
        /\ pc'[d] \in {"prompt", "gpu", "answer"} => pc[d] \in {"prompt", "gpu", "answer"}
        /\ pc'[d] \in Left => pc[d] \in Left
        /\ pc'[d] = "collected" <=> pc[d] = "collected"
  BY DEF Left
<1> QED
  BY <1>1 DEF OutInv

LEMMA OutNext == CountInv /\ OutInv /\ [Next]_vars => OutInv'
<1> SUFFICES ASSUME CountInv, OutInv, [Next]_vars PROVE OutInv'
  OBVIOUS
<1>0. mode # "all" => \A c \in Camera : pc[c] = "listed"
  BY DEF OutInv
<1>1. ASSUME NEW c \in Camera, Trim(c) PROVE OutInv'
  BY <1>1, OutMoves DEF Trim, OutInv
<1>2. ASSUME NEW c \in Camera, Acquire(c) PROVE OutInv'
  BY <1>0, <1>2, OutMoves DEF Acquire, OutInv, mainVars
<1>3. ASSUME NEW c \in Camera, Generate(c) PROVE OutInv'
  BY <1>0, <1>3, OutMoves DEF Generate, OutInv, mainVars
<1>4. ASSUME NEW c \in Camera, Save(c) PROVE OutInv'
  BY <1>0, <1>4, OutMoves DEF Save, OutInv, mainVars
<1>5. ASSUME NEW c \in Camera, Decode(c) PROVE OutInv'
  <2>1. /\ mode = "all" /\ pc[c] = "trimmed" /\ prompt[c] = 0 /\ out[c] = Blank(c)
        /\ UNCHANGED <<mode, phase, report, out, prompt, collected>>
        /\ DOMAIN pc' = Camera /\ pc'[c] \in {"prompt", "save"}
        /\ \A d \in Camera \ {c} : pc'[d] = pc[d]
    BY <1>5 DEF Decode, OutInv, CountInv, mainVars
  <2>2. out[c] \in Outcomes(c)
    BY <2>1 DEF Outcomes
  <2>3. \E raised \in SUBSET (0..(prompt[c] - 1)) : out[c] = Told(c, raised, prompt[c])
    BY <2>1, BlankTold
  <2> QED
    BY <2>1, <2>2, <2>3 DEF OutInv, Left
<1>6. ASSUME NEW c \in Camera, Record(c) PROVE OutInv'
  <2> DEFINE n == prompt[c]
  <2>1. /\ mode = "all" /\ pc[c] = "answer" /\ n \in 0..Len(Queries)
        /\ UNCHANGED <<mode, phase, report, collected>>
        /\ pc' = [pc EXCEPT ![c] = IF n = Len(Queries) THEN "save" ELSE "prompt"]
        /\ out' = [out EXCEPT ![c] = Recorded(out[c], c, n, answered[c])]
        /\ prompt' = [prompt EXCEPT ![c] = n + 1]
    BY <1>0, <1>6 DEF Record, CountInv, Prompt, mainVars
  <2>2. PICK raised \in SUBSET (0..(n - 1)) : out[c] = Told(c, raised, n)
    BY <2>1 DEF OutInv
  <2>3. PICK now \in SUBSET (0..n) : out'[c] = Told(c, now, n + 1)
    <3> DEFINE more == raised \union (IF answered[c] THEN {} ELSE {n})
    <3>1. more \in SUBSET (0..n)
      <4>1. raised \subseteq 0..n /\ n \in 0..n
        BY <2>1, Prompts
      <4> QED
        BY <4>1
    <3>2. out'[c] = Recorded(Told(c, raised, n), c, n, answered[c])
      BY <2>1, <2>2 DEF OutInv
    <3>3. Recorded(Told(c, raised, n), c, n, answered[c]) = Told(c, more, n + 1)
      BY <2>1, RecordedTold
    <3> HIDE DEF more, n
    <3> QED
      BY <3>1, <3>2, <3>3
  <2>4. /\ DOMAIN pc' = Camera /\ DOMAIN out' = Camera /\ prompt'[c] = n + 1
        /\ \A d \in Camera \ {c} :
              pc'[d] = pc[d] /\ out'[d] = out[d] /\ prompt'[d] = prompt[d]
    BY <2>1 DEF OutInv, CountInv
  <2>5. CASE n = Len(Queries)
    <3>1. out'[c] \in Outcomes(c) /\ pc'[c] = "save"
      BY <2>1, <2>3, <2>5, ToldAll DEF OutInv
    <3> QED
      BY <2>1, <2>4, <3>1 DEF OutInv, Left
  <2>6. CASE n # Len(Queries)
    <3>1. pc'[c] = "prompt"
      BY <2>1, <2>6 DEF OutInv
    <3>2. \E r \in SUBSET (0..(prompt'[c] - 1)) : out'[c] = Told(c, r, prompt'[c])
      <4>1. prompt'[c] - 1 = n
        BY <2>1, <2>4, Prompts
      <4> QED
        BY <2>3, <2>4, <4>1
    <3> QED
      BY <2>1, <2>4, <3>1, <3>2 DEF OutInv, Left
  <2> QED
    BY <2>5, <2>6
<1>7. ASSUME NEW c \in Camera, Collect(c) PROVE OutInv'
  <2>1. /\ mode = "all" /\ pc[c] \in {"returned", "raised"}
        /\ UNCHANGED <<mode, phase, report, out, prompt>>
        /\ DOMAIN pc' = Camera /\ pc'[c] = IF pc[c] = "returned" THEN "collected" ELSE "lost"
        /\ \A d \in Camera \ {c} : pc'[d] = pc[d]
        /\ collected' = IF pc[c] = "returned" THEN Append(collected, c) ELSE collected
    BY <1>7 DEF Collect, OutInv
  <2>2. collected \in Seq(Camera) /\ c \notin ToSet(collected)
    BY <2>1 DEF OutInv
  <2>3. /\ collected' \in Seq(Camera)
        /\ \A d \in Camera : d \in ToSet(collected') <=> pc'[d] = "collected"
    <3>1. CASE pc[c] = "returned"
      <4>1. ToSet(Append(collected, c)) = ToSet(collected) \union {c}
        <5> DEFINE s == Append(collected, c)
        <5>1. /\ DOMAIN s = 1..(Len(collected) + 1) /\ DOMAIN collected = 1..Len(collected)
              /\ s[Len(collected) + 1] = c /\ \A i \in 1..Len(collected) : s[i] = collected[i]
              /\ Len(collected) \in Nat
          BY <2>2
        <5>2. DOMAIN s = DOMAIN collected \union {Len(collected) + 1}
          BY <5>1
        <5> HIDE DEF s
        <5>3. ToSet(s) = ToSet(collected) \union {c}
          BY <5>1, <5>2 DEF ToSet
        <5> QED
          BY <5>3 DEF s
      <4> QED
        BY <2>1, <2>2, <3>1, <4>1 DEF OutInv
    <3>2. CASE pc[c] # "returned"
      BY <2>1, <2>2, <3>2 DEF OutInv
    <3> QED
      BY <3>1, <3>2
  <2> QED
    BY <2>1, <2>3 DEF OutInv, Left
<1>8. CASE ProcessVideo
  BY <1>8 DEF ProcessVideo, OutInv
<1>9. CASE /\ UNCHANGED <<mode, pc, out, prompt, collected>>
           /\ \/ phase' = phase /\ report' = report
              \/ phase' \notin {"trim", "infer"}
  BY <1>9 DEF OutInv
<1>10. CASE Dispatch
  BY <1>10 DEF Dispatch, OutInv, threadVars
<1>11. CASE \/ Fuse \/ Economy \/ Locate \/ Finish \/ Sample
            \/ UNCHANGED vars \/ \E c \in Camera : Ask(c)
  BY <1>9, <1>11 DEF Fuse, Economy, Locate, Finish, Sample, Ask, vars, threadVars, mainVars
<1> QED
  BY <1>1, <1>2, <1>3, <1>4, <1>5, <1>6, <1>7, <1>8, <1>10, <1>11 DEF Next, Main, Thread

-----------------------------------------------------------------------------
(* The run implements the batch *)

\* Ranks are a bijection, so that every place of InOrder has a camera.
LEMMA InOrderHolds ==
  ASSUME NEW S \in SUBSET Camera
  PROVE  \A n \in DOMAIN InOrder(S) : InOrder(S)[n] \in S
<1> DEFINE below(c) == {d \in S : d < c}
           rank == [c \in S |-> Cardinality(below(c)) + 1]
           M == Cardinality(S)
<1>1. IsFiniteSet(S) /\ M \in Nat /\ S \subseteq Int
  <2>1. IsFiniteSet(S)
    BY CascadeAssumption, FS_Subset
  <2> QED
    BY <2>1, CascadeAssumption, FS_CardinalityType
<1>2. ASSUME NEW c \in S PROVE /\ IsFiniteSet(below(c)) /\ Cardinality(below(c)) \in Nat
                               /\ Cardinality(below(c)) + 1 <= M
  <2>1. IsFiniteSet(below(c)) /\ Cardinality(below(c)) \in Nat
    BY <1>1, FS_Subset, FS_CardinalityType
  <2>2. c \notin below(c)
    BY <1>1
  <2>3. IsFiniteSet(below(c) \union {c}) /\ Cardinality(below(c) \union {c}) = Cardinality(below(c)) + 1
    BY <2>1, <2>2, FS_AddElement
  <2>4. below(c) \union {c} \subseteq S
    OBVIOUS
  <2> HIDE DEF below
  <2>5. Cardinality(below(c) \union {c}) <= Cardinality(S)
    BY <1>1, <2>4, FS_Subset
  <2> QED
    BY <2>1, <2>3, <2>5
<1>3. ASSUME NEW c \in S, NEW e \in S, c < e
      PROVE  Cardinality(below(c)) < Cardinality(below(e))
  <2>1. below(c) \union {c} \subseteq below(e)
    <3>1. ASSUME NEW d \in S, d < c PROVE d < e
      <4>1. d \in Int /\ c \in Int /\ e \in Int
        BY <1>1
      <4> QED
        BY <1>3, <3>1, <4>1
    <3> QED
      BY <1>3, <3>1
  <2>2. c \notin below(c)
    BY <1>1
  <2>3. IsFiniteSet(below(c)) /\ Cardinality(below(c)) \in Nat /\ IsFiniteSet(below(e))
        /\ Cardinality(below(e)) \in Nat
    BY <1>2
  <2> HIDE DEF below
  <2>4. Cardinality(below(c) \union {c}) = Cardinality(below(c)) + 1
    BY <2>2, <2>3, FS_AddElement
  <2>5. Cardinality(below(c) \union {c}) <= Cardinality(below(e))
    BY <2>1, <2>3, FS_Subset
  <2> QED
    BY <2>3, <2>4, <2>5
<1>4. rank \in Injection(S, 1..M)
  <2> HIDE DEF below, M
  <2>1. \A c \in S : rank[c] = Cardinality(below(c)) + 1
    OBVIOUS
  <2>2. \A c \in S : rank[c] \in 1..M
    BY <1>1, <1>2, <2>1
  <2>3. \A c, e \in S : rank[c] = rank[e] => c = e
    <3> SUFFICES ASSUME NEW c \in S, NEW e \in S, rank[c] = rank[e], c # e PROVE FALSE
      OBVIOUS
    <3>1. Cardinality(below(c)) = Cardinality(below(e))
      BY <1>2, <2>1
    <3>2. c < e \/ e < c
      BY <1>1
    <3> QED
      BY <1>2, <1>3, <3>1, <3>2
  <2>4. rank \in [S -> 1..M]
    BY <2>2
  <2> QED
    BY <2>3, <2>4 DEF Injection, IsInjective
<1>5. rank \in Surjection(S, 1..M)
  <2>1. IsFiniteSet(1..M) /\ Cardinality(1..M) = M
    BY <1>1, FS_Interval
  <2> HIDE DEF rank
  <2> QED
    BY <1>4, <2>1, FS_Injection
<1>6. ASSUME NEW n \in 1..M PROVE \E c \in S : Cardinality(below(c)) = n - 1
  <2>1. PICK c \in S : rank[c] = n
    BY <1>5 DEF Surjection
  <2>2. Cardinality(below(c)) + 1 = n
    BY <2>1
  <2> HIDE DEF below
  <2> QED
    BY <1>1, <1>2, <2>2
<1>7. ASSUME NEW n \in 1..M
      PROVE  (CHOOSE c \in S : Cardinality({d \in S : d < c}) = n - 1) \in S
  BY <1>6
<1> QED
  BY <1>7 DEF InOrder

LEMMA InitBatch == Init => Batch!Init
  BY DEF Init, Batch!Init, Settled

outcome == [c \in Camera |-> Settled(c)]

LEMMA StepBatch ==
  ASSUME CountInv, OutInv, [Next]_vars
  PROVE  [Batch!Next]_<<outcome, report>>
<1>0. mode # "all" => \A c \in Camera : pc[c] = "listed"
  BY DEF OutInv
<1>1. CASE \A c \in Camera : UNCHANGED Settled(c)
  <2>1. outcome' = outcome
    BY <1>1 DEF outcome
  <2>2. CASE UNCHANGED report
    BY <2>1, <2>2
  <2>3. CASE ~UNCHANGED report
    <3>1. Fuse /\ report' = FuseResults(Results)
      BY <2>3 DEF Next, Main, Thread, Trim, Dispatch, Decode, Acquire, Generate, Record, Save,
           Collect, Fuse, ProcessVideo, Sample, Economy, Locate, Ask, Finish, vars, threadVars,
           mainVars
    <3>2. /\ mode = "all" /\ report = Pending
          /\ \A c \in Camera : pc[c] \in {"collected", "lost"}
      BY <3>1 DEF Fuse, OutInv
    <3>3. \A c \in Camera : outcome[c] # Pending /\ (outcome[c] # Lost <=> c \in ToSet(collected))
      BY <3>2, OutcomeAssumption DEF outcome, Settled, OutInv, Left
    <3> DEFINE S == ToSet(collected)
    <3>4. S = {c \in Camera : outcome[c] # Lost}
      <4>1. S \subseteq Camera
        BY <3>2 DEF OutInv, ToSet
      <4> QED
        BY <3>3, <4>1
    <3>5. \A c \in S : outcome[c] = out[c]
      BY <3>2, <3>4 DEF outcome, Settled, OutInv
    <3>6. Results = [n \in DOMAIN InOrder(S) |-> outcome[InOrder(S)[n]]]
      <4>1. S \in SUBSET Camera
        BY <3>4
      <4> HIDE DEF S
      <4>2. \A n \in DOMAIN InOrder(S) : out[InOrder(S)[n]] = outcome[InOrder(S)[n]]
        BY <3>5, <4>1, InOrderHolds
      <4> QED
        BY <4>2 DEF Results, Ordered, S
    <3>7. Batch!Report
      <4>1. Batch!Survivors = InOrder(S)
        BY <3>4 DEF Batch!Survivors, outcome
      <4> QED
        BY <2>1, <3>1, <3>2, <3>3, <3>6, <4>1 DEF Batch!Report, outcome
    <3> QED
      BY <3>7 DEF Batch!Next
  <2> QED
    BY <2>2, <2>3
<1>2. ASSUME NEW c \in Camera, Collect(c) PROVE Batch!Next
  <2>1. /\ mode = "all" /\ pc[c] \in {"returned", "raised"} /\ UNCHANGED <<report, out>>
        /\ pc' = [pc EXCEPT ![c] = IF pc[c] = "returned" THEN "collected" ELSE "lost"]
    BY <1>2 DEF Collect, OutInv
  <2> DEFINE o == IF pc[c] = "returned" THEN out[c] ELSE Lost
  <2>2. o \in Outcomes(c) \union {Lost}
    BY <2>1 DEF OutInv, Left
  <2>3. Settled(c) = Pending /\ Settled(c)' = o /\ \A d \in Camera \ {c} : Settled(d)' = Settled(d)
    BY <2>1 DEF Settled, OutInv
  <2> HIDE DEF o
  <2>4. outcome' = [outcome EXCEPT ![c] = o] /\ outcome[c] = Pending
    BY <2>3 DEF outcome
  <2>5. Batch!Settle(c)
    BY <2>1, <2>2, <2>4 DEF Batch!Settle, outcome
  <2> QED
    BY <2>5 DEF Batch!Next
<1>3. ASSUME \A c \in Camera : ~Collect(c) PROVE \A c \in Camera : UNCHANGED Settled(c)
  <2> SUFFICES ASSUME NEW c \in Camera PROVE UNCHANGED Settled(c)
    OBVIOUS
  <2>1. CASE ProcessVideo
    BY <1>0, <2>1 DEF ProcessVideo, Settled
  <2>2. CASE UNCHANGED <<pc, out>>
    BY <2>2 DEF Settled
  <2>3. ASSUME NEW d \in Camera, Trim(d) \/ Decode(d) \/ Acquire(d) \/ Generate(d) \/ Save(d)
        PROVE  UNCHANGED Settled(c)
    <3>1. /\ UNCHANGED out /\ \A e \in Camera \ {d} : pc'[e] = pc[e]
          /\ pc[d] \notin {"collected", "lost"} /\ pc'[d] \notin {"collected", "lost"}
      BY <2>3 DEF Trim, Decode, Acquire, Generate, Save, OutInv
    <3> QED
      BY <3>1 DEF Settled
  <2>4. ASSUME NEW d \in Camera, Record(d) PROVE UNCHANGED Settled(c)
    <3>1. /\ \A e \in Camera \ {d} : pc'[e] = pc[e] /\ out'[e] = out[e]
          /\ pc[d] \notin {"collected", "lost"} /\ pc'[d] \notin {"collected", "lost"}
      BY <2>4 DEF Record, OutInv
    <3> QED
      BY <3>1 DEF Settled
  <2>5. CASE \/ Dispatch \/ Fuse \/ Economy \/ Locate \/ Finish \/ Sample
             \/ UNCHANGED vars \/ \E d \in Camera : Ask(d)
    <3>1. UNCHANGED <<pc, out>>
      BY <2>5 DEF Dispatch, Fuse, Economy, Locate, Finish, Sample, Ask, vars, threadVars, mainVars
    <3> QED
      BY <2>2, <3>1
  <2> QED
    BY <1>3, <2>1, <2>3, <2>4, <2>5 DEF Next, Main, Thread
<1> QED
  BY <1>1, <1>2, <1>3

\* The threads implement the plain batch: each camera's outcome is its own, and the report is
\* that of the surviving outcomes in the order of the videos.
THEOREM Refinement == Spec => ImplementsBatch
<1>1. Spec => [](CountInv /\ OutInv)
  BY CountInit, CountNext, OutInit, OutNext, PTL DEF Spec
<1>2. CountInv /\ OutInv /\ [Next]_vars => [Batch!Next]_<<outcome, report>>
  BY StepBatch
<1> QED
  BY <1>1, <1>2, InitBatch, PTL DEF Spec, ImplementsBatch, Batch!Spec, outcome

=============================================================================
