---------------------------- MODULE InsightProofs ----------------------------
(***************************************************************************)
(* Proofs about Insight: the verdict cache and the rows of `embeddings`,   *)
(* for any workers, indexers, messages, answers and bounds.                *)
(***************************************************************************)
EXTENDS Insight, FiniteSetTheorems, SequenceTheorems, TLAPS

(* The rows of one entity *)

\* While the transaction of an indexer is open, its DELETE has hit the row that it left
\* itself: nobody else can insert a row of that process.
RowInv ==
    /\ DOMAIN phase = Indexer /\ DOMAIN todo = Indexer
    /\ DOMAIN open = Indexer /\ DOMAIN doomed = Indexer
    /\ \A i \in Indexer : phase[i] = "idle" => todo[i] = <<>>
    /\ \A i \in Indexer : open[i] =>
          /\ todo[i] # <<>>
          /\ \A r \in embeddings : r.entity = Head(todo[i]) /\ r.run[1] = i => r \in doomed[i]
    /\ EmbeddingsPerEntity

LEMMA RowInit == Init => RowInv
  BY DEF Init, RowInv, EmbeddingsPerEntity

LEMMA RowNext == RowInv /\ [Next]_vars => RowInv'
<1> SUFFICES ASSUME RowInv, [Next]_vars PROVE RowInv'
  OBVIOUS
<1>1. CASE UNCHANGED indexVars
  BY <1>1 DEF RowInv, EmbeddingsPerEntity, indexVars
<1>2. ASSUME NEW i \in Indexer, IndexEvents(i) \/ IndexObservations(i) \/ Finish(i)
      PROVE  RowInv'
  <2>1. /\ UNCHANGED <<doomed, open, embeddings>>
        /\ DOMAIN todo' = Indexer /\ DOMAIN phase' = Indexer
        /\ \A j \in Indexer : j # i => todo'[j] = todo[j] /\ phase'[j] = phase[j]
    BY <1>2 DEF IndexEvents, IndexObservations, Finish, RowInv
  <2>2. ~open[i]
    BY <1>2 DEF IndexEvents, IndexObservations, Finish, RowInv
  <2>3. phase'[i] = "idle" => todo'[i] = <<>>
    BY <1>2 DEF IndexEvents, IndexObservations, Finish, RowInv
  <2> QED
    BY <2>1, <2>2, <2>3 DEF RowInv, EmbeddingsPerEntity
<1>3. ASSUME NEW i \in Indexer, Delete(i) PROVE RowInv'
  BY <1>3 DEF Delete, RowsOf, RowInv, EmbeddingsPerEntity
<1>4. ASSUME NEW i \in Indexer, Insert(i) PROVE RowInv'
  <2> DEFINE new == [entity |-> Head(todo[i]), run |-> <<i, indexRuns[i]>>]
  <2>1. /\ UNCHANGED phase /\ DOMAIN todo' = Indexer
        /\ DOMAIN doomed' = Indexer /\ DOMAIN open' = Indexer
        /\ ~open'[i] /\ phase[i] # "idle"
        /\ \A j \in Indexer : j # i =>
              todo'[j] = todo[j] /\ doomed'[j] = doomed[j] /\ open'[j] = open[j]
    BY <1>4 DEF Insert, RowInv
  <2>2. embeddings' = embeddings \/ embeddings' = (embeddings \ doomed[i]) \union {new}
    BY <1>4 DEF Insert
  <2>3. new.entity = Head(todo[i]) /\ new.run[1] = i
    OBVIOUS
  <2> HIDE DEF new
  <2>4. EmbeddingsPerEntity'
    BY <1>4, <2>2, <2>3 DEF Insert, RowInv, EmbeddingsPerEntity
  <2> QED
    BY <2>1, <2>2, <2>3, <2>4 DEF RowInv
<1> QED
  BY <1>1, <1>2, <1>3, <1>4 DEF Next, IndexNext, vars, indexVars

\* Two rows of an entity are left by two processes, whatever is interleaved.
THEOREM RowPerIndexer == Spec => []EmbeddingsPerEntity
<1>1. RowInv => EmbeddingsPerEntity
  BY DEF RowInv
<1> QED
  BY <1>1, RowInit, RowNext, PTL DEF Spec

-----------------------------------------------------------------------------
(* The verdict cache *)

Stage(w) == pc[w] \in {"observe", "confide", "record", "announce"}

\* An entry is under the key it was asked for, and the output in work is for the key of
\* the message in work.
CacheInv ==
    /\ DOMAIN batch = Worker /\ DOMAIN pc = Worker /\ DOMAIN out = Worker
    /\ DOMAIN cache = Worker /\ DOMAIN watched = Worker
    /\ \A w \in Worker : \A k \in DOMAIN cache[w] : cache[w][k].key = k
    /\ \A w \in Worker : Stage(w) => out[w].key = Key(Current(w))
    /\ VerdictIsAboutTheEvent

\* What a process has watched is in its cache.
WatchInv ==
    /\ \A w \in Worker : \E S : watched[w] \in Seq(S)
    /\ \A w \in Worker : \A i \in DOMAIN watched[w] : watched[w][i] \in DOMAIN cache[w]
    /\ WatchedOncePerProcess

LEMMA CacheInit == Init => CacheInv /\ WatchInv
<1>1. Init => CacheInv
  BY DEF Init, VlmInit, CacheInv, Stage, VerdictIsAboutTheEvent
<1>2. Init => WatchInv
  <2> SUFFICES ASSUME Init PROVE WatchInv
    OBVIOUS
  <2>1. \A w \in Worker : watched[w] = <<>>
    BY DEF Init, VlmInit
  <2>2. \A w \in Worker : watched[w] \in Seq({})
    BY <2>1, EmptySeq, Zenon
  <2>3. \A w \in Worker : \A i \in DOMAIN watched[w] : FALSE
    <3> SUFFICES ASSUME NEW w \in Worker, NEW i \in DOMAIN watched[w] PROVE FALSE
      OBVIOUS
    <3>1. DOMAIN watched[w] = 1..Len(watched[w]) /\ Len(watched[w]) = 0
      BY <2>1, <2>2
    <3> QED
      BY <3>1
  <2>4. \A w \in Worker : \E S : watched[w] \in Seq(S)
    BY <2>2
  <2> QED
    BY <2>3, <2>4 DEF WatchInv, WatchedOncePerProcess
<1> QED
  BY <1>1, <1>2

\* A verification either repeats an entry or adds the one that it asks for.
LEMMA VerifyEffect ==
  ASSUME CacheInv, NEW w \in Worker, Verify(w)
  PROVE  LET k == Key(Current(w))
         IN  /\ UNCHANGED <<batch, verified>>
             /\ pc' = [pc EXCEPT ![w] = "observe"]
             /\ DOMAIN out' = Worker /\ out'[w].key = k
             /\ \A v \in Worker \ {w} : out'[v] = out[v]
             /\ \/ UNCHANGED <<cache, watched>>
                \/ /\ k \notin DOMAIN cache[w]
                   /\ cache' = [cache EXCEPT ![w] = Remembered(w, k, out'[w])]
                   /\ watched' = [watched EXCEPT ![w] = Append(@, k)]
<1> DEFINE k == Key(Current(w))
<1>1. CASE k \in DOMAIN cache[w]
  <2>1. out' = [out EXCEPT ![w] = cache[w][k]] /\ UNCHANGED <<cache, watched>>
    BY <1>1 DEF Verify, memory
  <2>2. cache[w][k].key = k
    BY <1>1 DEF CacheInv
  <2> QED
    BY <2>1, <2>2 DEF CacheInv, Verify, tables
<1>2. CASE k \notin DOMAIN cache[w]
  <2>1. /\ Real(w, Current(w)) \/ Fake(w, Current(w))
        /\ cache' = [cache EXCEPT ![w] = Remembered(w, k, out'[w])]
        /\ watched' = [watched EXCEPT ![w] = Append(@, k)]
    BY <1>2 DEF Verify, Key
  <2>2. PICK f, v : out' = [out EXCEPT ![w] = Package(Current(w), f, v)]
    BY <2>1 DEF Real, Fake
  <2>3. Package(Current(w), f, v).key = k
    BY DEF Package, Key
  <2> QED
    BY <1>2, <2>1, <2>2, <2>3 DEF CacheInv, Verify, tables
<1> QED
  BY <1>1, <1>2

cacheVars == <<batch, pc, out, cache, watched, verified>>

LEMMA CacheNext == CacheInv /\ [Next]_vars => CacheInv'
<1> SUFFICES ASSUME CacheInv, [Next]_vars PROVE CacheInv'
  OBVIOUS
<1>1. CASE UNCHANGED cacheVars
  BY <1>1 DEF CacheInv, Stage, Current, VerdictIsAboutTheEvent, cacheVars
<1>2. ASSUME NEW w \in Worker, Claim(w) \/ PollFile(w) PROVE CacheInv'
  <2>1. /\ UNCHANGED <<out, cache, watched, verified>>
        /\ DOMAIN pc' = Worker /\ pc'[w] \in {"idle", "verify"}
        /\ \A v \in Worker \ {w} : pc'[v] = pc[v]
        /\ DOMAIN batch' = Worker /\ \A v \in Worker \ {w} : batch'[v] = batch[v]
    <3>1. PICK ranks : Take(w, ranks)
      BY <1>2 DEF Claim, PollFile
    <3>2. /\ UNCHANGED <<out, cache, watched, verified>>
          /\ batch' = [batch EXCEPT ![w] = ranks]
          /\ pc' = [pc EXCEPT ![w] = IF ranks = <<>> THEN "idle" ELSE "verify"]
      BY <3>1 DEF Take, memory
    <3> QED
      BY <3>2 DEF CacheInv
  <2> QED
    BY <2>1 DEF CacheInv, Stage, Current, VerdictIsAboutTheEvent
<1>3. ASSUME NEW w \in Worker, Verify(w) PROVE CacheInv'
  <2> DEFINE k == Key(Current(w))
  <2>1. /\ UNCHANGED <<batch, verified>>
        /\ pc' = [pc EXCEPT ![w] = "observe"]
        /\ DOMAIN out' = Worker /\ out'[w].key = k
        /\ \A v \in Worker \ {w} : out'[v] = out[v]
        /\ \/ UNCHANGED <<cache, watched>>
           \/ /\ cache' = [cache EXCEPT ![w] = Remembered(w, k, out'[w])]
              /\ watched' = [watched EXCEPT ![w] = Append(@, k)]
    BY <1>3, VerifyEffect
  <2>2. \A v \in Worker : Current(v)' = Current(v)
    BY <2>1 DEF Current
  <2>3. /\ DOMAIN cache' = Worker /\ DOMAIN watched' = Worker
        /\ \A v \in Worker : \A j \in DOMAIN cache'[v] : cache'[v][j].key = j
    <3> HIDE DEF k
    <3> QED
      BY <2>1 DEF CacheInv, Remembered
  <2>4. \A v \in Worker : Stage(v)' => (out[v].key)' = Key(Current(v))'
    BY <2>1, <2>2 DEF CacheInv, Stage, Key
  <2> QED
    BY <2>1, <2>3, <2>4 DEF CacheInv, VerdictIsAboutTheEvent
<1>4. ASSUME NEW w \in Worker, Observe(w) \/ Confide(w) \/ RecordRun(w) PROVE CacheInv'
  <2>1. /\ UNCHANGED <<batch, out, cache, watched, verified>> /\ Stage(w)
        /\ DOMAIN pc' = Worker /\ \A v \in Worker \ {w} : pc'[v] = pc[v]
    BY <1>4 DEF Observe, Confide, RecordRun, Stage, memory, CacheInv
  <2> QED
    BY <2>1 DEF CacheInv, Stage, Current, VerdictIsAboutTheEvent
<1>5. ASSUME NEW w \in Worker, Skip(w) \/ Announce(w) \/ Die(w) PROVE CacheInv'
  <2>1. /\ DOMAIN batch' = Worker /\ DOMAIN pc' = Worker /\ DOMAIN out' = Worker
        /\ pc'[w] \in {"idle", "verify"}
        /\ \A v \in Worker \ {w} :
              pc'[v] = pc[v] /\ batch'[v] = batch[v] /\ out'[v] = out[v]
    BY <1>5 DEF Skip, Announce, Die, Closed, CacheInv
  <2>2. /\ DOMAIN cache' = Worker /\ DOMAIN watched' = Worker
        /\ \A v \in Worker : \A k \in DOMAIN cache'[v] : cache'[v][k].key = k
    BY <1>5 DEF Skip, Announce, Die, memory, CacheInv
  <2>3. verified' = verified \/ (verified' = verified \union {Verified(w)} /\ Stage(w))
    BY <1>5 DEF Skip, Announce, Die, Stage
  <2>4. Stage(w) => Verified(w).key = <<Verified(w).clip, Verified(w).type>>
    BY DEF CacheInv, Verified, Key
  <2>5. VerdictIsAboutTheEvent'
    <3> HIDE DEF Verified
    <3> QED
      BY <2>3, <2>4 DEF CacheInv, VerdictIsAboutTheEvent
  <2>6. \A v \in Worker : Stage(v)' => (out[v].key)' = Key(Current(v))'
    BY <2>1 DEF CacheInv, Stage, Key, Current
  <2> QED
    BY <2>1, <2>2, <2>5, <2>6 DEF CacheInv
<1>6. CASE IndexNext \/ Expire \/ UNCHANGED vars
  BY <1>1, <1>6 DEF IndexNext, IndexEvents, IndexObservations, Finish, Delete, Insert, Expire,
     vars, vlmVars, memory, cacheVars
<1> QED
  BY <1>2, <1>3, <1>4, <1>5, <1>6 DEF Next, VlmNext

\* A published verdict was given on the event's clip and for its type.
THEOREM OwnVerdict == Spec => []VerdictIsAboutTheEvent
<1>1. CacheInv => VerdictIsAboutTheEvent
  BY DEF CacheInv
<1> QED
  BY <1>1, CacheInit, CacheNext, PTL DEF Spec

LEMMA WatchNext == CacheInv /\ WatchInv /\ [Next]_vars => WatchInv'
<1> SUFFICES ASSUME CacheInv, WatchInv, [Next]_vars PROVE WatchInv'
  OBVIOUS
<1>1. CASE UNCHANGED <<cache, watched>>
  BY <1>1 DEF WatchInv, WatchedOncePerProcess
<1>2. ASSUME NEW w \in Worker, Die(w) PROVE WatchInv'
  <2>1. /\ watched'[w] = <<>>
        /\ \A v \in Worker \ {w} : watched'[v] = watched[v] /\ cache'[v] = cache[v]
    BY <1>2 DEF Die, CacheInv
  <2>2. watched'[w] \in Seq({}) /\ DOMAIN watched'[w] = {}
    BY <2>1
  <2> QED
    BY <2>1, <2>2 DEF WatchInv, WatchedOncePerProcess
<1>3. ASSUME NEW w \in Worker, Verify(w), ~UNCHANGED <<cache, watched>> PROVE WatchInv'
  <2> DEFINE k == Key(Current(w))
  <2>1. /\ k \notin DOMAIN cache[w]
        /\ cache' = [cache EXCEPT ![w] = Remembered(w, k, out'[w])]
        /\ watched' = [watched EXCEPT ![w] = Append(@, k)]
    BY <1>3, VerifyEffect
  <2> HIDE DEF k
  <2>2. PICK S : watched[w] \in Seq(S)
    BY DEF WatchInv
  <2>3. /\ watched[w] \in Seq(S \union {k}) /\ watched'[w] = Append(watched[w], k)
        /\ \A v \in Worker \ {w} : watched'[v] = watched[v] /\ cache'[v] = cache[v]
        /\ DOMAIN cache'[w] = DOMAIN cache[w] \union {k}
    BY <2>1, <2>2 DEF CacheInv, Remembered
  <2>4. /\ watched'[w] \in Seq(S \union {k})
        /\ Len(watched'[w]) = Len(watched[w]) + 1
        /\ watched'[w][Len(watched[w]) + 1] = k
        /\ \A i \in DOMAIN watched[w] : watched'[w][i] = watched[w][i]
        /\ DOMAIN watched[w] = 1..Len(watched[w])
        /\ DOMAIN watched'[w] = 1..(Len(watched[w]) + 1) /\ Len(watched[w]) \in Nat
    BY <2>3
  <2>5. \A i \in DOMAIN watched'[w] : i \in DOMAIN watched[w] \/ i = Len(watched[w]) + 1
    BY <2>4
  <2>6. \A i \in DOMAIN watched[w] : watched[w][i] # k
    BY <2>1 DEF WatchInv
  <2>7. \A v \in Worker : \E T : watched'[v] \in Seq(T)
    BY <2>3, <2>4 DEF WatchInv
  <2>8. \A v \in Worker : \A i \in DOMAIN watched'[v] : watched'[v][i] \in DOMAIN cache'[v]
    <3>1. \A i \in DOMAIN watched'[w] : watched'[w][i] \in DOMAIN cache'[w]
      <4>1. \A i \in DOMAIN watched[w] : watched[w][i] \in DOMAIN cache[w]
        BY DEF WatchInv
      <4> QED
        BY <2>3, <2>4, <2>5, <4>1
    <3>2. ASSUME NEW v \in Worker, v # w
          PROVE  \A i \in DOMAIN watched'[v] : watched'[v][i] \in DOMAIN cache'[v]
      BY <2>3, <3>2 DEF WatchInv
    <3> QED
      BY <3>1, <3>2
  <2>9. WatchedOncePerProcess'
    <3>1. \A i, j \in DOMAIN watched'[w] : watched'[w][i] = watched'[w][j] => i = j
      BY <2>4, <2>5, <2>6 DEF WatchInv, WatchedOncePerProcess
    <3> QED
      BY <2>3, <3>1 DEF WatchInv, WatchedOncePerProcess
  <2> QED
    BY <2>7, <2>8, <2>9 DEF WatchInv
<1> QED
  BY <1>1, <1>2, <1>3
     DEF Next, VlmNext, IndexNext, IndexEvents, IndexObservations, Finish, Delete, Insert, Expire,
         Claim, PollFile, Take, Skip, Observe, Confide, RecordRun, Announce, vars, vlmVars, memory

\* No process watches a clip twice for an event type, whatever failed the first time.
THEOREM WatchedOnce == Spec => []WatchedOncePerProcess
<1>1. WatchInv => WatchedOncePerProcess
  BY DEF WatchInv
<1> QED
  BY <1>1, CacheInit, CacheNext, WatchNext, PTL DEF Spec

-----------------------------------------------------------------------------
(* What the parser makes of a text *)

Verification == [verdict : ValidVerdict, confidence : 0..100]

LEMMA ConfidenceBounds == ASSUME NEW v PROVE AsConfidence(v) \in 0..100
<1>1. CASE v \in DOMAIN NumberOf
  <2>1. v \in {"0.9", "85", "250", "-1"} /\ NumberOf[v] \in {90, 8500, 25000, -100}
    BY <1>1 DEF NumberOf
  <2> DEFINE h == NumberOf[v]
  <2>2. v # "NaN" /\ h \in {90, 8500, 25000, -100}
    BY <2>1
  <2> HIDE DEF h
  <2>3. AsConfidence(v) = IF h > 10000 THEN 100
                          ELSE IF h > 100 THEN h \div 100
                          ELSE IF h < 0 THEN 0 ELSE h
    BY <1>1, <2>2 DEF AsConfidence, h
  <2>4. 8500 \div 100 = 85
    OBVIOUS
  <2> QED
    BY <2>2, <2>3, <2>4
<1>2. CASE v \notin DOMAIN NumberOf
  BY <1>2 DEF AsConfidence
<1> QED
  BY <1>1, <1>2

\* Whatever text a model comes up with, the verification has a verdict of the schema and
\* a confidence between 0 and 1 (parse_verification, coerce, _as_confidence), as far as
\* its numbers fit a float and it does not nest too deep: there the parser raises.
THEOREM ParserKeepsSchema ==
  ASSUME NEW raw
  PROVE  ParseVerification(raw).verification \in Verification
<1>1. Unparsed \in Verification
  BY DEF Unparsed, Verification, ValidVerdict
<1>2. \A fields : Coerce(fields) \in Verification
  <2> SUFFICES ASSUME NEW fields PROVE Coerce(fields) \in Verification
    OBVIOUS
  <2>1. (IF "verdict" \in DOMAIN fields /\ fields["verdict"] \in ValidVerdict
         THEN fields["verdict"] ELSE "unclear") \in ValidVerdict
    BY DEF ValidVerdict
  <2>2. (IF "confidence" \in DOMAIN fields THEN AsConfidence(fields["confidence"])
         ELSE 50) \in 0..100
    BY ConfidenceBounds
  <2> QED
    BY <2>1, <2>2 DEF Coerce, Verification
<1> QED
  BY <1>1, <1>2 DEF ParseVerification

-----------------------------------------------------------------------------
(* The order of the writes *)

Rank == DOMAIN Message

Observed(w) ==
    \/ "observation" \in failed[Head(batch[w])]
    \/ \E i \in DOMAIN observations :
          /\ observations[i].event = Current(w).event
          /\ observations[i].out.verification = out[w].verification

Confided(w) ==
    \/ "confidence" \in failed[Head(batch[w])]
    \/ Current(w).event \in gone
    \/ confidence[Current(w).event] # Absent

\* Messages in hand are of the stream, and outputs are verifications.
HandInv ==
    /\ DOMAIN batch = Worker /\ DOMAIN pc = Worker /\ DOMAIN out = Worker
    /\ DOMAIN cache = Worker
    /\ \A w \in Worker : batch[w] \in Seq(Rank) /\ (pc[w] # "idle" => batch[w] # <<>>)
    /\ \A w \in Worker : out[w].verification \in Verification
    /\ \A w \in Worker : \A k \in DOMAIN cache[w] : cache[w][k].verification \in Verification

TableInv ==
    /\ DOMAIN failed = Rank /\ DOMAIN confidence = Event
    /\ \E S : observations \in Seq(S)
    /\ pending \subseteq Rank

\* A process has made the writes before the one it is at.
WrittenInv ==
    \A w \in Worker :
        /\ pc[w] \in {"confide", "record", "announce"} => Observed(w)
        /\ pc[w] \in {"record", "announce"} => Confided(w)

PublishedInv ==
    /\ \A v \in verified : v.rank \in Rank /\ v.event \in Event
    /\ MessageIsBacked

BackInv == HandInv /\ TableInv /\ WrittenInv /\ PublishedInv

LEMMA CurrentEvent ==
  ASSUME HandInv, NEW w \in Worker, pc[w] # "idle"
  PROVE  /\ Head(batch[w]) \in Rank
         /\ Current(w).event \in Event
<1>1. batch[w] \in Seq(Rank) /\ batch[w] # <<>>
  BY DEF HandInv
<1>2. Head(batch[w]) \in Rank
  BY <1>1
<1> QED
  BY <1>2, VlmAssumption DEF Current, Rank

LEMMA BackInit == Init => BackInv
<1> SUFFICES ASSUME Init PROVE BackInv
  OBVIOUS
<1>1. <<>> \in Seq(Rank) /\ <<>> \in Seq({})
  OBVIOUS
<1>2. Nothing.verification \in Verification
  BY DEF Nothing, Verification, Unparsed, ValidVerdict
<1>3. HandInv
  BY <1>1, <1>2 DEF Init, VlmInit, HandInv
<1>4. TableInv
  BY <1>1 DEF Init, VlmInit, TableInv, Rank
<1> QED
  BY <1>3, <1>4 DEF Init, VlmInit, BackInv, WrittenInv, PublishedInv, MessageIsBacked

\* Nothing that backs a message is ever taken back, but by the event being deleted.
Grows ==
    /\ \A n \in Rank : failed[n] \subseteq failed'[n]
    /\ \A i \in DOMAIN observations : i \in DOMAIN observations' /\ observations'[i] = observations[i]
    /\ gone \subseteq gone'
    /\ \A e \in Event : confidence[e] # Absent => confidence'[e] # Absent \/ e \in gone'

tableVars == <<failed, observations, gone, confidence>>

LEMMA GrowsAnyway == UNCHANGED tableVars => Grows
  BY DEF tableVars, Grows

LEMMA Rejected ==
  ASSUME TableInv, NEW w \in Worker, NEW what, Reject(w, what), Head(batch[w]) \in Rank
  PROVE  /\ DOMAIN failed' = Rank
         /\ \A n \in Rank : failed[n] \subseteq failed'[n]
         /\ what \in failed'[Head(batch[w])]
  BY DEF Reject, TableInv

LEMMA BackStays ==
  ASSUME HandInv, TableInv, Grows, NEW w \in Worker, pc[w] # "idle",
         batch'[w] = batch[w], out'[w] = out[w]
  PROVE  /\ Observed(w) => Observed(w)'
         /\ Confided(w) => Confided(w)'
<1>1. Head(batch[w]) \in Rank /\ Current(w).event \in Event
  BY CurrentEvent
<1>2. Head(batch'[w]) = Head(batch[w]) /\ Current(w)' = Current(w)
  BY DEF Current
<1>3. Observed(w) => Observed(w)'
  BY <1>1, <1>2 DEF Observed, Grows
<1>4. Confided(w) => Confided(w)'
  BY <1>1, <1>2 DEF Confided, Grows
<1> QED
  BY <1>3, <1>4

LEMMA PublishedStays ==
  ASSUME PublishedInv, Grows, UNCHANGED verified
  PROVE  PublishedInv'
  BY DEF PublishedInv, MessageIsBacked, Grows

\* What an output gives back is a verification, be it new, a stand-in or cached.
LEMMA VerifiedSchema ==
  ASSUME HandInv, NEW w \in Worker, Verify(w)
  PROVE  /\ DOMAIN out' = Worker /\ DOMAIN cache' = Worker
         /\ out'[w].verification \in Verification
         /\ \A v \in Worker \ {w} : out'[v] = out[v]
         /\ \A v \in Worker : \A k \in DOMAIN cache'[v] :
               cache'[v][k].verification \in Verification
<1> DEFINE k == Key(Current(w))
           m == Current(w)
<1>1. CASE k \in DOMAIN cache[w]
  <2>1. out' = [out EXCEPT ![w] = cache[w][k]] /\ cache' = cache
    BY <1>1 DEF Verify, memory
  <2> HIDE DEF k
  <2> QED
    BY <1>1, <2>1 DEF HandInv
<1>2. CASE k \notin DOMAIN cache[w]
  <2>1. /\ Real(w, m) \/ Fake(w, m)
        /\ cache' = [cache EXCEPT ![w] = Remembered(w, k, out'[w])]
    BY <1>2 DEF Verify
  <2>2. \E f, u : u \in Verification /\ out' = [out EXCEPT ![w] = Package(m, f, u)]
    <3>1. CASE Real(w, m)
      <4>1. PICK a \in RunModel(w) : out' = [out EXCEPT ![w] = Package(m, FALSE, VerificationOf[a])]
        BY <3>1 DEF Real
      <4>2. a \in Answer
        BY <4>1 DEF RunModel
      <4>3. VerificationOf[a] = ParseVerification(a).verification
        BY <4>2 DEF VerificationOf
      <4>4. VerificationOf[a] \in Verification
        BY <4>3, ParserKeepsSchema
      <4> QED
        BY <4>1, <4>4
    <3>2. CASE Fake(w, m)
      <4>1. [verdict |-> "unclear", confidence |-> 50] \in Verification
        BY DEF Verification, ValidVerdict
      <4> QED
        BY <3>2, <4>1 DEF Fake
    <3> QED
      BY <2>1, <3>1, <3>2
  <2>3. PICK f, u : u \in Verification /\ out' = [out EXCEPT ![w] = Package(m, f, u)]
    BY <2>2
  <2>4. Package(m, f, u).verification = u
    BY DEF Package
  <2>5. DOMAIN out' = Worker /\ out'[w].verification \in Verification
        /\ \A v \in Worker \ {w} : out'[v] = out[v]
    BY <2>3, <2>4 DEF HandInv
  <2> HIDE DEF k, m
  <2>6. \A j \in DOMAIN cache'[w] : cache'[w][j].verification \in Verification
    BY <2>1, <2>5 DEF HandInv, Remembered
  <2> QED
    BY <2>1, <2>5, <2>6 DEF HandInv
<1> QED
  BY <1>1, <1>2

\* The next message, or none: the other processes have theirs.
LEMMA ClosedHand ==
  ASSUME HandInv, NEW w \in Worker, pc[w] # "idle", Closed(w), UNCHANGED cache
  PROVE  /\ HandInv'
         /\ pc'[w] \in {"idle", "verify"}
         /\ \A v \in Worker \ {w} : pc'[v] = pc[v] /\ batch'[v] = batch[v] /\ out'[v] = out[v]
<1>1. batch[w] \in Seq(Rank) /\ batch[w] # <<>>
  BY DEF HandInv
<1>2. Tail(batch[w]) \in Seq(Rank) /\ (Len(batch[w]) # 1 => Tail(batch[w]) # <<>>)
  <2>1. Tail(batch[w]) \in Seq(Rank) /\ Len(Tail(batch[w])) = Len(batch[w]) - 1
    BY <1>1
  <2>2. Len(batch[w]) \in Nat
    BY <1>1
  <2>3. ASSUME Tail(batch[w]) = <<>> PROVE Len(batch[w]) = 1
    <3> DEFINE t == Tail(batch[w])
    <3>0. t = <<>>
      BY <2>3
    <3> HIDE DEF t
    <3>1. Len(t) = 0
      BY <3>0
    <3> QED
      BY <2>1, <2>2, <3>1 DEF t
  <2> QED
    BY <2>1, <2>3
<1>3. Nothing.verification \in Verification
  BY DEF Nothing, Verification, Unparsed, ValidVerdict
<1> QED
  BY <1>2, <1>3 DEF HandInv, Closed

LEMMA BackNext == BackInv /\ [Next]_vars => BackInv'
<1> SUFFICES ASSUME BackInv, [Next]_vars PROVE BackInv'
  OBVIOUS
<1>0. HandInv /\ TableInv /\ WrittenInv /\ PublishedInv
  BY DEF BackInv
<1>1. CASE UNCHANGED vlmVars \/ UNCHANGED <<tableVars, batch, pc, out, cache, verified, pending>>
  <2>1. UNCHANGED <<tableVars, batch, pc, out, cache, verified, pending>>
    BY <1>1 DEF vlmVars, tableVars, memory, tables, world
  <2> QED
    BY <1>0, <2>1 DEF BackInv, HandInv, TableInv, WrittenInv, PublishedInv, MessageIsBacked,
       Observed, Confided, Current, tableVars
<1>2. ASSUME NEW w \in Worker, Claim(w) \/ PollFile(w) PROVE BackInv'
  <2>1. PICK ranks \in Seq(Rank) :
           Take(w, ranks) /\ (pending' = pending \ ToSet(ranks) \/ pending' = pending)
    <3>1. CASE Claim(w)
      <4>1. IsFiniteSet(pending)
        <5>1. Rank = 1..Len(Message) /\ Len(Message) \in Int /\ pending \subseteq Rank
          BY <1>0, VlmAssumption DEF TableInv, Rank
        <5>2. IsFiniteSet(1..Len(Message))
          BY <5>1, FS_Interval
        <5> QED
          BY <5>1, <5>2, FS_Subset
      <4>2. Cardinality(pending) \in Nat
        BY <4>1, FS_CardinalityType
      <4>3. AtMost(Cardinality(pending)) \in Nat
        BY <4>2, VlmAssumption DEF AtMost
      <4>4. PICK ranks \in [1..AtMost(Cardinality(pending)) -> pending] :
               Take(w, ranks) /\ pending' = pending \ ToSet(ranks)
        BY <3>1 DEF Claim
      <4>5. ranks \in Seq(pending)
        BY <4>3, <4>4
      <4>6. ranks \in Seq(Rank)
        BY <1>0, <4>5 DEF TableInv
      <4> QED
        BY <4>4, <4>6
    <3>2. CASE PollFile(w)
      <4>1. AtMost(Len(Message)) \in Nat /\ 1..AtMost(Len(Message)) \subseteq Rank
        <5>1. Rank = 1..Len(Message) /\ Len(Message) \in Nat /\ Limit \in Nat
          BY VlmAssumption DEF Rank
        <5>2. AtMost(Len(Message)) \in Nat /\ AtMost(Len(Message)) <= Len(Message)
          BY <5>1 DEF AtMost
        <5> QED
          BY <5>1, <5>2
      <4>2. [n \in 1..AtMost(Len(Message)) |-> n] \in Seq(Rank)
        BY <4>1
      <4> QED
        BY <3>2, <4>2 DEF PollFile
    <3> QED
      BY <1>2, <3>1, <3>2
  <2>2. /\ batch' = [batch EXCEPT ![w] = ranks]
        /\ pc' = [pc EXCEPT ![w] = IF ranks = <<>> THEN "idle" ELSE "verify"]
        /\ UNCHANGED <<out, cache, verified, tableVars>>
    BY <2>1 DEF Take, memory, tables, world, tableVars
  <2>3. HandInv'
    BY <1>0, <2>1, <2>2 DEF HandInv
  <2>4. TableInv'
    BY <1>0, <2>1, <2>2 DEF TableInv, tableVars
  <2>5. Grows
    BY <2>2, GrowsAnyway
  <2>6. PublishedInv'
    BY <1>0, <2>2, <2>5, PublishedStays
  <2>7. WrittenInv'
    <3> SUFFICES ASSUME NEW v \in Worker
                 PROVE  /\ pc'[v] \in {"confide", "record", "announce"} => Observed(v)'
                        /\ pc'[v] \in {"record", "announce"} => Confided(v)'
      BY DEF WrittenInv
    <3>1. CASE v = w
      BY <1>0, <2>2, <3>1 DEF HandInv
    <3>2. CASE v # w
      <4>1. pc'[v] = pc[v] /\ batch'[v] = batch[v] /\ out'[v] = out[v]
        BY <1>0, <2>2, <3>2 DEF HandInv
      <4> QED
        BY <1>0, <2>5, <4>1, BackStays DEF WrittenInv
    <3> QED
      BY <3>1, <3>2
  <2> QED
    BY <2>3, <2>4, <2>6, <2>7 DEF BackInv
<1>3. ASSUME NEW w \in Worker, Verify(w) PROVE BackInv'
  <2>1. /\ UNCHANGED <<batch, verified, tableVars, pending>>
        /\ pc' = [pc EXCEPT ![w] = "observe"] /\ pc[w] = "verify"
    BY <1>3 DEF Verify, tables, world, tableVars
  <2>2. Grows
    BY <2>1, GrowsAnyway
  <2>3. HandInv' /\ \A v \in Worker \ {w} : out'[v] = out[v]
    BY <1>0, <1>3, <2>1, VerifiedSchema DEF HandInv
  <2>4. TableInv' /\ PublishedInv'
    BY <1>0, <2>1, <2>2, PublishedStays DEF TableInv, tableVars
  <2>5. WrittenInv'
    <3> SUFFICES ASSUME NEW v \in Worker
                 PROVE  /\ pc'[v] \in {"confide", "record", "announce"} => Observed(v)'
                        /\ pc'[v] \in {"record", "announce"} => Confided(v)'
      BY DEF WrittenInv
    <3>1. CASE v = w
      BY <1>0, <2>1, <3>1 DEF HandInv
    <3>2. CASE v # w
      <4>1. pc'[v] = pc[v] /\ batch'[v] = batch[v] /\ out'[v] = out[v]
        BY <1>0, <2>1, <2>3, <3>2 DEF HandInv
      <4> QED
        BY <1>0, <2>2, <4>1, BackStays DEF WrittenInv
    <3> QED
      BY <3>1, <3>2
  <2> QED
    BY <2>3, <2>4, <2>5 DEF BackInv
<1>4. ASSUME NEW w \in Worker, Observe(w) PROVE BackInv'
  <2>1. /\ pc[w] = "observe" /\ pc' = [pc EXCEPT ![w] = "confide"]
        /\ UNCHANGED <<batch, out, cache, verified, pending, gone, confidence>>
        /\ \/ /\ failed' = failed
              /\ observations' = Append(observations, [event |-> Current(w).event, out |-> out[w]])
           \/ Reject(w, "observation") /\ observations' = observations
    BY <1>4 DEF Observe, Accept, memory, world
  <2>2. Head(batch[w]) \in Rank
    BY <1>0, <2>1, CurrentEvent
  <2> DEFINE o == [event |-> Current(w).event, out |-> out[w]]
  <2>3. o.event = Current(w).event /\ o.out = out[w]
    OBVIOUS
  <2>4. PICK S : observations \in Seq(S)
    BY <1>0 DEF TableInv
  <2> HIDE DEF o
  <2>5. ASSUME failed' = failed, observations' = Append(observations, o)
        PROVE  Grows /\ TableInv' /\ Observed(w)'
    <3>1. observations \in Seq(S \union {o})
      BY <2>4
    <3>2. /\ observations' \in Seq(S \union {o})
          /\ DOMAIN observations = 1..Len(observations) /\ Len(observations) \in Nat
          /\ DOMAIN observations' = 1..(Len(observations) + 1)
          /\ \A i \in 1..Len(observations) : observations'[i] = observations[i]
          /\ observations'[Len(observations) + 1] = o
      BY <2>5, <3>1
    <3>3. Grows
      <4>1. \A i \in DOMAIN observations :
               i \in DOMAIN observations' /\ observations'[i] = observations[i]
        BY <3>2
      <4> QED
        BY <2>1, <2>5, <4>1 DEF Grows
    <3>4. TableInv'
      BY <1>0, <2>1, <2>5, <3>2 DEF TableInv
    <3>5. Current(w)' = Current(w) /\ out'[w] = out[w]
      BY <2>1 DEF Current
    <3>6. Len(observations) + 1 \in DOMAIN observations'
      BY <3>2
    <3> QED
      BY <2>3, <3>2, <3>3, <3>4, <3>5, <3>6 DEF Observed
  <2>6. ASSUME Reject(w, "observation"), observations' = observations
        PROVE  Grows /\ TableInv' /\ Observed(w)'
    <3>1. /\ DOMAIN failed' = Rank
          /\ \A n \in Rank : failed[n] \subseteq failed'[n]
          /\ "observation" \in failed'[Head(batch[w])]
      BY <1>0, <2>2, <2>6, Rejected
    <3> QED
      BY <1>0, <2>1, <2>6, <3>1 DEF Grows, TableInv, Observed
  <2>7. Grows /\ TableInv' /\ Observed(w)'
    BY <2>1, <2>5, <2>6 DEF o
  <2>8. HandInv' /\ PublishedInv'
    BY <1>0, <2>1, <2>7, PublishedStays DEF HandInv
  <2>9. WrittenInv'
    <3> SUFFICES ASSUME NEW v \in Worker
                 PROVE  /\ pc'[v] \in {"confide", "record", "announce"} => Observed(v)'
                        /\ pc'[v] \in {"record", "announce"} => Confided(v)'
      BY DEF WrittenInv
    <3>1. CASE v = w
      BY <1>0, <2>1, <2>7, <3>1 DEF HandInv
    <3>2. CASE v # w
      <4>1. pc'[v] = pc[v] /\ batch'[v] = batch[v] /\ out'[v] = out[v]
        BY <1>0, <2>1, <3>2 DEF HandInv
      <4> QED
        BY <1>0, <2>7, <4>1, BackStays DEF WrittenInv
    <3> QED
      BY <3>1, <3>2
  <2> QED
    BY <2>7, <2>8, <2>9 DEF BackInv
<1>5. ASSUME NEW w \in Worker, Confide(w) PROVE BackInv'
  <2> DEFINE e == Current(w).event
             c == out[w].verification.confidence
  <2>1. /\ pc[w] = "confide" /\ pc' = [pc EXCEPT ![w] = "record"]
        /\ UNCHANGED <<batch, out, cache, verified, pending, gone, observations>>
        /\ \/ /\ failed' = failed
              /\ confidence' = IF e \in gone THEN confidence ELSE [confidence EXCEPT ![e] = c]
           \/ Reject(w, "confidence") /\ confidence' = confidence
    BY <1>5 DEF Confide, Accept, memory, world
  <2>2. Head(batch[w]) \in Rank /\ e \in Event
    BY <1>0, <2>1, CurrentEvent
  <2>3. c # Absent
    BY <1>0, VlmAssumption DEF HandInv, Verification
  <2>4. Current(w)' = Current(w) /\ Head(batch'[w]) = Head(batch[w])
    BY <2>1 DEF Current
  <2> HIDE DEF c
  <2>7. Grows /\ TableInv' /\ Confided(w)'
    <3>1. CASE failed' = failed
               /\ confidence' = IF e \in gone THEN confidence ELSE [confidence EXCEPT ![e] = c]
      BY <1>0, <2>1, <2>2, <2>3, <2>4, <3>1 DEF Grows, TableInv, Confided
    <3>2. CASE Reject(w, "confidence") /\ confidence' = confidence
      <4>1. /\ DOMAIN failed' = Rank
            /\ \A n \in Rank : failed[n] \subseteq failed'[n]
            /\ "confidence" \in failed'[Head(batch[w])]
        BY <1>0, <2>2, <3>2, Rejected
      <4> QED
        BY <1>0, <2>1, <2>4, <3>2, <4>1 DEF Grows, TableInv, Confided
    <3> QED
      BY <2>1, <3>1, <3>2
  <2>8. HandInv' /\ PublishedInv'
    BY <1>0, <2>1, <2>7, PublishedStays DEF HandInv
  <2>9. WrittenInv'
    <3> SUFFICES ASSUME NEW v \in Worker
                 PROVE  /\ pc'[v] \in {"confide", "record", "announce"} => Observed(v)'
                        /\ pc'[v] \in {"record", "announce"} => Confided(v)'
      BY DEF WrittenInv
    <3>1. batch'[v] = batch[v] /\ out'[v] = out[v] /\ pc[w] # "idle"
      BY <2>1
    <3>2. CASE v = w
      BY <1>0, <2>1, <2>7, <3>1, <3>2, BackStays DEF WrittenInv, HandInv
    <3>3. CASE v # w
      <4>1. pc'[v] = pc[v]
        BY <1>0, <2>1, <3>3 DEF HandInv
      <4> QED
        BY <1>0, <2>7, <3>1, <4>1, BackStays DEF WrittenInv
    <3> QED
      BY <3>2, <3>3
  <2> QED
    BY <2>7, <2>8, <2>9 DEF BackInv
<1>6. ASSUME NEW w \in Worker, RecordRun(w) PROVE BackInv'
  <2>1. /\ pc[w] = "record" /\ pc' = [pc EXCEPT ![w] = "announce"]
        /\ UNCHANGED <<batch, out, cache, verified, pending, gone, confidence, observations>>
        /\ failed' = failed \/ Reject(w, "run")
    BY <1>6 DEF RecordRun, Accept, memory, world
  <2>2. Head(batch[w]) \in Rank
    BY <1>0, <2>1, CurrentEvent
  <2>3. Grows /\ TableInv'
    <3>1. CASE failed' = failed
      BY <1>0, <2>1, <3>1 DEF Grows, TableInv
    <3>2. CASE Reject(w, "run")
      <4>1. DOMAIN failed' = Rank /\ \A n \in Rank : failed[n] \subseteq failed'[n]
        BY <1>0, <2>2, <3>2, Rejected
      <4> QED
        BY <1>0, <2>1, <4>1 DEF Grows, TableInv
    <3> QED
      BY <2>1, <3>1, <3>2
  <2>4. HandInv' /\ PublishedInv'
    BY <1>0, <2>1, <2>3, PublishedStays DEF HandInv
  <2>5. WrittenInv'
    <3> SUFFICES ASSUME NEW v \in Worker
                 PROVE  /\ pc'[v] \in {"confide", "record", "announce"} => Observed(v)'
                        /\ pc'[v] \in {"record", "announce"} => Confided(v)'
      BY DEF WrittenInv
    <3>1. batch'[v] = batch[v] /\ out'[v] = out[v]
      BY <2>1
    <3>2. CASE v = w
      BY <1>0, <2>1, <2>3, <3>1, <3>2, BackStays DEF WrittenInv
    <3>3. CASE v # w
      <4>1. pc'[v] = pc[v]
        BY <1>0, <2>1, <3>3 DEF HandInv
      <4> QED
        BY <1>0, <2>3, <3>1, <4>1, BackStays DEF WrittenInv
    <3> QED
      BY <3>2, <3>3
  <2> QED
    BY <2>3, <2>4, <2>5 DEF BackInv
<1>7. ASSUME NEW w \in Worker, Skip(w) \/ Announce(w) PROVE BackInv'
  <2>1. /\ pc[w] # "idle" /\ Closed(w)
        /\ UNCHANGED <<cache, pending, gone, confidence, observations>>
        /\ failed' = failed \/ \E what : Reject(w, what)
        /\ pc[w] = "announce" \/ verified' = verified
        /\ \/ verified' = verified
           \/ failed' = failed /\ verified' = verified \union {Verified(w)}
    BY <1>7 DEF Skip, Announce, Accept, memory, world, tables
  <2>2. Head(batch[w]) \in Rank /\ Current(w).event \in Event
    BY <1>0, <2>1, CurrentEvent
  <2>3. Grows /\ TableInv'
    <3>1. CASE failed' = failed
      BY <1>0, <2>1, <3>1 DEF Grows, TableInv
    <3>2. CASE \E what : Reject(w, what)
      <4>1. DOMAIN failed' = Rank /\ \A n \in Rank : failed[n] \subseteq failed'[n]
        BY <1>0, <2>2, <3>2, Rejected
      <4> QED
        BY <1>0, <2>1, <4>1 DEF Grows, TableInv
    <3> QED
      BY <2>1, <3>1, <3>2
  <2>4. /\ HandInv'
        /\ pc'[w] \in {"idle", "verify"}
        /\ \A v \in Worker \ {w} : pc'[v] = pc[v] /\ batch'[v] = batch[v] /\ out'[v] = out[v]
    BY <1>0, <2>1, ClosedHand
  <2>5. PublishedInv'
    <3>1. CASE verified' = verified
      BY <1>0, <2>3, <3>1, PublishedStays
    <3>2. CASE pc[w] = "announce" /\ failed' = failed
               /\ verified' = verified \union {Verified(w)}
      <4> DEFINE x == Verified(w)
      <4>1. /\ x.rank = Head(batch[w]) /\ x.event = Current(w).event
            /\ x.verification = out[w].verification
        BY DEF Verified
      <4>2. Observed(w) /\ Confided(w)
        BY <1>0, <3>2 DEF WrittenInv
      <4> HIDE DEF x
      <4>3. /\ \/ "observation" \in failed'[x.rank]
               \/ \E i \in DOMAIN observations' :
                     /\ observations'[i].event = x.event
                     /\ observations'[i].out.verification = x.verification
            /\ \/ "confidence" \in failed'[x.rank] \/ x.event \in gone'
               \/ confidence'[x.event] # Absent
        BY <2>1, <3>2, <4>1, <4>2 DEF Observed, Confided
      <4>4. x.rank \in Rank /\ x.event \in Event
        BY <2>2, <4>1
      <4>5. verified' = verified \union {x}
        BY <3>2 DEF x
      <4>6. \A v \in verified :
               /\ \/ "observation" \in failed'[v.rank]
                  \/ \E i \in DOMAIN observations' :
                        /\ observations'[i].event = v.event
                        /\ observations'[i].out.verification = v.verification
               /\ \/ "confidence" \in failed'[v.rank] \/ v.event \in gone'
                  \/ confidence'[v.event] # Absent
        BY <1>0, <2>1, <3>2 DEF PublishedInv, MessageIsBacked
      <4> QED
        BY <1>0, <4>3, <4>4, <4>5, <4>6 DEF PublishedInv, MessageIsBacked
    <3> QED
      BY <2>1, <3>1, <3>2
  <2>6. WrittenInv'
    <3> SUFFICES ASSUME NEW v \in Worker
                 PROVE  /\ pc'[v] \in {"confide", "record", "announce"} => Observed(v)'
                        /\ pc'[v] \in {"record", "announce"} => Confided(v)'
      BY DEF WrittenInv
    <3>1. CASE v = w
      BY <2>4, <3>1
    <3>2. CASE v # w
      BY <1>0, <2>3, <2>4, <3>2, BackStays DEF WrittenInv
    <3> QED
      BY <3>1, <3>2
  <2> QED
    BY <2>3, <2>4, <2>5, <2>6 DEF BackInv
<1>8. ASSUME NEW w \in Worker, Die(w) PROVE BackInv'
  <2>1. /\ batch' = [batch EXCEPT ![w] = <<>>]
        /\ pc' = [pc EXCEPT ![w] = "idle"]
        /\ out' = [out EXCEPT ![w] = Nothing]
        /\ cache' = [cache EXCEPT ![w] = <<>>]
        /\ UNCHANGED <<verified, pending, tableVars>>
    BY <1>8 DEF Die, tables, world, tableVars
  <2>2. <<>> \in Seq(Rank) /\ DOMAIN <<>> = {} /\ Nothing.verification \in Verification
    BY DEF Nothing, Verification, Unparsed, ValidVerdict
  <2>3. HandInv'
    BY <1>0, <2>1, <2>2 DEF HandInv
  <2>4. Grows
    BY <2>1, GrowsAnyway
  <2>5. TableInv' /\ PublishedInv'
    BY <1>0, <2>1, <2>4, PublishedStays DEF TableInv, tableVars
  <2>6. WrittenInv'
    <3> SUFFICES ASSUME NEW v \in Worker
                 PROVE  /\ pc'[v] \in {"confide", "record", "announce"} => Observed(v)'
                        /\ pc'[v] \in {"record", "announce"} => Confided(v)'
      BY DEF WrittenInv
    <3>1. CASE v = w
      BY <1>0, <2>1, <3>1 DEF HandInv
    <3>2. CASE v # w
      <4>1. pc'[v] = pc[v] /\ batch'[v] = batch[v] /\ out'[v] = out[v]
        BY <1>0, <2>1, <3>2 DEF HandInv
      <4> QED
        BY <1>0, <2>4, <4>1, BackStays DEF WrittenInv
    <3> QED
      BY <3>1, <3>2
  <2> QED
    BY <2>3, <2>5, <2>6 DEF BackInv
<1>9. CASE Expire
  <2>1. /\ UNCHANGED <<batch, pc, out, cache, verified, pending, failed, observations>>
        /\ \/ UNCHANGED <<gone, confidence>>
           \/ \E e \in Event : /\ gone' = gone \union {e}
                               /\ confidence' = [confidence EXCEPT ![e] = Absent]
    BY <1>9 DEF Expire, memory
  <2>2. Grows
    BY <1>0, <2>1 DEF Grows, TableInv
  <2>3. HandInv' /\ TableInv' /\ PublishedInv'
    BY <1>0, <2>1, <2>2, PublishedStays DEF HandInv, TableInv
  <2>4. WrittenInv'
    BY <1>0, <2>1, <2>2, BackStays DEF WrittenInv
  <2> QED
    BY <2>3, <2>4 DEF BackInv
<1>10. CASE IndexNext \/ UNCHANGED vars
  BY <1>1, <1>10 DEF IndexNext, IndexEvents, IndexObservations, Finish, Delete, Insert, vars,
     memory, tables, world, tableVars
<1> QED
  BY <1>2, <1>3, <1>4, <1>5, <1>6, <1>7, <1>8, <1>9, <1>10 DEF Next, VlmNext

\* Who hears a verdict finds it in the database, whatever processes died or writes were
\* rejected: the observation and the confidence precede the message (process_event).
THEOREM MessagesAreBacked == Spec => []MessageIsBacked
<1>1. BackInv => MessageIsBacked
  BY DEF BackInv, PublishedInv
<1> QED
  BY <1>1, BackInit, BackNext, PTL DEF Spec

=============================================================================
