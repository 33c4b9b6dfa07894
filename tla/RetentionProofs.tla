--------------------------- MODULE RetentionProofs ---------------------------
(***************************************************************************)
(* Proofs about Retention and AuditTrail for any clips, incidents, terms,  *)
(* days, migration runners and number of jobs.                             *)
(***************************************************************************)
EXTENDS AuditTrail, TLAPS

-----------------------------------------------------------------------------
(* Retention: type correctness *)

TypeOK ==
    /\ day \in Day
    /\ born \in [Table -> [Clip -> Day \union {Unborn, Deleted}]]
    /\ incident \in [Incident -> [status : {"none", "open", "closed"}, clips : SUBSET Clip]]
    /\ step \in 0..5
    /\ locked \in SUBSET Clip
    /\ doomed \in [Table -> SUBSET Clip]
    /\ began \in Day
    /\ during \in SUBSET Incident

LEMMA Tables ==
    /\ Len(Order) = 4
    /\ Order[1] = "video_segments" /\ Order[2] = "ai_windows"
    /\ Order[3] = "detections" /\ Order[4] = "events"
    /\ Table = {"video_segments", "ai_windows", "detections", "events"}
  BY DEF Order, Table

LEMMA Days0 == Day \subseteq Nat /\ 0 \in Day /\ Unborn \notin Day /\ Deleted \notin Day
  BY DaysAssumption, NoRowAssumption DEF Day

LEMMA Cascades ==
  /\ Cascade("video_segments") = {"video_segments", "ai_windows", "detections"}
  /\ Cascade("ai_windows") = {"ai_windows", "detections"}
  /\ Cascade("detections") = {"detections"} /\ Cascade("events") = {"events"}
  BY DEF Cascade

LEMMA TypeInit == Init => TypeOK
  BY Days0, Tables DEF Init, TypeOK, NotDoomed

\* What the writers of rows have in common: a row that is not there gets the day's date,
\* and an event is inserted once.
Inserts ==
    /\ UNCHANGED <<day, incident, step, locked, doomed, began, during>>
    /\ born' \in [Table -> [Clip -> Day \union {Unborn, Deleted}]]
    /\ \A t \in Table, c \in Clip :
          born'[t][c] = born[t][c] \/ (~Has(t, c) /\ born'[t][c] = day)
    /\ \A c \in Clip : born["events"][c] # Unborn => born'["events"][c] = born["events"][c]

LEMMA BackfillInserts ==
  ASSUME TypeOK, NEW S \in SUBSET Clip, NEW W \in SUBSET Clip, Backfill(S, W)
  PROVE  Inserts
<1> USE Tables DEF TypeOK, Backfill
<1>1. ASSUME NEW t \in Table, NEW c \in Clip
      PROVE  /\ born'[t][c] = born[t][c] \/ (~Has(t, c) /\ born'[t][c] = day)
             /\ t = "events" => born'[t][c] = born[t][c]
  OBVIOUS
<1>2. born' \in [Table -> [Clip -> Day \union {Unborn, Deleted}]]
  OBVIOUS
<1> QED
  BY <1>1, <1>2 DEF job, Inserts

LEMMA InsertInserts ==
  ASSUME TypeOK, NEW t \in Table, NEW c \in Clip, Insert(t, c),
         ~Has(t, c), t = "events" => born[t][c] = Unborn,
         UNCHANGED <<day, incident, job, during>>
  PROVE  Inserts
<1> USE DEF TypeOK, Insert
<1>1. \A u \in Table, d \in Clip :
         born'[u][d] = IF u = t /\ d = c THEN day ELSE born[u][d]
  OBVIOUS
<1>2. born' \in [Table -> [Clip -> Day \union {Unborn, Deleted}]]
  OBVIOUS
<1> QED
  BY <1>1, <1>2, Tables DEF job, Inserts

\* The three writers of rows.
Writes ==
    \/ \E S, W \in SUBSET Clip : Backfill(S, W)
    \/ \E c \in Clip : Detect(c) \/ RecordEvent(c)

LEMMA WritesInsert == TypeOK /\ Writes => Inserts
<1> SUFFICES ASSUME TypeOK, Writes PROVE Inserts
  OBVIOUS
<1>1. ASSUME NEW S \in SUBSET Clip, NEW W \in SUBSET Clip, Backfill(S, W) PROVE Inserts
  BY <1>1, BackfillInserts
<1>2. ASSUME NEW c \in Clip, Detect(c) PROVE Inserts
  <2>1. Insert("detections", c) /\ ~Has("detections", c) /\ UNCHANGED <<day, incident, job, during>>
    BY <1>2 DEF Detect
  <2> QED
    BY <2>1, Tables, InsertInserts
<1>3. ASSUME NEW c \in Clip, RecordEvent(c) PROVE Inserts
  <2>1. Insert("events", c) /\ born["events"][c] = Unborn /\ UNCHANGED <<day, incident, job, during>>
    BY <1>3 DEF RecordEvent
  <2>2. ~Has("events", c)
    BY <2>1, Days0 DEF Has
  <2> QED
    BY <2>1, <2>2, Tables, InsertInserts
<1> QED
  BY <1>1, <1>2, <1>3 DEF Writes

LEMMA TypeNext == TypeOK /\ [Next]_vars => TypeOK'
<1> SUFFICES ASSUME TypeOK, [Next]_vars PROVE TypeOK'
  OBVIOUS
<1> USE Days0, Tables DEF TypeOK
<1>1. CASE Tick
  BY <1>1, DaysAssumption DEF Tick, job, Day
<1>2. CASE Writes
  BY <1>2, WritesInsert DEF Inserts
<1>3. ASSUME NEW i \in Incident, Close(i) PROVE TypeOK'
  BY <1>3 DEF Close, job
<1>4. ASSUME NEW i \in Incident, NEW C \in SUBSET Clip, Raise(i, C) PROVE TypeOK'
  BY <1>4 DEF Raise, job
<1>5. CASE ReadLocks
  BY <1>5 DEF ReadLocks, LockedClips
<1>6. CASE DeleteNext
  <2>1. doomed' \in [Table -> SUBSET Clip]
    BY <1>6 DEF DeleteNext, Victims
  <2> QED
    BY <1>6, <2>1 DEF DeleteNext
<1>7. CASE Commit
  BY <1>7 DEF Commit, Finish, NotDoomed
<1>8. CASE RollBack
  BY <1>8 DEF RollBack, Finish, NotDoomed
<1>9. CASE UNCHANGED vars
  BY <1>9 DEF vars
<1> QED
  BY <1>1, <1>2, <1>3, <1>4, <1>5, <1>6, <1>7, <1>8, <1>9 DEF Next, Writes


\* Every reachable state of tables, incidents and the job is well-typed, for any clips,
\* incidents, terms and days.
THEOREM TypeCorrect == Spec => []TypeOK
  BY TypeInit, TypeNext, PTL DEF Spec

\* Rows go in a commit only, and only those that the job has doomed.
LEMMA GoesByCommit ==
  ASSUME TypeOK, [Next]_vars, NEW t \in Table, NEW c \in Clip, Goes(t, c)
  PROVE  Commit /\ c \in doomed[t]
<1> USE Days0, Tables DEF TypeOK, Goes, Has
<1>1. CASE born' = born
  BY <1>1
<1>2. CASE Writes
  BY <1>2, WritesInsert DEF Inserts
<1>3. CASE Commit
  BY <1>3 DEF Commit
<1> QED
  BY <1>1, <1>2, <1>3
     DEF Next, Writes, vars, Tick, Close, Raise, ReadLocks, DeleteNext, RollBack

-----------------------------------------------------------------------------
(* The evidence lock *)

\* What is linked was recorded: no later insert adds an event to an open incident.
LinkedBorn ==
    \A i \in Incident : Open(i) => \A c \in incident[i].clips : born["events"][c] # Unborn

\* While the job runs, a clip with an event row that is linked to an open incident is
\* locked, or the incident was opened after the locks were read.
LockedOrNew ==
    step > 0 =>
        \A c \in Clip, i \in Incident :
            Links(i, c) /\ Has("events", c) => c \in locked \/ i \in during

\* The job spares what it read as locked.
Spared == \A c \in locked : c \notin doomed["video_segments"]

AtRest == step = 0 => doomed = NotDoomed

LockInv == TypeOK /\ LinkedBorn /\ LockedOrNew /\ Spared /\ AtRest

LEMMA LockInit == Init => LockInv
<1> SUFFICES ASSUME Init PROVE LockInv
  OBVIOUS
<1>1. TypeOK
  BY TypeInit
<1> QED
  BY <1>1, Tables DEF Init, LockInv, LinkedBorn, LockedOrNew, Spared, AtRest, Open

LEMMA LockNext == LockInv /\ [Next]_vars => LockInv'
<1> SUFFICES ASSUME LockInv, [Next]_vars PROVE LockInv'
  OBVIOUS
<1>0. TypeOK'
  BY TypeNext DEF LockInv
<1>t. TypeOK /\ LinkedBorn /\ LockedOrNew /\ Spared /\ AtRest
  BY DEF LockInv
<1> SUFFICES LinkedBorn' /\ LockedOrNew' /\ Spared' /\ AtRest'
  BY <1>0 DEF LockInv
<1> USE Days0, Tables DEF LinkedBorn, LockedOrNew, Spared, AtRest, NotDoomed, Links, Open, Has
<1>1. CASE Tick
  BY <1>1, <1>t DEF Tick, job, TypeOK
<1>2. CASE Writes
  <2>1. /\ UNCHANGED <<incident, step, locked, doomed, during>>
        /\ \A c \in Clip : born["events"][c] # Unborn => born'["events"][c] = born["events"][c]
    BY <1>2, <1>t, WritesInsert DEF Inserts
  <2>2. LinkedBorn' /\ Spared' /\ AtRest'
    BY <2>1, <1>t DEF TypeOK
  <2>3. LockedOrNew'
    BY <2>1, <1>t DEF TypeOK
  <2> QED
    BY <2>2, <2>3
<1>3. ASSUME NEW j \in Incident, Close(j) PROVE LinkedBorn' /\ LockedOrNew' /\ Spared' /\ AtRest'
  <2>1. \A i \in Incident : i # j => incident'[i] = incident[i]
    BY <1>3, <1>t DEF Close, TypeOK
  <2>2. incident'[j].status = "closed"
    BY <1>3, <1>t DEF Close, TypeOK
  <2> QED
    BY <1>3, <1>t, <2>1, <2>2 DEF Close, job, TypeOK
<1>4. ASSUME NEW j \in Incident, NEW C \in SUBSET Clip, Raise(j, C)
      PROVE LinkedBorn' /\ LockedOrNew' /\ Spared' /\ AtRest'
  <2>1. \A i \in Incident : i # j => incident'[i] = incident[i]
    BY <1>4, <1>t DEF Raise, TypeOK
  <2>2. incident'[j].clips = C
    BY <1>4, <1>t DEF Raise, TypeOK
  <2> QED
    BY <1>4, <1>t, <2>1, <2>2 DEF Raise, job, TypeOK
<1>5. CASE ReadLocks
  BY <1>5, <1>t DEF ReadLocks, LockedClips, TypeOK
<1>6. CASE DeleteNext
  BY <1>6, <1>t DEF DeleteNext, Victims, Cascade, TypeOK
<1>7. CASE Commit
  <2>1. LinkedBorn'
    BY <1>7, <1>t, NoRowAssumption DEF Commit, TypeOK
  <2>2. LockedOrNew' /\ Spared'
    BY <1>7 DEF Commit, Finish
  <2>3. AtRest'
    BY <1>7 DEF Commit, Finish
  <2> QED
    BY <2>1, <2>2, <2>3
<1>8. CASE RollBack
  BY <1>8, <1>t DEF RollBack, Finish, TypeOK
<1>9. CASE UNCHANGED vars
  BY <1>9, <1>t DEF vars, TypeOK
<1> QED
  BY <1>1, <1>2, <1>3, <1>4, <1>5, <1>6, <1>7, <1>8, <1>9 DEF Next, Writes

\* The evidence lock as it works: no job deletes the clip of an incident that was open when
\* the job read its locks, as long as the linked event row exists.
THEOREM LockIsKept == Spec => LockHolds
<1>1. LockInv /\ [Next]_vars =>
        [\A c \in Clip : Goes("video_segments", c) /\ Has("events", c) =>
           \A i \in Incident : Links(i, c) => i \in during]_vars
  <2> SUFFICES ASSUME LockInv, [Next]_vars,
                      NEW c \in Clip, Goes("video_segments", c), Has("events", c),
                      NEW i \in Incident, Links(i, c)
               PROVE  i \in during
    OBVIOUS
  <2>1. Commit /\ c \in doomed["video_segments"]
    BY GoesByCommit, Tables DEF LockInv
  <2>2. step > 0 /\ c \notin locked
    BY <2>1, Tables DEF Commit, LockInv, Spared
  <2> QED
    BY <2>2 DEF LockInv, LockedOrNew
<1> QED
  BY <1>1, LockInit, LockNext, PTL DEF Spec, LockHolds

-----------------------------------------------------------------------------
(* Terms *)

Past(t, c) == Has(t, c) /\ born[t][c] + Days[t] <= day

\* A detection has a window, and no window goes without its detections.
HasWindow ==
    \A c \in Clip :
        /\ Has("detections", c) => Has("ai_windows", c)
        /\ c \in doomed["ai_windows"] /\ Has("detections", c) => c \in doomed["detections"]

\* What is doomed is there, and past its term or doomed with what it references.
DoomedPast ==
    \A t \in Table : \A c \in doomed[t] :
        /\ Has(t, c)
        /\ Past(t, c) \/ (t \in DOMAIN Parent /\ c \in doomed[Parent[t]])

TermInv == TypeOK /\ HasWindow /\ DoomedPast

LEMMA Parents ==
  /\ DOMAIN Parent = {"ai_windows", "detections"} /\ DOMAIN Parent \subseteq Table
  /\ Parent["ai_windows"] = "video_segments" /\ Parent["detections"] = "ai_windows"
  BY Tables DEF Parent

LEMMA TermInit == Init => TermInv
<1> SUFFICES ASSUME Init PROVE TermInv
  OBVIOUS
<1>1. TypeOK
  BY TypeInit
<1> QED
  BY <1>1, Tables, Days0 DEF Init, TermInv, HasWindow, DoomedPast, Has, NotDoomed

\* What is past its term stays so as long as the row stays.
LEMMA PastStays ==
  ASSUME TypeOK, TypeOK', day' >= day, NEW t \in Table, NEW c \in Clip, Past(t, c),
         born'[t][c] = born[t][c]
  PROVE  Past(t, c)'
<1>1. born[t][c] \in Nat /\ Days[t] \in Nat /\ day \in Nat /\ day' \in Nat
  BY DaysAssumption, Days0 DEF TypeOK, Past, Has
<1> QED
  BY <1>1 DEF Past, Has

\* A step that takes no row and adds nothing to what is doomed.
LEMMA TermsUndisturbed ==
  ASSUME TermInv, TypeOK', day' >= day, doomed' = doomed,
         \A t \in Table, c \in Clip : Has(t, c) => born'[t][c] = born[t][c],
         HasWindow'
  PROVE  TermInv'
<1> SUFFICES ASSUME NEW t \in Table, NEW c \in doomed[t]
             PROVE  Has(t, c)' /\ (Past(t, c)' \/ (t \in DOMAIN Parent /\ c \in doomed[Parent[t]]))
  BY DEF TermInv, DoomedPast
<1>1. c \in Clip /\ TypeOK
  BY DEF TermInv, TypeOK
<1>2. Has(t, c) /\ (Past(t, c) \/ (t \in DOMAIN Parent /\ c \in doomed[Parent[t]]))
  BY DEF TermInv, DoomedPast
<1>3. born'[t][c] = born[t][c]
  BY <1>1, <1>2
<1> QED
  BY <1>1, <1>2, <1>3, PastStays DEF Has

\* A backfilled window, even one under a clip that is past its term, disturbs nothing: no
\* row is doomed that it would hang on.
LEMMA WritesKeepTerms == TermInv /\ Writes => TermInv'
<1> SUFFICES ASSUME TermInv, Writes PROVE TermInv'
  OBVIOUS
<1>1. TypeOK /\ HasWindow /\ DoomedPast /\ Inserts
  BY WritesInsert DEF TermInv
<1>2. TypeOK'
  BY TypeNext DEF TermInv, Next, Writes
<1>3. day' >= day /\ doomed' = doomed
  BY <1>1, Days0 DEF Inserts, TypeOK
<1>4. \A t \in Table, c \in Clip : Has(t, c) => born'[t][c] = born[t][c]
  BY <1>1 DEF Inserts
<1>5. \A t \in Table, c \in Clip : Has(t, c) => Has(t, c)'
  BY <1>4 DEF Has
<1>6. HasWindow'
  <2> SUFFICES ASSUME NEW c \in Clip, Has("detections", c)'
               PROVE  /\ Has("ai_windows", c)'
                      /\ c \in doomed["ai_windows"] => c \in doomed["detections"]
    BY <1>3 DEF HasWindow
  <2>1. CASE Has("detections", c)
    BY <1>1, <1>5, <2>1, Tables DEF HasWindow
  <2>2. CASE ~Has("detections", c)
    <3>1. born'["detections"][c] # born["detections"][c]
      BY <2>2 DEF Has
    <3>2. ASSUME NEW S \in SUBSET Clip, NEW W \in SUBSET Clip, Backfill(S, W) PROVE FALSE
      BY <3>1, <3>2, Tables DEF Backfill
    <3>3. ASSUME NEW d \in Clip, RecordEvent(d) PROVE FALSE
      BY <3>1, <3>3, <1>1, Tables DEF RecordEvent, Insert, TypeOK
    <3>4. PICK d \in Clip : Detect(d)
      BY <3>2, <3>3 DEF Writes
    <3>5. d = c
      BY <3>1, <3>4, <1>1, Tables DEF Detect, Insert, TypeOK
    <3>6. Has("ai_windows", c) /\ c \notin doomed["ai_windows"]
      BY <3>4, <3>5 DEF Detect
    <3> QED
      BY <3>6, <1>5, Tables
  <2> QED
    BY <2>1, <2>2
<1> QED
  BY <1>2, <1>3, <1>4, <1>6, TermsUndisturbed

\* One DELETE: what it takes is past its term, or hangs on what it takes with it.
LEMMA DeleteKeepsTerms == TermInv /\ DeleteNext => TermInv'
<1> SUFFICES ASSUME TermInv, DeleteNext PROVE TermInv'
  OBVIOUS
<1> DEFINE T == Order[step]
<1>t. TypeOK /\ HasWindow /\ DoomedPast
  BY DEF TermInv
<1>0. TypeOK' /\ T \in Table /\ born' = born /\ day' = day
  BY <1>t, TypeNext, Tables DEF Next, DeleteNext
<1>1. \A c \in Victims(T) : c \in Clip /\ Past(T, c)
  BY DEF Victims, Expired, Past
<1>2. \A t \in Table, c \in Clip :
         c \in doomed'[t] <=> c \in doomed[t] \/ (t \in Cascade(T) /\ c \in Victims(T) /\ Has(t, c))
  <2>1. ASSUME NEW t \in Table
        PROVE  doomed'[t] = doomed[t] \union
                   IF t \in Cascade(T) THEN {c \in Victims(T) : Has(t, c)} ELSE {}
    BY <2>1 DEF DeleteNext
  <2> HIDE DEF T
  <2> QED
    BY <2>1
<1>3. /\ T \in Cascade(T)
      /\ "ai_windows" \in Cascade(T) => "detections" \in Cascade(T)
      /\ \A t \in Cascade(T) : t = T \/ (t \in DOMAIN Parent /\ Parent[t] \in Cascade(T))
  <2>1. \A t \in Table :
          /\ t \in Cascade(t)
          /\ "ai_windows" \in Cascade(t) => "detections" \in Cascade(t)
          /\ \A u \in Cascade(t) : u = t \/ (u \in DOMAIN Parent /\ Parent[u] \in Cascade(t))
    BY Cascades, Tables, Parents
  <2> HIDE DEF T
  <2> QED
    BY <1>0, <2>1
<1> HIDE DEF T
<1>4. HasWindow'
  <2> SUFFICES ASSUME NEW c \in Clip, Has("detections", c)
               PROVE  /\ Has("ai_windows", c)
                      /\ c \in doomed'["ai_windows"] => c \in doomed'["detections"]
    BY <1>0 DEF HasWindow, Has
  <2> QED
    BY <1>t, <1>2, <1>3, Tables DEF HasWindow
<1>5. DoomedPast'
  <2> SUFFICES ASSUME NEW t \in Table, NEW c \in doomed'[t]
               PROVE  Has(t, c) /\ (Past(t, c) \/ (t \in DOMAIN Parent /\ c \in doomed'[Parent[t]]))
    BY <1>0 DEF DoomedPast, Past, Has
  <2>0. c \in Clip
    BY <1>0 DEF TypeOK
  <2>1. CASE c \in doomed[t]
    <3>1. Has(t, c) /\ (Past(t, c) \/ (t \in DOMAIN Parent /\ c \in doomed[Parent[t]]))
      BY <1>t, <2>1 DEF DoomedPast
    <3>2. t \in DOMAIN Parent => Parent[t] \in Table
      BY Parents, Tables
    <3> QED
      BY <1>2, <2>0, <3>1, <3>2
  <2>2. CASE t \in Cascade(T) /\ c \in Victims(T) /\ Has(t, c)
    <3>1. CASE t = T
      BY <1>1, <2>2, <3>1
    <3>2. CASE t \in DOMAIN Parent /\ Parent[t] \in Cascade(T)
      <4>1. Parent[t] \in Table /\ (Parent[t] = T \/ (t = "detections" /\ Parent[t] = "ai_windows")
                                      \/ (t = "ai_windows" /\ Parent[t] = "video_segments"))
        BY <3>2, Parents, Tables
      <4>2. Parent[t] # T => t = "detections" /\ Parent[t] = "ai_windows"
        BY <1>3, <3>2, <4>1, Parents, Tables
      <4>3. Has(Parent[t], c)
        BY <1>1, <1>t, <2>2, <2>0, <4>2 DEF Past, HasWindow
      <4> QED
        BY <1>2, <2>0, <2>2, <3>2, <4>1, <4>3
    <3> QED
      BY <1>3, <2>2, <3>1, <3>2
  <2> QED
    BY <1>2, <2>0, <2>1, <2>2
<1> QED
  BY <1>0, <1>4, <1>5 DEF TermInv

LEMMA TermNext == TermInv /\ [Next]_vars => TermInv'
<1> SUFFICES ASSUME TermInv, [Next]_vars PROVE TermInv'
  OBVIOUS
<1>0. TypeOK'
  BY TypeNext DEF TermInv
<1>t. TypeOK /\ HasWindow /\ DoomedPast
  BY DEF TermInv
<1>1. CASE UNCHANGED <<born, doomed>> /\ day' >= day
  <2>1. HasWindow'
    BY <1>1, <1>t DEF HasWindow, Has
  <2> QED
    BY <1>0, <1>1, <2>1, TermsUndisturbed
<1>2. CASE Writes
  BY <1>2, WritesKeepTerms
<1>3. CASE DeleteNext
  BY <1>3, DeleteKeepsTerms
<1>4. CASE Commit
  <2>1. \A t \in Table, c \in Clip :
           born'[t][c] = IF c \in doomed[t] THEN Deleted ELSE born[t][c]
    BY <1>4, <1>t DEF Commit, TypeOK
  <2>2. HasWindow'
    BY <1>4, <1>t, <2>1, Tables, Days0 DEF HasWindow, Has, Commit, Finish, NotDoomed
  <2>3. DoomedPast'
    BY <1>4 DEF DoomedPast, Commit, Finish, NotDoomed
  <2> QED
    BY <1>0, <2>2, <2>3 DEF TermInv
<1>5. CASE RollBack
  <2>1. DoomedPast'
    BY <1>5 DEF DoomedPast, RollBack, Finish, NotDoomed
  <2>2. HasWindow'
    BY <1>5, <1>t, Tables DEF HasWindow, Has, RollBack, Finish, NotDoomed
  <2> QED
    BY <1>0, <2>1, <2>2 DEF TermInv
<1>6. day \in Nat
  BY <1>t, Days0 DEF TypeOK
<1> QED
  BY <1>1, <1>2, <1>3, <1>4, <1>5, <1>6
     DEF Next, Writes, vars, job, Tick, Close, Raise, ReadLocks

\* Clips and events are kept for their full term, and a window or a detection goes before
\* its own only in the transaction that takes the row it hangs on, whatever the terms are
\* and whenever rows are inserted, deleted and inserted again.
THEOREM FullTermIsServed == Spec => FullTerm
<1>1. TermInv /\ [Next]_vars =>
        [\A t \in Table, c \in Clip : Goes(t, c) =>
           \/ born[t][c] + Days[t] <= day
           \/ t \in DOMAIN Parent /\ Goes(Parent[t], c)]_vars
  <2> SUFFICES ASSUME TermInv, [Next]_vars, NEW t \in Table, NEW c \in Clip, Goes(t, c)
               PROVE  \/ born[t][c] + Days[t] <= day
                      \/ t \in DOMAIN Parent /\ Goes(Parent[t], c)
    OBVIOUS
  <2>1. Commit /\ c \in doomed[t]
    BY GoesByCommit DEF TermInv
  <2>2. Past(t, c) \/ (t \in DOMAIN Parent /\ c \in doomed[Parent[t]])
    BY <2>1 DEF TermInv, DoomedPast
  <2>3. CASE t \in DOMAIN Parent /\ c \in doomed[Parent[t]]
    <3>1. Parent[t] \in Table
      BY <2>3, Parents, Tables
    <3>2. Has(Parent[t], c)
      BY <2>3, <3>1 DEF TermInv, DoomedPast
    <3>3. born'[Parent[t]][c] = Deleted
      BY <2>1, <2>3, <3>1 DEF Commit
    <3> QED
      BY <2>3, <3>2, <3>3, Days0 DEF Goes, Has
  <2> QED
    BY <2>2, <2>3 DEF Past
<1> QED
  BY <1>1, TermInit, TermNext, PTL DEF Spec, FullTerm

\* The job has caught what was past its term when it began, in the tables it is through with.
Caught ==
    step > 0 =>
        /\ began <= day
        /\ \A n \in 1..4 : n < step =>
              \A c \in Clip : Has(Order[n], c) /\ born[Order[n]][c] + Days[Order[n]] <= began =>
                  c \in doomed[Order[n]] \/ (Order[n] = "video_segments" /\ c \in locked)

CaughtInv == TypeOK /\ Caught

\* As configured: nothing is due on the day it is inserted.
TermsArePositive == \A t \in Table : Days[t] > 0

LEMMA CaughtNext ==
  ASSUME TermsArePositive
  PROVE  CaughtInv /\ [Next]_vars => CaughtInv'
<1> SUFFICES ASSUME CaughtInv, [Next]_vars PROVE CaughtInv'
  OBVIOUS
<1>0. TypeOK'
  BY TypeNext DEF CaughtInv
<1>t. TypeOK /\ Caught
  BY DEF CaughtInv
<1> SUFFICES Caught'
  BY <1>0 DEF CaughtInv
<1>n. \A n \in 1..4 : Order[n] \in Table
  BY Tables
<1> USE Days0 DEF Caught, Has
<1>1. CASE UNCHANGED <<born, job>> /\ day' >= day
  <2>1. began \in Nat /\ day \in Nat /\ day' \in Nat
    BY <1>0, <1>t DEF TypeOK
  <2>2. UNCHANGED <<born, step, locked, doomed, began>>
    BY <1>1 DEF job
  <2>3. step > 0 => began' <= day'
    BY <1>1, <1>t, <2>1, <2>2
  <2> QED
    BY <1>t, <2>2, <2>3
<1>2. CASE Writes
  <2>i. Inserts
    BY <1>2, <1>t, WritesInsert
  <2> SUFFICES ASSUME step > 0, NEW n \in 1..4, n < step, NEW c \in Clip,
                      Has(Order[n], c)', born'[Order[n]][c] + Days[Order[n]] <= began
               PROVE  c \in doomed[Order[n]] \/ (Order[n] = "video_segments" /\ c \in locked)
    BY <2>i, <1>t DEF Inserts
  <2>1. CASE born'[Order[n]][c] = born[Order[n]][c]
    BY <1>t, <2>1
  <2>2. CASE born'[Order[n]][c] = day
    <3>1. day \in Nat /\ began \in Nat /\ Days[Order[n]] \in Nat /\ Days[Order[n]] > 0
      BY <1>t, <1>n, DaysAssumption DEF TypeOK, TermsArePositive
    <3> QED
      BY <1>t, <2>2, <3>1
  <2> QED
    BY <1>n, <2>i, <2>1, <2>2 DEF Inserts
<1>3. CASE ReadLocks
  <2>1. step' = 1 /\ began' = day /\ day' = day
    BY <1>3 DEF ReadLocks
  <2> QED
    BY <1>t, <2>1 DEF TypeOK
<1>4. CASE DeleteNext
  <2>0. /\ step \in 1..4 /\ step' = step + 1
        /\ UNCHANGED <<day, born, locked, began>>
    BY <1>4, Tables DEF DeleteNext
  <2>1. \A t \in Table : doomed[t] \subseteq doomed'[t]
    BY <1>4 DEF DeleteNext
  <2>2. ASSUME NEW c \in Clip, Has(Order[step], c),
               born[Order[step]][c] + Days[Order[step]] <= began
        PROVE  c \in doomed'[Order[step]] \/ (Order[step] = "video_segments" /\ c \in locked)
    <3>1. born[Order[step]][c] \in Nat /\ Days[Order[step]] \in Nat /\ began \in Nat /\ day \in Nat
      BY <1>t, <1>n, <2>0, <2>2, DaysAssumption DEF TypeOK
    <3>2. born[Order[step]][c] + Days[Order[step]] <= day
      BY <1>t, <2>0, <2>2, <3>1
    <3>3. c \in Victims(Order[step]) \/ (Order[step] = "video_segments" /\ c \in locked)
      BY <2>2, <3>2 DEF Victims, Expired
    <3>4. Order[step] \in Cascade(Order[step])
      BY <1>n, <2>0, Cascades, Tables
    <3> QED
      BY <1>4, <1>n, <2>0, <2>2, <3>3, <3>4 DEF DeleteNext
  <2> SUFFICES ASSUME NEW n \in 1..4, n < step', NEW c \in Clip, Has(Order[n], c),
                      born[Order[n]][c] + Days[Order[n]] <= began
               PROVE  c \in doomed'[Order[n]] \/ (Order[n] = "video_segments" /\ c \in locked)
    BY <1>t, <2>0
  <2>3. CASE n = step
    BY <2>2, <2>3
  <2>4. CASE n < step
    BY <1>t, <1>n, <2>0, <2>1, <2>4
  <2> QED
    BY <2>0, <2>3, <2>4
<1>5. CASE Commit \/ RollBack
  BY <1>5 DEF Commit, RollBack, Finish
<1>6. CASE Tick
  <2>1. day \in Nat
    BY <1>t DEF TypeOK
  <2> QED
    BY <1>1, <1>6, <2>1 DEF Tick, job
<1>7. CASE \E i \in Incident : Close(i) \/ \E C \in SUBSET Clip : Raise(i, C)
  <2>1. day \in Nat
    BY <1>t DEF TypeOK
  <2> QED
    BY <1>1, <1>7, <2>1 DEF Close, Raise
<1>8. CASE UNCHANGED vars
  <2>1. day \in Nat
    BY <1>t DEF TypeOK
  <2> QED
    BY <1>1, <1>8, <2>1 DEF vars, job
<1> QED
  BY <1>2, <1>3, <1>4, <1>5, <1>6, <1>7, <1>8 DEF Next, Writes

\* A job about to commit has caught every row that was past its limit when the job started, but
\* for the clips it read as locked, if nothing is due on the day it is inserted.
THEOREM ExpiredIsCaught ==
  ASSUME TermsArePositive
  PROVE  Spec => []NothingExpiredRemains
<1>1. Init => CaughtInv
  BY TypeInit DEF Init, CaughtInv, Caught
<1>2. CaughtInv => NothingExpiredRemains
  <2> SUFFICES ASSUME CaughtInv, step = 5, NEW t \in Table, NEW c \in Clip,
                      Has(t, c), born[t][c] + Days[t] <= began
               PROVE  c \in doomed[t] \/ (t = "video_segments" /\ c \in locked)
    BY Tables DEF NothingExpiredRemains
  <2>1. PICK n \in 1..4 : t = Order[n]
    BY Tables
  <2> QED
    BY <2>1 DEF CaughtInv, Caught
<1> QED
  BY <1>1, <1>2, CaughtNext, PTL DEF Spec

-----------------------------------------------------------------------------
(* The audit trail *)

\* Retention goes on as before under migrations and audits.
THEOREM TrailRefinesRetention == TrailSpec => Spec
<1>1. TrailInit => Init
  BY DEF TrailInit
<1>2. [TrailNext]_<<vars, window, schema, trail>> => [Next]_vars
  BY DEF TrailNext, Migrate, Audit, CommitAudited, Next
<1> QED
  BY <1>1, <1>2, PTL DEF TrailSpec, Spec

TrailTypeOK ==
    /\ versions \in SUBSET Version
    /\ runner \in [Runner -> [at : {"idle", "up", "down"}, read : SUBSET Version]]
    /\ \A r \in Runner : runner[r].at = "down" => runner[r].read # {}
    /\ jobs \in Nat
    /\ writer \in {"idle", "due", "insert", "append"}

TrailInv == TrailTypeOK /\ TrailIsKept

LEMMA LastOfVersions ==
  ASSUME NEW S \in SUBSET Version, S # {}
  PROVE  LastOf(S) \in S
<1>1. \E v \in S : \A u \in S : u <= v
  <2>1. CASE 4 \in S
    BY <2>1 DEF Version
  <2>2. CASE 4 \notin S /\ 3 \in S
    BY <2>2 DEF Version
  <2>3. CASE 4 \notin S /\ 3 \notin S
    <3>1. \A u \in S : u = 2
      BY <2>3 DEF Version
    <3>2. PICK u \in S : TRUE
      OBVIOUS
    <3> QED
      BY <3>1, <3>2
  <2> QED
    BY <2>1, <2>2, <2>3
<1> QED
  BY <1>1 DEF LastOf

LEMMA TrailInitial == TrailInit => TrailInv
  BY DEF TrailInit, TrailInv, TrailTypeOK, TrailIsKept, Idle, Version

LEMMA MigrateKeeps ==
  ASSUME TrailInv, Migrate, UNCHANGED window
  PROVE  TrailInv'
<1>t. TrailTypeOK /\ TrailIsKept
  BY DEF TrailInv
<1> USE DEF TrailTypeOK, Idle
<1>1. ASSUME NEW r \in Runner, NEW command \in {"up", "down"}, ReadApplied(r, command)
      PROVE  TrailInv'
  BY <1>1, <1>t DEF ReadApplied, trail, TrailInv, TrailIsKept
<1>2. ASSUME NEW r \in Runner, Abandon(r) PROVE TrailInv'
  BY <1>2, <1>t DEF Abandon, trail, TrailInv, TrailIsKept
<1>3. ASSUME NEW r \in Runner, Up(r) PROVE TrailInv'
  <2> DEFINE P == Version \ runner[r].read
  <2>1. /\ versions' = versions \union P
        /\ made' = made \union UNION {MadeBy(v) : v \in P}
        /\ UNCHANGED trail
    BY <1>3 DEF Up
  <2>2. "table" \in UNION {MadeBy(v) : v \in P} <=> 2 \in P
    BY DEF MadeBy, Version
  <2>3. TrailTypeOK'
    BY <1>3, <1>t, <2>1 DEF Up, trail
  <2>4. TrailIsKept'
    BY <1>t, <2>1, <2>2 DEF TrailIsKept, trail
  <2> QED
    BY <2>3, <2>4 DEF TrailInv
<1>4. ASSUME NEW r \in Runner, Down(r) PROVE TrailInv'
  <2> DEFINE v == LastOf(runner[r].read)
  <2>1. v \in Version
    BY <1>4, <1>t, LastOfVersions DEF Down
  <2>2. /\ versions' = versions \ {v}
        /\ made' = made \ (MadeBy(v) \union IF v = 2 THEN {"grants"} ELSE {})
        /\ rows' = IF v = 2 THEN {} ELSE rows
        /\ dropped' = IF v = 2 THEN dropped \union rows ELSE dropped
        /\ UNCHANGED <<jobs, writer, file, lost>>
    BY <1>4 DEF Down
  <2>3. TrailTypeOK'
    BY <1>4, <1>t, <2>2 DEF Down
  <2> HIDE DEF v
  <2>4. "table" \in MadeBy(v) <=> v = 2
    BY <2>1 DEF MadeBy, Version
  <2>5. TrailIsKept'
    BY <1>t, <2>2, <2>4 DEF TrailIsKept
  <2> QED
    BY <2>3, <2>5 DEF TrailInv
<1> QED
  BY <1>1, <1>2, <1>3, <1>4 DEF Migrate

LEMMA AuditKeeps ==
  ASSUME TrailInv, Audit, UNCHANGED <<window, schema>>
  PROVE  TrailInv'
<1>t. TrailTypeOK /\ TrailIsKept
  BY DEF TrailInv
<1>s. TrailTypeOK' <=> jobs' \in Nat /\ writer' \in {"idle", "due", "insert", "append"}
  BY <1>t DEF TrailTypeOK, schema
<1> SUFFICES /\ jobs' \in Nat /\ writer' \in {"idle", "due", "insert", "append"}
             /\ TrailIsKept'
  BY <1>s DEF TrailInv
<1> USE DEF TrailTypeOK, TrailIsKept, schema
<1>1. CASE CommitAudited
  BY <1>1, <1>t DEF CommitAudited
<1>2. CASE LookForTable
  BY <1>2, <1>t DEF LookForTable
<1>3. CASE TryInsert
  BY <1>3, <1>t DEF TryInsert
<1>4. CASE AppendLine
  BY <1>4, <1>t DEF AppendLine
<1>5. CASE LoseRecord
  BY <1>5, <1>t DEF LoseRecord
<1>6. CASE UNCHANGED trail
  BY <1>6, <1>t DEF trail
<1> QED
  BY <1>1, <1>2, <1>3, <1>4, <1>5, <1>6 DEF Audit

\* However many migrations and audits overlap, the table is there exactly when version 2 is
\* recorded, and the record of a finished audit is in the table or the file, unless the job
\* died on the way or the table was rolled back with it.
THEOREM TrailStays == TrailSpec => []TrailIsKept
<1>1. TrailInv /\ [TrailNext]_<<vars, window, schema, trail>> => TrailInv'
  <2> SUFFICES ASSUME TrailInv, [TrailNext]_<<vars, window, schema, trail>> PROVE TrailInv'
    OBVIOUS
  <2>1. CASE UNCHANGED <<schema, trail>>
    BY <2>1 DEF schema, trail, TrailInv, TrailTypeOK, TrailIsKept
  <2> QED
    BY <2>1, MigrateKeeps, AuditKeeps DEF TrailNext
<1>2. TrailInv => TrailIsKept
  BY DEF TrailInv
<1> QED
  BY <1>1, <1>2, TrailInitial, PTL DEF TrailSpec

=============================================================================
