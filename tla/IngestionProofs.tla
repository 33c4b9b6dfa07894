--------------------------- MODULE IngestionProofs ---------------------------
(***************************************************************************)
(* Proofs about Ingestion for any numbers of cameras, clips, windows, runs *)
(* and days, and any deletions and backfills, and about Segmenter and      *)
(* Sources for any clip, overlap, window and stride lengths, footage of    *)
(* any length and any recordings.                                          *)
(***************************************************************************)
EXTENDS Ingestion, Sources, FiniteSetTheorems, TLAPS

-----------------------------------------------------------------------------
(* What a run writes of a clip *)

Op == [op : {"file", "segLine", "winLine", "job"}, win : 0..WindowsPerClip]
N == 2 + 2 * WindowsPerClip

LEMMA WritesShape ==
  /\ Writes \in Seq(Op)
  /\ Len(Writes) = N
  /\ Writes[1].op = "file"
  /\ Writes[2].op = "segLine"
  /\ \A i \in 1..N : /\ Writes[i].op = "file" => i = 1
                     /\ Writes[i].op = "segLine" => i = 2
                     /\ Writes[i].op = "winLine" =>
                          Writes[i].win \in 1..WindowsPerClip /\ i = 2 * Writes[i].win + 1
                     /\ Writes[i].op = "job" =>
                          Writes[i].win \in 1..WindowsPerClip /\ i = 2 * Writes[i].win + 2
<1> DEFINE f == [op |-> "file", win |-> 0]
           g == [op |-> "segLine", win |-> 0]
           W(i) == [op |-> IF i % 2 = 1 THEN "winLine" ELSE "job", win |-> (i + 1) \div 2]
           t == [i \in 1..(2 * WindowsPerClip) |-> W(i)]
<1>0. WindowsPerClip \in Nat /\ 2 * WindowsPerClip \in Nat
  BY BoundAssumption
<1>1. \A i \in 1..(2 * WindowsPerClip) :
         /\ W(i) \in Op
         /\ W(i).op \in {"winLine", "job"}
         /\ W(i).win \in 1..WindowsPerClip
         /\ W(i).op = "winLine" => i + 2 = 2 * W(i).win + 1
         /\ W(i).op = "job" => i + 2 = 2 * W(i).win + 2
  <2> SUFFICES ASSUME NEW i \in 1..(2 * WindowsPerClip)
               PROVE  /\ W(i) \in Op
                      /\ W(i).op \in {"winLine", "job"}
                      /\ W(i).win \in 1..WindowsPerClip
                      /\ W(i).op = "winLine" => i + 2 = 2 * W(i).win + 1
                      /\ W(i).op = "job" => i + 2 = 2 * W(i).win + 2
    OBVIOUS
  <2> DEFINE q == (i + 1) \div 2
  <2>1. i \in Nat /\ i % 2 \in {0, 1} /\ i = 2 * (i \div 2) + (i % 2) /\ i \div 2 \in Nat
    OBVIOUS
  <2>2. /\ i % 2 = 1 => q = i \div 2 + 1
        /\ i % 2 = 0 => q = i \div 2
    BY <2>1
  <2>3. q \in 1..WindowsPerClip
    BY <1>0, <2>1, <2>2
  <2>4. W(i).op = (IF i % 2 = 1 THEN "winLine" ELSE "job") /\ W(i).win = q
    OBVIOUS
  <2>5. W(i) \in Op
    BY <2>3, <1>0 DEF Op
  <2> HIDE DEF q, W
  <2> QED
    BY <2>1, <2>2, <2>3, <2>4, <2>5
<1>2. <<f, g>> \in Seq(Op) /\ Len(<<f, g>>) = 2 /\ <<f, g>>[1] = f /\ <<f, g>>[2] = g
  <2>1. f \in Op /\ g \in Op
    BY <1>0 DEF Op
  <2> HIDE DEF f, g
  <2> QED
    BY <2>1
<1>3. t \in Seq(Op) /\ Len(t) = 2 * WindowsPerClip /\ \A i \in 1..(2 * WindowsPerClip) : t[i] = W(i)
  <2>1. \A i \in 1..(2 * WindowsPerClip) : W(i) \in Op
    BY <1>1
  <2> HIDE DEF W
  <2> QED
    BY <1>0, <2>1
<1>4. Writes = <<f, g>> \o t
  BY DEF Writes
<1>5. f.op = "file" /\ g.op = "segLine"
  OBVIOUS
<1> HIDE DEF f, g, t, W
<1>6. /\ Writes \in Seq(Op) /\ Len(Writes) = N
      /\ Writes[1] = f /\ Writes[2] = g
      /\ \A i \in 1..(2 * WindowsPerClip) : Writes[i + 2] = W(i)
  BY <1>0, <1>2, <1>3, <1>4 DEF N
<1>7. \A i \in 1..N : i = 1 \/ i = 2 \/ (i - 2 \in 1..(2 * WindowsPerClip) /\ (i - 2) + 2 = i)
  BY <1>0 DEF N
<1> SUFFICES ASSUME NEW i \in 1..N
             PROVE  /\ Writes[i].op = "file" => i = 1
                    /\ Writes[i].op = "segLine" => i = 2
                    /\ Writes[i].op = "winLine" =>
                          Writes[i].win \in 1..WindowsPerClip /\ i = 2 * Writes[i].win + 1
                    /\ Writes[i].op = "job" =>
                          Writes[i].win \in 1..WindowsPerClip /\ i = 2 * Writes[i].win + 2
  BY <1>5, <1>6
<1>8. CASE i = 1 \/ i = 2
  BY <1>5, <1>6, <1>8
<1>9. CASE i - 2 \in 1..(2 * WindowsPerClip)
  <2>1. Writes[i] = W(i - 2) /\ (i - 2) + 2 = i
    BY <1>6, <1>9
  <2> QED
    BY <1>1, <1>9, <2>1
<1> QED
  BY <1>7, <1>8, <1>9

-----------------------------------------------------------------------------
(* Runs, paths and the list of writes *)

RunType == [day : 0..MaxDay, before : 1..ClipsPerCamera]

TypeInv ==
    /\ day \in 0..MaxDay
    /\ runs \in Seq(RunType) /\ Len(runs) <= MaxRuns
    /\ at \in (0..Cameras) \X (0..ClipsPerCamera)
    /\ Running => Len(runs) > 0 /\ at[1] > 0
    /\ todo \in Seq(Op)
    /\ todo # <<>> => Running /\ at[2] > 0
    /\ aborted \in Nat
    /\ files \in [Path -> Segment \union {Nothing}]
    /\ segLines \subseteq Segment

LEMMA TypeInit == Init => TypeInv
  BY BoundAssumption DEF Init, TypeInv, Running

LEMMA CurrentType ==
  ASSUME TypeInv, todo # <<>>
  PROVE  Current \in Segment /\ Current[1] = Len(runs)
  BY BoundAssumption DEF TypeInv, Current, Segment, Run

LEMMA PathType ==
  ASSUME TypeInv, NEW s \in Segment, s[1] <= Len(runs)
  PROVE  PathOf(s) \in Path /\ DateOf(s) \in Nat /\ s[1] \in 1..Len(runs)
<1>1. s[1] \in 1..Len(runs) /\ s[2] \in 1..Cameras /\ s[3] \in 1..ClipsPerCamera
  BY BoundAssumption DEF TypeInv, Segment, Run
<1>2. runs[s[1]] \in RunType
  BY <1>1 DEF TypeInv
<1>3. runs[s[1]].day \in 0..MaxDay
  BY <1>2 DEF RunType
<1>4. DateOf(s) = runs[s[1]].day \/ DateOf(s) = runs[s[1]].day + 1
  BY <1>3 DEF DateOf
<1>5. DateOf(s) \in 0..(MaxDay + 1)
  BY <1>3, <1>4, BoundAssumption
<1>6. DateOf(s) \in Nat
  BY <1>5
<1>7. PathOf(s) \in Path
  BY <1>1, <1>5 DEF PathOf, Path
<1> QED
  BY <1>1, <1>6, <1>7

\* A new run leaves the dates of the runs before it alone.
LEMMA DatesStay ==
  ASSUME TypeInv, StartRun, NEW s, s[1] \in 1..Len(runs)
  PROVE  DateOf(s)' = DateOf(s) /\ PathOf(s)' = PathOf(s)
<1>1. PICK n \in 1..ClipsPerCamera : runs' = Append(runs, [day |-> day, before |-> n])
  BY DEF StartRun
<1>2. [day |-> day, before |-> n] \in RunType
  BY DEF TypeInv, RunType
<1>3. runs'[s[1]] = runs[s[1]]
  <2> DEFINE x == [day |-> day, before |-> n]
  <2> HIDE DEF x
  <2> QED
    BY <1>1, <1>2 DEF TypeInv, x
<1> QED
  BY <1>3 DEF DateOf, PathOf

LEMMA TypeNext == TypeInv /\ [Next]_vars => TypeInv'
<1> SUFFICES ASSUME TypeInv, [Next]_vars PROVE TypeInv'
  OBVIOUS
<1> USE DEF output
<1>1. CASE Midnight
  BY <1>1, BoundAssumption DEF Midnight, TypeInv, Running
<1>2. CASE StartRun
  <2>1. PICK n \in 1..ClipsPerCamera : runs' = Append(runs, [day |-> day, before |-> n])
    BY <1>2 DEF StartRun
  <2>2. [day |-> day, before |-> n] \in RunType
    BY DEF TypeInv, RunType
  <2>3. runs' \in Seq(RunType) /\ Len(runs') = Len(runs) + 1 /\ Len(runs') <= MaxRuns
    <3> DEFINE x == [day |-> day, before |-> n]
    <3>1. x \in RunType /\ runs' = Append(runs, x)
      BY <2>1, <2>2
    <3> HIDE DEF x
    <3> QED
      BY <1>2, <3>1, BoundAssumption DEF TypeInv, StartRun
  <2> QED
    BY <1>2, <2>3, BoundAssumption DEF StartRun, TypeInv, Running
<1>3. CASE NextClip
  <2>1. Writes \in Seq(Op)
    BY WritesShape
  <2>2. at' \in (0..Cameras) \X (0..ClipsPerCamera) /\ at'[1] = at[1] /\ at'[2] > 0
    BY <1>3, BoundAssumption DEF NextClip, TypeInv
  <2>3. at' # <<0, 0>>
    BY <2>2
  <2> QED
    BY <1>3, <2>1, <2>2, <2>3 DEF NextClip, TypeInv, Running
<1>4. CASE NextCamera
  BY <1>4, BoundAssumption DEF NextCamera, TypeInv, Running
<1>5. CASE PutClip
  <2>1. Current \in Segment
    BY <1>5, CurrentType DEF PutClip, Doing
  <2>2. todo' \in Seq(Op)
    BY <1>5 DEF PutClip, Doing, TypeInv
  <2>3. files' \in [Path -> Segment \union {Nothing}]
    BY <1>5, <2>1 DEF PutClip, TypeInv
  <2> QED
    BY <1>5, <2>2, <2>3 DEF PutClip, Doing, TypeInv, Running
<1>6. CASE WriteSegment
  <2>1. Current \in Segment
    BY <1>6, CurrentType DEF WriteSegment, Doing
  <2>2. todo' \in Seq(Op)
    BY <1>6 DEF WriteSegment, Doing, TypeInv
  <2> QED
    BY <1>6, <2>1, <2>2 DEF WriteSegment, Doing, TypeInv, Running
<1>7. CASE WriteWindow \/ PublishWindow
  <2>1. /\ todo # <<>> /\ todo' = Tail(todo)
        /\ UNCHANGED <<day, runs, at, aborted, files, segLines>>
    BY <1>7 DEF WriteWindow, PublishWindow, Doing
  <2>2. todo' \in Seq(Op)
    BY <2>1 DEF TypeInv
  <2> QED
    BY <2>1, <2>2 DEF TypeInv, Running
<1>8. CASE Abort
  <2>1. aborted' \in Nat /\ <<0, 0>> \in (0..Cameras) \X (0..ClipsPerCamera)
    BY <1>8, BoundAssumption DEF Abort, TypeInv
  <2> QED
    BY <1>8, <2>1 DEF Abort, TypeInv, Running
<1>9. CASE UNCHANGED <<run, files, segLines>>
  BY <1>9 DEF run, TypeInv, Running
<1> QED
  BY <1>1, <1>2, <1>3, <1>4, <1>5, <1>6, <1>7, <1>8, <1>9
     DEF Next, Detect, ReadSegments, ReadWindows, Insert, Delete, DeleteWindow, vars, run

-----------------------------------------------------------------------------
(* What is behind the lines and the messages *)

\* The first k writes of the current clip are done and the others are to come.
AtWrite(k) == Len(todo) = N - k /\ \A i \in 1..(N - k) : todo[i] = Writes[k + i]

Done(k) ==
    /\ k >= 1 => files[PathOf(Current)] = Current
    /\ k >= 2 => Current \in segLines
    /\ \A n \in 1..WindowsPerClip :
          /\ k >= 2 * n + 1 => <<Current, n>> \in winLines
          /\ k >= 2 * n + 2 => <<Current, n>> \in jobs \union taken

\* The file at a recorded segment's path is of its run or of a later one with that path.
Holder(s) ==
    LET f == files[PathOf(s)] IN
    f \in Segment /\ f[1] <= Len(runs) /\ s[1] <= f[1] /\ PathOf(f) = PathOf(s)

OutputInv ==
    /\ TypeInv
    /\ \A s \in segLines : s[1] \in 1..Len(runs) /\ Holder(s)
    /\ \A w \in winLines : w[1] \in segLines
    /\ jobs \union taken \subseteq winLines
    /\ todo # <<>> => \E k \in 0..(N - 1) : AtWrite(k) /\ Done(k)

LEMMA Bounds == N \in Nat /\ N >= 2 /\ WindowsPerClip \in Nat
  BY BoundAssumption DEF N

\* One write is taken off the list: it is the next one, and what follows shifts.
LEMMA OneWrite ==
  ASSUME TypeInv, NEW k \in 0..(N - 1), AtWrite(k), NEW op, Doing(op)
  PROVE  /\ Head(todo) = Writes[k + 1] /\ Writes[k + 1].op = op
         /\ k + 1 \in 1..N
         /\ todo' # <<>> => k + 1 \in 0..(N - 1) /\ AtWrite(k + 1)'
         /\ todo' = <<>> => k + 1 = N
<1>1. todo \in Seq(Op) /\ todo # <<>> /\ Head(todo).op = op /\ todo' = Tail(todo)
  BY DEF Doing, TypeInv
<1>2. /\ Len(todo) = N - k /\ N \in Nat /\ k \in Nat /\ N - k >= 1
      /\ \A i \in 1..(N - k) : todo[i] = Writes[k + i]
  BY Bounds DEF AtWrite
<1>3. Head(todo) = todo[1]
  BY <1>1
<1>4. todo[1] = Writes[k + 1]
  BY <1>2
<1>5. Len(todo') = N - (k + 1) /\ \A i \in 1..(N - (k + 1)) : todo'[i] = todo[i + 1]
  BY <1>1, <1>2
<1>6. \A i \in 1..(N - (k + 1)) : todo'[i] = Writes[(k + 1) + i]
  <2> SUFFICES ASSUME NEW i \in 1..(N - (k + 1)) PROVE todo'[i] = Writes[(k + 1) + i]
    OBVIOUS
  <2>1. i + 1 \in 1..(N - k) /\ k + (i + 1) = (k + 1) + i
    BY <1>2
  <2> QED
    BY <1>2, <1>5, <2>1
<1>7. AtWrite(k + 1)'
  BY <1>5, <1>6 DEF AtWrite
<1>8. todo' # <<>> => Len(todo') > 0
  BY <1>1
<1>9. todo' = <<>> => Len(todo') = 0
  OBVIOUS
<1> QED
  BY <1>1, <1>2, <1>3, <1>4, <1>5, <1>7, <1>8, <1>9

LEMMA HolderStays ==
  ASSUME UNCHANGED <<runs, files>>, NEW s, Holder(s)
  PROVE  Holder(s)'
<1>1. \A x : DateOf(x)' = DateOf(x)
  BY DEF DateOf
<1>2. \A x : PathOf(x)' = PathOf(x)
  BY <1>1 DEF PathOf
<1> QED
  BY <1>2 DEF Holder

LEMMA OutputInit == Init => OutputInv
<1> SUFFICES ASSUME Init PROVE OutputInv
  OBVIOUS
<1> QED
  BY TypeInit DEF Init, OutputInv

LEMMA OutputNext == OutputInv /\ [Next]_vars => OutputInv'
<1> SUFFICES ASSUME OutputInv, [Next]_vars PROVE OutputInv'
  OBVIOUS
<1>0. /\ TypeInv
      /\ \A s \in segLines : s[1] \in 1..Len(runs) /\ Holder(s)
      /\ \A w \in winLines : w[1] \in segLines
      /\ jobs \union taken \subseteq winLines
      /\ todo # <<>> => \E k \in 0..(N - 1) : AtWrite(k) /\ Done(k)
  BY DEF OutputInv
<1>t. TypeInv'
  BY <1>0, TypeNext
<1>1. CASE UNCHANGED <<runs, at, todo, files, segLines, winLines>>
           /\ jobs' \union taken' = jobs \union taken
  <2>1. \A s : PathOf(s)' = PathOf(s)
    BY <1>1 DEF PathOf, DateOf
  <2>2. \A s \in segLines : Holder(s)'
    BY <1>0, <1>1, <2>1 DEF Holder
  <2>3. \A k : (AtWrite(k) => AtWrite(k)') /\ (Done(k) => Done(k)')
    BY <1>1, <2>1 DEF AtWrite, Done, Current
  <2> QED
    BY <1>0, <1>t, <1>1, <2>2, <2>3 DEF OutputInv
<1>2. CASE StartRun
  <2>1. \A s : s[1] \in 1..Len(runs) => PathOf(s)' = PathOf(s)
    BY <1>0, <1>2, DatesStay
  <2>2. /\ UNCHANGED <<todo, files, segLines, winLines, jobs, taken>>
        /\ todo = <<>>
    BY <1>0, <1>2 DEF StartRun, TypeInv, output
  <2>3. Len(runs) \in Nat /\ Len(runs') \in Nat /\ Len(runs) <= Len(runs')
    <3>1. PICK n \in 1..ClipsPerCamera : runs' = Append(runs, [day |-> day, before |-> n])
      BY <1>2 DEF StartRun
    <3> DEFINE x == [day |-> day, before |-> n]
    <3>2. x \in RunType /\ runs' = Append(runs, x)
      BY <1>0, <3>1 DEF TypeInv, RunType
    <3> HIDE DEF x
    <3> QED
      BY <1>0, <3>2 DEF TypeInv
  <2>4. ASSUME NEW s \in segLines PROVE s[1] \in 1..Len(runs') /\ Holder(s)'
    <3>0. PICK f : f = files[PathOf(s)]
      OBVIOUS
    <3>1. /\ s[1] \in 1..Len(runs) /\ f \in Segment /\ f[1] <= Len(runs) /\ s[1] <= f[1]
          /\ PathOf(f) = PathOf(s)
      BY <1>0, <3>0 DEF Holder
    <3>2. f[1] \in 1..Len(runs)
      BY <1>0, <3>1, PathType
    <3>3. PathOf(f)' = PathOf(f) /\ PathOf(s)' = PathOf(s)
      BY <2>1, <3>1, <3>2
    <3>4. files'[PathOf(s)'] = f
      BY <2>2, <3>0, <3>3
    <3>5. PathOf(f)' = PathOf(s)' /\ f[1] <= Len(runs') /\ s[1] \in 1..Len(runs')
      BY <2>3, <3>1, <3>2, <3>3
    <3>6. Holder(s)'
      BY <3>1, <3>4, <3>5 DEF Holder, PathOf, DateOf
    <3> QED
      BY <3>5, <3>6
  <2> QED
    BY <1>0, <1>t, <2>2, <2>4 DEF OutputInv
<1>3. CASE NextClip
  <2>1. UNCHANGED <<runs, files, segLines, winLines, jobs, taken>> /\ todo' = Writes
    BY <1>3 DEF NextClip, output
  <2>2. \A s \in segLines : Holder(s)'
    BY <1>0, <2>1, HolderStays
  <2>3. AtWrite(0)'
    BY <2>1, WritesShape, Bounds DEF AtWrite
  <2>4. Done(0)'
    BY Bounds DEF Done
  <2>5. 0 \in 0..(N - 1)
    BY Bounds
  <2>6. \E k \in 0..(N - 1) : AtWrite(k)' /\ Done(k)'
    BY <2>3, <2>4, <2>5
  <2> QED
    BY <1>0, <1>t, <2>1, <2>2, <2>6 DEF OutputInv
<1>4. CASE NextCamera \/ Abort
  <2>1. UNCHANGED <<runs, files, segLines, winLines, jobs, taken>> /\ todo' = <<>>
    BY <1>4 DEF NextCamera, Abort, output
  <2>2. \A s \in segLines : Holder(s)'
    BY <1>0, <2>1, HolderStays
  <2> QED
    BY <1>0, <1>t, <2>1, <2>2 DEF OutputInv
<1>5. CASE PutClip
  <2>1. /\ Doing("file") /\ todo # <<>>
        /\ files' = [files EXCEPT ![PathOf(Current)] = Current]
        /\ UNCHANGED <<runs, at, segLines, winLines, jobs, taken>>
    BY <1>5 DEF PutClip, Doing
  <2>2. PICK k \in 0..(N - 1) : AtWrite(k) /\ Done(k)
    BY <1>0, <2>1
  <2>3. k = 0 /\ (todo' # <<>> => 1 \in 0..(N - 1) /\ AtWrite(1)')
    <3>1. /\ Writes[k + 1].op = "file" /\ k + 1 \in 1..N
          /\ todo' # <<>> => k + 1 \in 0..(N - 1) /\ AtWrite(k + 1)'
      BY <1>0, <2>1, <2>2, OneWrite
    <3>2. k = 0
      BY <3>1, WritesShape
    <3> QED
      BY <3>1, <3>2
  <2>4. Current \in Segment /\ Current[1] = Len(runs) /\ Len(runs) \in Nat
    BY <1>0, <2>1, CurrentType DEF TypeInv
  <2>5. PathOf(Current) \in Path
    BY <1>0, <2>4, PathType
  <2>6. \A s : PathOf(s)' = PathOf(s) /\ Current' = Current
    BY <2>1 DEF PathOf, DateOf, Current
  <2>7. files'[PathOf(Current)] = Current
    BY <1>0, <2>1, <2>5 DEF TypeInv
  <2>8. ASSUME NEW s \in segLines PROVE Holder(s)'
    <3>1. CASE PathOf(s) = PathOf(Current)
      <4>1. s[1] \in 1..Len(runs)
        BY <1>0
      <4>2. files'[PathOf(s)'] = Current
        BY <2>6, <2>7, <3>1
      <4> QED
        BY <2>1, <2>4, <2>6, <3>1, <4>1, <4>2 DEF Holder
    <3>2. CASE PathOf(s) # PathOf(Current)
      <4>1. files'[PathOf(s)'] = files[PathOf(s)]
        BY <1>0, <2>1, <2>6, <3>2 DEF TypeInv
      <4> QED
        BY <1>0, <2>1, <2>6, <4>1 DEF Holder
    <3> QED
      BY <3>1, <3>2
  <2>9. Done(1)'
    <3>1. files'[PathOf(Current)'] = Current'
      BY <2>6, <2>7
    <3> QED
      BY <3>1, Bounds DEF Done
  <2>10. todo' # <<>> => \E j \in 0..(N - 1) : AtWrite(j)' /\ Done(j)'
    BY <2>3, <2>9
  <2> QED
    BY <1>0, <1>t, <2>1, <2>8, <2>10 DEF OutputInv
<1>6. CASE WriteSegment
  <2>1. /\ Doing("segLine") /\ todo # <<>>
        /\ segLines' = segLines \union {Current}
        /\ UNCHANGED <<runs, at, files, winLines, jobs, taken>>
    BY <1>6 DEF WriteSegment, Doing
  <2>2. PICK k \in 0..(N - 1) : AtWrite(k) /\ Done(k)
    BY <1>0, <2>1
  <2>3. k = 1 /\ (todo' # <<>> => 2 \in 0..(N - 1) /\ AtWrite(2)')
    <3>1. /\ Writes[k + 1].op = "segLine" /\ k + 1 \in 1..N
          /\ todo' # <<>> => k + 1 \in 0..(N - 1) /\ AtWrite(k + 1)'
      BY <1>0, <2>1, <2>2, OneWrite
    <3>2. k = 1
      BY <3>1, WritesShape
    <3> QED
      BY <3>1, <3>2
  <2>4. Current \in Segment /\ Current[1] = Len(runs) /\ Len(runs) \in Nat
    BY <1>0, <2>1, CurrentType DEF TypeInv
  <2>5. files[PathOf(Current)] = Current
    BY <2>2, <2>3 DEF Done
  <2>6. \A s : PathOf(s)' = PathOf(s) /\ Current' = Current
    BY <2>1 DEF PathOf, DateOf, Current
  <2>7. Holder(Current)' /\ Current[1] \in 1..Len(runs)
    <3>1. Current[1] \in 1..Len(runs)
      BY <1>0, <2>4, PathType
    <3>2. files'[PathOf(Current)'] = Current /\ PathOf(Current)' = PathOf(Current)
      BY <2>1, <2>5, <2>6
    <3> QED
      BY <2>1, <2>4, <2>6, <3>1, <3>2 DEF Holder
  <2>8. \A s \in segLines : Holder(s)'
    BY <1>0, <2>1, <2>6 DEF Holder
  <2>9. \A s \in segLines' : s[1] \in 1..Len(runs') /\ Holder(s)'
    <3> SUFFICES ASSUME NEW s \in segLines' PROVE s[1] \in 1..Len(runs') /\ Holder(s)'
      OBVIOUS
    <3>1. CASE s \in segLines
      BY <1>0, <2>1, <2>8, <3>1
    <3>2. CASE s = Current
      BY <2>1, <2>6, <2>7, <3>2
    <3> QED
      BY <2>1, <3>1, <3>2
  <2>10. Done(2)'
    <3>1. files'[PathOf(Current)'] = Current' /\ Current' \in segLines'
      BY <2>1, <2>5, <2>6
    <3> QED
      BY <3>1, Bounds DEF Done
  <2>11. todo' # <<>> => \E j \in 0..(N - 1) : AtWrite(j)' /\ Done(j)'
    BY <2>3, <2>10
  <2> QED
    BY <1>0, <1>t, <2>1, <2>9, <2>11 DEF OutputInv
<1> DEFINE n == Head(todo).win
<1>7. CASE WriteWindow
  <2>1. /\ Doing("winLine") /\ todo # <<>>
        /\ winLines' = winLines \union {<<Current, n>>}
        /\ UNCHANGED <<runs, at, files, segLines, jobs, taken>>
    BY <1>7 DEF WriteWindow, Doing, CurrentWindow
  <2>2. PICK k \in 0..(N - 1) : AtWrite(k) /\ Done(k)
    BY <1>0, <2>1
  <2>3. /\ n \in 1..WindowsPerClip /\ k = 2 * n
        /\ todo' # <<>> => k + 1 \in 0..(N - 1) /\ AtWrite(k + 1)'
    <3>1. /\ Writes[k + 1].op = "winLine" /\ k + 1 \in 1..N /\ Writes[k + 1].win = n
          /\ todo' # <<>> => k + 1 \in 0..(N - 1) /\ AtWrite(k + 1)'
      BY <1>0, <2>1, <2>2, OneWrite
    <3>2. n \in 1..WindowsPerClip /\ k + 1 = 2 * n + 1
      BY <3>1, WritesShape
    <3> QED
      BY <3>1, <3>2, Bounds
  <2> HIDE DEF n
  <2>4. \A s : PathOf(s)' = PathOf(s) /\ Current' = Current
    BY <2>1 DEF PathOf, DateOf, Current
  <2>5. Current \in segLines /\ files[PathOf(Current)] = Current
    BY <2>2, <2>3, Bounds DEF Done
  <2>6. Done(k + 1)'
    <3>1. files'[PathOf(Current)'] = Current' /\ Current' \in segLines'
      BY <2>1, <2>4, <2>5
    <3>2. ASSUME NEW m \in 1..WindowsPerClip
          PROVE  /\ k + 1 >= 2 * m + 1 => <<Current, m>> \in winLines'
                 /\ k + 1 >= 2 * m + 2 => <<Current, m>> \in jobs' \union taken'
      <4>1. /\ k >= 2 * m + 1 => <<Current, m>> \in winLines
            /\ k >= 2 * m + 2 => <<Current, m>> \in jobs \union taken
        BY <2>2 DEF Done
      <4>2. CASE m = n
        BY <2>1, <2>3, <4>2, Bounds
      <4>3. CASE m < n
        BY <2>1, <2>3, <4>1, <4>3, Bounds
      <4>4. CASE m > n
        BY <2>3, <4>4, Bounds
      <4> QED
        BY <2>3, <4>2, <4>3, <4>4
    <3> QED
      BY <2>4, <3>1, <3>2 DEF Done
  <2>7. todo' # <<>> => \E j \in 0..(N - 1) : AtWrite(j)' /\ Done(j)'
    BY <2>3, <2>6
  <2>8. \A s \in segLines : Holder(s)'
    BY <1>0, <2>1, <2>4 DEF Holder
  <2>9. \A w \in winLines' : w[1] \in segLines'
    BY <1>0, <2>1, <2>5
  <2> QED
    BY <1>0, <1>t, <2>1, <2>7, <2>8, <2>9 DEF OutputInv
<1>8. CASE PublishWindow
  <2>1. /\ Doing("job") /\ todo # <<>>
        /\ jobs' = jobs \union {<<Current, n>>}
        /\ UNCHANGED <<runs, at, files, segLines, winLines, taken>>
    BY <1>8 DEF PublishWindow, Doing, CurrentWindow, output
  <2>2. PICK k \in 0..(N - 1) : AtWrite(k) /\ Done(k)
    BY <1>0, <2>1
  <2>3. /\ n \in 1..WindowsPerClip /\ k = 2 * n + 1
        /\ todo' # <<>> => k + 1 \in 0..(N - 1) /\ AtWrite(k + 1)'
    <3>1. /\ Writes[k + 1].op = "job" /\ k + 1 \in 1..N /\ Writes[k + 1].win = n
          /\ todo' # <<>> => k + 1 \in 0..(N - 1) /\ AtWrite(k + 1)'
      BY <1>0, <2>1, <2>2, OneWrite
    <3>2. n \in 1..WindowsPerClip /\ k + 1 = 2 * n + 2
      BY <3>1, WritesShape
    <3> QED
      BY <3>1, <3>2, Bounds
  <2> HIDE DEF n
  <2>4. \A s : PathOf(s)' = PathOf(s) /\ Current' = Current
    BY <2>1 DEF PathOf, DateOf, Current
  <2>5. /\ Current \in segLines /\ files[PathOf(Current)] = Current
        /\ <<Current, n>> \in winLines
    BY <2>2, <2>3, Bounds DEF Done
  <2>6. Done(k + 1)'
    <3>1. files'[PathOf(Current)'] = Current' /\ Current' \in segLines'
      BY <2>1, <2>4, <2>5
    <3>2. ASSUME NEW m \in 1..WindowsPerClip
          PROVE  /\ k + 1 >= 2 * m + 1 => <<Current, m>> \in winLines'
                 /\ k + 1 >= 2 * m + 2 => <<Current, m>> \in jobs' \union taken'
      <4>1. /\ k >= 2 * m + 1 => <<Current, m>> \in winLines
            /\ k >= 2 * m + 2 => <<Current, m>> \in jobs \union taken
        BY <2>2 DEF Done
      <4>2. CASE m = n
        BY <2>1, <2>3, <2>5, <4>2, Bounds
      <4>3. CASE m < n
        BY <2>1, <2>3, <4>1, <4>3, Bounds
      <4>4. CASE m > n
        BY <2>3, <4>4, Bounds
      <4> QED
        BY <2>3, <4>2, <4>3, <4>4
    <3> QED
      BY <2>4, <3>1, <3>2 DEF Done
  <2>7. todo' # <<>> => \E j \in 0..(N - 1) : AtWrite(j)' /\ Done(j)'
    BY <2>3, <2>6
  <2>8. \A s \in segLines : Holder(s)'
    BY <1>0, <2>1, <2>4 DEF Holder
  <2> QED
    BY <1>0, <1>t, <2>1, <2>5, <2>7, <2>8 DEF OutputInv
<1> QED
  BY <1>1, <1>2, <1>3, <1>4, <1>5, <1>6, <1>7, <1>8
     DEF Next, Midnight, Detect, ReadSegments, ReadWindows, Insert, Delete, DeleteWindow, vars,
         run, output

\* Whatever dies, a window message names a recorded window of a recorded segment, and there is
\* a clip at the segment's path.
THEOREM JobsBacked == Spec => []JobsAreBacked
<1>1. OutputInv => JobsAreBacked
  BY NothingAssumption DEF OutputInv, JobsAreBacked, Holder
<1> QED
  BY <1>1, OutputInit, OutputNext, PTL DEF Spec

\* The checksum of a segment's line is that of the file at its path, until a later run has a
\* clip with that path.
THEOREM ChecksumsLast == Spec => []ChecksumOfLastRun
<1>1. OutputInv => ChecksumOfLastRun
  <2> SUFFICES ASSUME OutputInv, NEW s \in segLines,
                      \A r \in (s[1] + 1)..Len(runs) : DateOf(<<r, s[2], s[3]>>) # DateOf(s)
               PROVE  files[PathOf(s)] = s
    BY DEF ChecksumOfLastRun
  <2> DEFINE f == files[PathOf(s)]
  <2>1. /\ TypeInv /\ s \in Segment /\ s[1] \in 1..Len(runs)
        /\ f \in Segment /\ f[1] <= Len(runs) /\ s[1] <= f[1] /\ PathOf(f) = PathOf(s)
    BY DEF OutputInv, TypeInv, Holder
  <2> HIDE DEF f
  <2>2. f[2] = s[2] /\ f[3] = s[3] /\ DateOf(f) = DateOf(s)
    BY <2>1 DEF PathOf
  <2>3. f = <<f[1], s[2], s[3]>> /\ s = <<s[1], s[2], s[3]>>
    BY <2>1, <2>2 DEF Segment
  <2>4. f[1] \notin (s[1] + 1)..Len(runs)
    <3>1. <<f[1], s[2], s[3]>> = f
      BY <2>3, Zenon
    <3>2. DateOf(<<f[1], s[2], s[3]>>) = DateOf(s)
      BY <2>2, <3>1, Zenon
    <3> QED
      BY <3>2, Zenon
  <2>5. f[1] = s[1]
    <3>1. f[1] \in Nat
      BY <2>1, BoundAssumption DEF Segment, Run
    <3>2. Len(runs) \in Nat
      BY <2>1 DEF TypeInv
    <3> QED
      BY <2>1, <2>4, <3>1, <3>2
  <2> QED
    BY <2>3, <2>5 DEF f
<1> QED
  BY <1>1, OutputInit, OutputNext, PTL DEF Spec

-----------------------------------------------------------------------------
(* Backfills *)

\* What a backfill has read, and what is in the database, is in the files.
CopyInv ==
    /\ copy.segs \subseteq segLines /\ copy.wins \subseteq winLines
    /\ segRows \subseteq segLines /\ winRows \subseteq winLines
    /\ \A w \in winLines : w[1] \in segLines
    /\ \E a, S, W : copy \in [at : {a}, segs : {S}, wins : {W}]

LEMMA CopyInit == Init => CopyInv
<1>1. NoCopy \in [at : {"idle"}, segs : {{}}, wins : {{}}]
  BY DEF NoCopy
<1>2. NoCopy.segs = {} /\ NoCopy.wins = {}
  BY DEF NoCopy
<1> QED
  BY <1>1, <1>2 DEF Init, CopyInv

LEMMA CopyNext == OutputInv /\ CopyInv /\ [Next]_vars => CopyInv'
<1> SUFFICES ASSUME OutputInv, CopyInv, [Next]_vars PROVE CopyInv'
  OBVIOUS
<1>0. \A w \in winLines' : w[1] \in segLines'
  BY OutputNext DEF OutputInv
<1>1. segLines \subseteq segLines' /\ winLines \subseteq winLines'
  BY DEF Next, vars, Midnight, StartRun, NextClip, NextCamera, PutClip, WriteSegment, WriteWindow,
     PublishWindow, Abort, Detect, ReadSegments, ReadWindows, Insert, Delete, DeleteWindow, output
<1>2. CASE UNCHANGED copy /\ segRows' \subseteq segRows /\ winRows' \subseteq winRows
  BY <1>0, <1>1, <1>2 DEF CopyInv
<1>3. CASE ReadSegments
  BY <1>0, <1>1, <1>3 DEF ReadSegments, CopyInv, database, output
<1>4. CASE ReadWindows
  <2>1. PICK a, S, W : copy \in [at : {a}, segs : {S}, wins : {W}]
    BY DEF CopyInv
  <2>2. copy' \in [at : {"windows"}, segs : {S}, wins : {winLines}]
    BY <1>4, <2>1 DEF ReadWindows
  <2>3. copy'.segs = copy.segs /\ copy'.wins = winLines
    BY <2>1, <2>2
  <2> QED
    BY <1>0, <1>1, <1>4, <2>2, <2>3 DEF ReadWindows, CopyInv, database
<1>5. CASE Insert
  BY <1>0, <1>1, <1>5 DEF Insert, CopyInv, NoCopy, output
<1> QED
  BY <1>2, <1>3, <1>4, <1>5
     DEF Next, vars, Midnight, StartRun, NextClip, NextCamera, PutClip, WriteSegment, WriteWindow,
         PublishWindow, Abort, Detect, Delete, DeleteWindow, database, backfill

\* A backfill that read both files as they are leaves the database with exactly what they hold.
THEOREM MirrorsFiles == Spec => BackfillMirrors
<1>1. CopyInv /\ [Next]_vars =>
        [Insert /\ copy.segs = segLines /\ copy.wins = winLines
            => segRows' = segLines /\ winRows' = winLines]_vars
  BY DEF CopyInv, Insert
<1> QED
  BY <1>1, OutputInit, OutputNext, CopyInit, CopyNext, PTL DEF Spec, BackfillMirrors

-----------------------------------------------------------------------------
(* What aborted runs leave behind *)

Half == {s \in segLines : \E n \in 1..WindowsPerClip : <<s, n>> \notin jobs \union taken}

\* The half-done segments but the one the run is at are from aborted runs.
HalfInv ==
    /\ IsFiniteSet(segLines)
    /\ todo = <<>> => Cardinality(Half) <= aborted
    /\ todo # <<>> => Cardinality(Half \ {Current}) <= aborted

LEMMA FewerHalf ==
  ASSUME NEW S, NEW T, IsFiniteSet(T), S \subseteq T, NEW a \in Nat, Cardinality(T) <= a
  PROVE  Cardinality(S) <= a
<1>1. IsFiniteSet(S) /\ Cardinality(S) <= Cardinality(T)
  BY FS_Subset
<1>2. Cardinality(S) \in Nat /\ Cardinality(T) \in Nat
  BY <1>1, FS_CardinalityType
<1> QED
  BY <1>1, <1>2

LEMMA HalfFinite == ASSUME IsFiniteSet(segLines) PROVE IsFiniteSet(Half)
  BY FS_Subset DEF Half

LEMMA HalfNext == OutputInv /\ HalfInv /\ [Next]_vars => HalfInv'
<1> SUFFICES ASSUME OutputInv, HalfInv, [Next]_vars PROVE HalfInv'
  OBVIOUS
<1>0. /\ TypeInv /\ aborted \in Nat /\ IsFiniteSet(segLines) /\ IsFiniteSet(Half)
      /\ IsFiniteSet(Half \ {Current})
      /\ todo = <<>> => Cardinality(Half) <= aborted
      /\ todo # <<>> => Cardinality(Half \ {Current}) <= aborted
  <2>1. IsFiniteSet(segLines) /\ TypeInv
    BY DEF HalfInv, OutputInv
  <2>2. IsFiniteSet(Half)
    BY <2>1, HalfFinite
  <2>3. IsFiniteSet(Half \ {Current})
    BY <2>2, FS_Subset
  <2> QED
    BY <2>1, <2>2, <2>3 DEF HalfInv, TypeInv
<1>1. CASE /\ UNCHANGED <<at, todo, aborted, segLines>>
           /\ jobs' \union taken' = jobs \union taken
           /\ todo = <<>> \/ UNCHANGED runs
  <2>1. Half' = Half /\ (todo # <<>> => Current' = Current)
    BY <1>1 DEF Half, Current
  <2> QED
    BY <1>1, <2>1 DEF HalfInv
<1>2. CASE NextClip
  <2>1. UNCHANGED <<segLines, jobs, taken, aborted>> /\ todo = <<>>
    BY <1>2 DEF NextClip, output
  <2>2. Half' = Half
    BY <2>1 DEF Half
  <2>3. Cardinality(Half' \ {Current'}) <= aborted
    BY <1>0, <2>1, <2>2, FewerHalf
  <2>4. todo' # <<>>
    <3>1. todo' = Writes /\ Len(Writes) = N /\ N >= 2
      BY <1>2, WritesShape, Bounds DEF NextClip
    <3> QED
      BY <3>1
  <2> QED
    BY <1>0, <2>1, <2>3, <2>4 DEF HalfInv
<1>3. CASE NextCamera
  <2>1. UNCHANGED <<segLines, jobs, taken, aborted, todo>> /\ todo = <<>>
    BY <1>3 DEF NextCamera, output
  <2> QED
    BY <1>0, <2>1 DEF HalfInv, Half
<1>4. CASE Abort
  <2>1. UNCHANGED <<segLines, jobs, taken>> /\ todo' = <<>> /\ aborted' = aborted + 1
    BY <1>4 DEF Abort, output
  <2>2. Half' = Half
    BY <2>1 DEF Half
  <2>3. Cardinality(Half) <= aborted + 1
    <3>1. CASE todo = <<>>
      BY <1>0, <3>1, FS_CardinalityType
    <3>2. CASE todo # <<>>
      <4> DEFINE H == Half \ {Current}
      <4>1. IsFiniteSet(H) /\ Cardinality(H) <= aborted /\ Current \notin H
        BY <1>0, <3>2
      <4>2. IsFiniteSet(H \union {Current}) /\ Cardinality(H \union {Current}) = Cardinality(H) + 1
        BY <4>1, FS_AddElement
      <4>3. Half \subseteq H \union {Current}
        OBVIOUS
      <4>4. Cardinality(H) \in Nat
        BY <4>1, FS_CardinalityType
      <4> HIDE DEF H
      <4>5. Cardinality(H \union {Current}) <= aborted + 1 /\ aborted + 1 \in Nat
        BY <1>0, <4>1, <4>2, <4>4
      <4> QED
        BY <4>2, <4>3, <4>5, FewerHalf
    <3> QED
      BY <3>1, <3>2
  <2> QED
    BY <1>0, <2>1, <2>2, <2>3 DEF HalfInv
<1>5. CASE PutClip \/ WriteSegment \/ WriteWindow \/ PublishWindow
  <2>1. /\ todo # <<>> /\ UNCHANGED <<runs, at, aborted>>
        /\ jobs \union taken \subseteq jobs' \union taken'
        /\ segLines' \subseteq segLines \union {Current}
    BY <1>5 DEF PutClip, WriteSegment, WriteWindow, PublishWindow, Doing, output
  <2>2. Current' = Current
    BY <2>1 DEF Current
  <2>3. Half' \ {Current} \subseteq Half \ {Current}
    BY <2>1 DEF Half
  <2>4. Cardinality(Half' \ {Current}) <= aborted
    BY <1>0, <2>1, <2>3, FewerHalf
  <2>5. IsFiniteSet(segLines')
    <3>1. IsFiniteSet(segLines \union {Current})
      BY <1>0, FS_AddElement
    <3> QED
      BY <2>1, <3>1, FS_Subset
  <2>6. ASSUME todo' = <<>> PROVE Current \notin Half'
    <3>1. PICK k \in 0..(N - 1) : AtWrite(k) /\ Done(k)
      BY <2>1 DEF OutputInv
    <3>2. PICK op : Doing(op) /\ op \in {"file", "segLine", "winLine", "job"}
      BY <1>5 DEF PutClip, WriteSegment, WriteWindow, PublishWindow
    <3>3. k + 1 = N /\ Head(todo) = Writes[k + 1] /\ Writes[k + 1].op = op
      BY <1>0, <2>6, <3>1, <3>2, OneWrite
    <3>4. ASSUME NEW m \in 1..WindowsPerClip PROVE <<Current, m>> \in jobs' \union taken'
      <4>1. k >= 2 * m + 2 => <<Current, m>> \in jobs \union taken
        BY <3>1 DEF Done
      <4>2. CASE m < WindowsPerClip
        BY <2>1, <3>3, <4>1, <4>2, Bounds DEF N
      <4>3. CASE m = WindowsPerClip
        <5>1. N \in 1..N /\ N = 2 * WindowsPerClip + 2 /\ WindowsPerClip >= 1
          BY <4>3, Bounds DEF N
        <5>2. /\ Writes[N].op = "file" => N = 1
              /\ Writes[N].op = "segLine" => N = 2
              /\ Writes[N].op = "winLine" =>
                   Writes[N].win \in 1..WindowsPerClip /\ N = 2 * Writes[N].win + 1
              /\ Writes[N].op = "job" =>
                   Writes[N].win \in 1..WindowsPerClip /\ N = 2 * Writes[N].win + 2
          BY <5>1, WritesShape
        <5>3. op = "job" /\ Writes[N].win = WindowsPerClip
          BY <3>2, <3>3, <5>1, <5>2, Bounds
        <5>4. Doing("job") /\ Head(todo).win = WindowsPerClip /\ Head(todo).op = "job"
          BY <3>2, <3>3, <5>3
        <5>5. PublishWindow
          BY <1>5, <5>4 DEF PutClip, WriteSegment, WriteWindow, Doing
        <5>6. CurrentWindow = <<Current, m>>
          BY <4>3, <5>4 DEF CurrentWindow
        <5>7. jobs' = jobs \union {CurrentWindow}
          BY <5>5 DEF PublishWindow
        <5> HIDE DEF CurrentWindow
        <5> QED
          BY <5>6, <5>7
      <4>4. m < WindowsPerClip \/ m = WindowsPerClip
        BY BoundAssumption
      <4> QED
        BY <4>2, <4>3, <4>4
    <3> QED
      BY <3>4 DEF Half
  <2>7. todo' = <<>> => Half' = Half' \ {Current}
    BY <2>6
  <2> QED
    BY <2>1, <2>2, <2>4, <2>5, <2>7 DEF HalfInv
<1>6. CASE StartRun
  <2>1. UNCHANGED <<todo, aborted, segLines, jobs, taken>> /\ todo = <<>>
    BY <1>0, <1>6 DEF StartRun, TypeInv, output
  <2>2. Half' = Half
    BY <2>1 DEF Half
  <2> QED
    BY <1>0, <2>1, <2>2 DEF HalfInv
<1>7. CASE Midnight \/ UNCHANGED vars
  BY <1>1, <1>7 DEF Midnight, vars, output
<1>8. ASSUME NEW w \in jobs, Detect(w) PROVE HalfInv'
  <2>1. jobs' \union taken' = jobs \union taken
    BY <1>8 DEF Detect
  <2> QED
    BY <1>1, <1>8, <2>1 DEF Detect, run, output
<1>9. CASE \/ ReadSegments \/ ReadWindows \/ Insert
           \/ \E s \in segRows : Delete(s)
           \/ \E w \in winRows : DeleteWindow(w)
  <2>1. UNCHANGED <<run, output, jobs, taken>>
    BY <1>9 DEF ReadSegments, ReadWindows, Insert, Delete, DeleteWindow
  <2> QED
    BY <1>1, <2>1 DEF run, output
<1> QED
  BY <1>2, <1>3, <1>4, <1>5, <1>6, <1>7, <1>8, <1>9 DEF Next

\* Each aborted run leaves at most one recorded segment without all of its window messages.
THEOREM HalfDone == Spec => []HalfDoneByAbort
<1>1. Init => HalfInv
  <2> SUFFICES ASSUME Init PROVE HalfInv
    OBVIOUS
  <2>1. Half = {} /\ segLines = {} /\ todo = <<>> /\ aborted = 0
    BY DEF Init, Half
  <2>2. IsFiniteSet({}) /\ Cardinality({}) = 0
    BY FS_EmptySet
  <2> QED
    BY <2>1, <2>2 DEF HalfInv
<1>2. OutputInv /\ HalfInv => HalfDoneByAbort
  <2> SUFFICES ASSUME OutputInv, HalfInv
               PROVE  Cardinality(Half) <= aborted + (IF todo # <<>> THEN 1 ELSE 0)
    BY DEF HalfDoneByAbort, Half
  <2>0. aborted \in Nat /\ IsFiniteSet(Half)
    BY HalfFinite DEF OutputInv, TypeInv, HalfInv
  <2>1. CASE todo = <<>>
    BY <2>0, <2>1, FS_CardinalityType DEF HalfInv
  <2>2. CASE todo # <<>>
    <3> DEFINE H == Half \ {Current}
    <3>1. IsFiniteSet(H) /\ Cardinality(H) <= aborted /\ Current \notin H
      BY <2>0, <2>2, FS_Subset DEF HalfInv
    <3>2. IsFiniteSet(H \union {Current}) /\ Cardinality(H \union {Current}) = Cardinality(H) + 1
      BY <3>1, FS_AddElement
    <3>3. Half \subseteq H \union {Current}
      OBVIOUS
    <3>4. Cardinality(H) \in Nat
      BY <3>1, FS_CardinalityType
    <3> HIDE DEF H
    <3>5. Cardinality(H \union {Current}) <= aborted + 1 /\ aborted + 1 \in Nat
      BY <2>0, <3>1, <3>2, <3>4
    <3> QED
      BY <2>2, <3>2, <3>3, <3>5, FewerHalf
  <2> QED
    BY <2>1, <2>2
<1> QED
  BY <1>1, <1>2, OutputInit, OutputNext, HalfNext, PTL DEF Spec

-----------------------------------------------------------------------------
(* The segmenter: arithmetic *)

LEMMA Division ==
  ASSUME NEW t \in Int, NEW s \in Nat \ {0}
  PROVE  /\ t \div s \in Int
         /\ (t \div s) * s <= t
         /\ t < (t \div s) * s + s
         /\ t \in Nat => t \div s \in Nat /\ t \div s <= t
  OBVIOUS

LEMMA Monotone ==
  ASSUME NEW x \in Int, NEW y \in Int, NEW s \in Nat, x <= y
  PROVE  x * s <= y * s
  OBVIOUS

LEMMA Successor ==
  ASSUME NEW x \in Int, NEW s \in Int
  PROVE  (x + 1) * s = x * s + s /\ (x - 1) * s = x * s - s
  OBVIOUS

LEMMA Interval ==
  ASSUME NEW x \in Nat, NEW y \in Nat, x <= y
  PROVE  IsFiniteSet(x..(y - 1)) /\ Cardinality(x..(y - 1)) = y - x
<1>1. y - 1 \in Int /\ x \in Int
  OBVIOUS
<1>2. IsFiniteSet(x..(y - 1))
  BY <1>1, FS_Interval
<1>3. Cardinality(x..(y - 1)) = IF x > y - 1 THEN 0 ELSE (y - 1) - x + 1
  BY <1>1, FS_Interval
<1> QED BY <1>2, <1>3

LEMMA StrideType == ClipStride \in Nat \ {0} /\ ClipStride <= ClipSec
  BY GeometryAssumption DEF ClipStride

LEMMA StartType == \A k \in Nat : Start(k) \in Nat
  BY StrideType DEF Start

\* The clip range of the code is the set of clips whose span holds t.
LEMMA SpanningSpans ==
  ASSUME NEW t \in Time
  PROVE  /\ \A k \in Index : k \in Spanning(t) <=> Start(k) <= t /\ t < Start(k) + ClipSec
         /\ Spanning(t) \subseteq Index
<1> DEFINE s == ClipStride
<1> DEFINE q == t \div s
<1> DEFINE p == (t - ClipSec) \div s
<1>1. s \in Nat \ {0} /\ t \in Nat /\ t <= LastTime /\ ClipSec \in Nat /\ LastTime \in Nat
  BY StrideType, GeometryAssumption, FootageAssumption DEF Time
<1>2. q \in Nat /\ q * s <= t /\ t < q * s + s /\ q <= t
  BY <1>1, Division
<1>3. p \in Int /\ p * s <= t - ClipSec /\ t - ClipSec < p * s + s
  BY <1>1, Division
<1>4. Spanning(t) = (IF p + 1 < 0 THEN 0 ELSE p + 1)..q
  BY DEF Spanning
<1> HIDE DEF s, q, p
<1>5. Spanning(t) \subseteq Index
  BY <1>1, <1>2, <1>3, <1>4 DEF Index
<1>6. ASSUME NEW k \in Index
      PROVE  k \in Spanning(t) <=> Start(k) <= t /\ t < Start(k) + ClipSec
  <2>0. k \in Nat /\ Start(k) = k * s
    BY DEF Index, Start, s
  <2>1. k <= q <=> k * s <= t
    <3>1. CASE k <= q
      BY <1>1, <1>2, <2>0, <3>1, Monotone
    <3>2. CASE q + 1 <= k
      <4>1. (q + 1) * s <= k * s /\ (q + 1) * s = q * s + s
        BY <1>1, <1>2, <2>0, <3>2, Monotone, Successor
      <4> QED BY <1>1, <1>2, <2>0, <3>2, <4>1
    <3> QED BY <1>2, <2>0, <3>1, <3>2
  <2>2. p + 1 <= k <=> t < k * s + ClipSec
    <3>1. CASE p + 1 <= k
      <4>1. (p + 1) * s <= k * s /\ (p + 1) * s = p * s + s
        BY <1>1, <1>3, <2>0, <3>1, Monotone, Successor
      <4> QED BY <1>1, <1>3, <2>0, <3>1, <4>1
    <3>2. CASE k <= p
      BY <1>1, <1>3, <2>0, <3>2, Monotone
    <3> QED BY <1>3, <2>0, <3>1, <3>2
  <2>3. k \in Spanning(t) <=> p + 1 <= k /\ k <= q
    BY <1>2, <1>3, <1>4, <2>0
  <2> QED BY <2>0, <2>1, <2>2, <2>3
<1> QED BY <1>5, <1>6

-----------------------------------------------------------------------------
(* Windows *)

\* Any span of a clip that is no longer than the overlap of two windows lies in one
\* of them.
LEMMA SpanInWindow ==
  ASSUME NEW d \in Nat, NEW p \in Nat, NEW q \in Nat,
         p <= q, q < d, q - p <= WinSec - StrideSec
  PROVE  \E w \in Windows(d) : w.from <= p /\ q < w.to
<1> DEFINE s == StrideSec
<1> DEFINE m == p \div s
<1>1. s \in Nat \ {0} /\ WinSec \in Nat \ {0} /\ s <= WinSec
  BY GeometryAssumption
<1>2. m \in Nat /\ m * s <= p /\ p < m * s + s
  BY <1>1, Division
<1>3. ASSUME NEW n \in Nat, InLoop(n, d), n * s <= p, q < WindowEnd(n, d)
      PROVE  \E w \in Windows(d) : w.from <= p /\ q < w.to
  <2>1. n \in 0..d
    <3>1. n * 1 <= n * s
      BY <1>1
    <3> QED BY <1>1, <1>3, <3>1 DEF InLoop, s
  <2> DEFINE W == [from |-> n * StrideSec, to |-> WindowEnd(n, d)]
  <2>2. W \in Windows(d)
    BY <1>3, <2>1 DEF Windows
  <2> QED BY <1>3, <2>2
<1>4. CASE InLoop(m, d)
  <2>1. q < WindowEnd(m, d)
    BY <1>1, <1>2 DEF WindowEnd, s
  <2> QED BY <1>2, <1>3, <1>4, <2>1
<1>5. CASE ~InLoop(m, d)
  <2> DEFINE n == IF d <= WinSec THEN 0 ELSE (d - WinSec + s - 1) \div s
  <2>1. m > 0 /\ (m - 1) * s + WinSec >= d
    BY <1>1, <1>2, <1>5 DEF InLoop, s
  <2>2. n \in Nat /\ n * s + WinSec >= d /\ n * s < d /\ (n > 0 => (n - 1) * s + WinSec < d)
    <3>1. CASE d <= WinSec
      BY <1>1, <3>1 DEF s
    <3>2. CASE d > WinSec
      <4> DEFINE x == d - WinSec + s - 1
      <4>1. x \in Nat /\ n = x \div s
        BY <1>1, <3>2 DEF s
      <4>2. n \in Nat /\ n * s <= x /\ x < n * s + s
        BY <1>1, <4>1, Division
      <4>3. (n - 1) * s = n * s - s /\ n * s \in Nat
        BY <1>1, <4>2, Successor
      <4> HIDE DEF n
      <4> QED BY <1>1, <3>2, <4>2, <4>3 DEF s
    <3> QED BY <1>1, <3>1, <3>2 DEF s
  <2> HIDE DEF n
  <2>3. n <= m - 1
    <3>1. SUFFICES ASSUME m <= n PROVE FALSE
      BY <1>2, <2>2
    <3>2. (m - 1) * s <= (n - 1) * s
      BY <1>1, <1>2, <2>2, <3>1, Monotone
    <3> QED BY <1>1, <1>2, <2>1, <2>2, <3>1, <3>2
  <2>4. n * s <= p
    <3>1. n * s <= m * s
      BY <1>1, <1>2, <2>2, <2>3, Monotone
    <3> QED BY <1>1, <1>2, <2>2, <3>1
  <2>5. InLoop(n, d)
    BY <2>2 DEF InLoop, s
  <2>6. WindowEnd(n, d) = d
    BY <1>1, <2>2 DEF WindowEnd, s
  <2> QED BY <1>3, <2>2, <2>4, <2>5, <2>6
<1> QED BY <1>4, <1>5

LEMMA WindowType ==
  ASSUME NEW d \in Nat, NEW w \in Windows(d)
  PROVE  w.from \in Int /\ w.to \in Int
<1>1. WinSec \in Nat /\ StrideSec \in Nat
  BY GeometryAssumption
<1>2. CASE \E m \in 0..d : w = [from |-> m * StrideSec, to |-> WindowEnd(m, d)]
  <2> PICK m \in 0..d : w = [from |-> m * StrideSec, to |-> WindowEnd(m, d)]
    BY <1>2
  <2>1. m \in Nat /\ m * StrideSec \in Nat
    BY <1>1
  <2> QED BY <1>1, <2>1 DEF WindowEnd
<1>3. CASE w = [from |-> d - WinSec, to |-> d]
  BY <1>1, <1>3
<1> QED BY <1>2, <1>3 DEF Windows

-----------------------------------------------------------------------------
(* Which frames a clip holds *)

\* A clip holds the frames decoded so far that its span holds, nothing is decoded
\* twice, a clip is closed only when the source is past it, and never longer than
\* its row says.
Content == \A k \in Index : frames[k] = {f \in decoded : Start(k) <= f /\ f < Start(k) + ClipSec}
Past == \A f \in decoded : f <= last
ClosedPast == ~ended => \A k \in Index : clip[k] = "closed" => Start(k) + ClipSec <= last
OpenBegun == \A k \in Index : clip[k] = "open" => Start(k) <= last
Untouched == \A k \in Index : clip[k] = "absent" => frames[k] = {}
Fits == \A k \in Index : clip[k] = "closed" => \A f \in frames[k] : f < Start(k) + length[k]
Rests == ended => \A k \in Index : clip[k] # "open"
Gapless ==
    gaps = 0 /\ clock.source = 1 => \A f \in decoded : \A g \in Time : g <= f => g \in decoded

\* With a frame per tick and no gap the source is decoded up to last, while it goes on.
Filled ==
    gaps = 0 /\ clock.source = 1 /\ ~ended => \A g \in Time : g <= last => g \in decoded

Inv == /\ TypeOK
       /\ Content /\ Past /\ ClosedPast /\ OpenBegun /\ Untouched
       /\ Fits /\ Rests /\ Gapless /\ Filled

LEMMA ClockType ==
  ASSUME NEW c \in Clocks
  PROVE  c.source \in Nat \ {0} /\ c.rate \in Nat \ {0} /\ Second \in Nat \ {0}
  BY ClockAssumption

LEMMA InvInit == SegmenterInit => Inv
<1> SUFFICES ASSUME SegmenterInit PROVE Inv
  OBVIOUS
<1>1. TypeOK
  <2>1. clip \in [Index -> {"absent", "open", "closed"}] /\ frames \in [Index -> SUBSET Time]
    BY DEF SegmenterInit
  <2>2. length \in [Index -> Nat]
    BY DEF SegmenterInit
  <2>3. gaps \in 0..MaxGaps
    BY FootageAssumption DEF SegmenterInit
  <2> QED BY <2>1, <2>2, <2>3 DEF SegmenterInit, TypeOK
<1>2. Content /\ Past /\ OpenBegun /\ Untouched /\ Rests /\ Gapless
  BY DEF SegmenterInit, Content, Past, OpenBegun, Untouched, Rests, Gapless
<1>3. ClosedPast /\ Fits
  BY DEF SegmenterInit, ClosedPast, Fits
<1>4. Filled
  <2>1. clock.source \in Nat \ {0} /\ last = -clock.source
    BY ClockType DEF SegmenterInit
  <2> QED BY <2>1, FootageAssumption DEF Filled, Time
<1> QED BY <1>1, <1>2, <1>3, <1>4 DEF Inv

LEMMA InvEncode ==
  ASSUME Inv, NEW t \in Time, Encode(t)
  PROVE  Inv'
<1> USE DEF Inv
<1>0. clock \in Clocks /\ clock' = clock /\ clock.source \in Nat \ {0}
  BY ClockType DEF Encode, TypeOK
<1>1. t \in Nat /\ t >= last + clock.source /\ t > last /\ last \in Int /\ ~ended /\ ended' = FALSE
  BY <1>0 DEF Encode, Arrives, Time, TypeOK
<1>2. \A k \in Index : k \in Nat /\ Start(k) \in Nat
  BY StartType DEF Index
<1>3. \A k \in Index : k \in Spanning(t) <=> Start(k) <= t /\ t < Start(k) + ClipSec
  BY SpanningSpans
<1>4. ClipSec \in Nat
  BY GeometryAssumption
<1>5. decoded' = decoded \union {t} /\ last' = t
  BY DEF Encode
<1>6. TypeOK'
  <2>1. clock' \in Clocks /\ last' \in Time \union {-clock'.source} /\ gaps' \in 0..MaxGaps
    BY <1>0, <1>1, <1>5, FootageAssumption DEF Encode, Arrives, TypeOK, Time
  <2>2. /\ decoded' \subseteq Time
        /\ clip' \in [Index -> {"absent", "open", "closed"}]
        /\ frames' \in [Index -> SUBSET Time] /\ length' \in [Index -> Nat]
    BY <1>4 DEF Encode, TypeOK
  <2> QED BY <1>1, <2>1, <2>2 DEF TypeOK
<1>7. Content'
  BY <1>1, <1>2, <1>3, <1>4, <1>5 DEF Content, Encode, TypeOK
<1>8. Past'
  BY <1>1, <1>5 DEF Past, TypeOK, Time
<1>9. ASSUME NEW k \in Index, clip'[k] = "closed"
      PROVE  Start(k) + ClipSec <= t
  <2>1. k \notin Spanning(t) /\ (k \in Passed(t) \/ clip[k] = "closed")
    BY <1>9 DEF Encode
  <2> QED BY <1>1, <1>2, <1>4, <2>1 DEF Passed, ClosedPast
<1>10. ClosedPast'
  BY <1>5, <1>9 DEF ClosedPast
<1>11. OpenBegun'
  BY <1>1, <1>2, <1>3, <1>5 DEF OpenBegun, Encode
<1>12. Untouched'
  BY DEF Untouched, Encode
<1>13. Fits'
  <2> SUFFICES ASSUME NEW k \in Index, clip'[k] = "closed", NEW f \in frames'[k]
               PROVE  f < Start(k) + length'[k]
    BY DEF Fits
  <2>1. k \notin Spanning(t) /\ frames'[k] = frames[k] /\ (k \in Passed(t) \/ clip[k] = "closed")
    BY DEF Encode
  <2>2. CASE k \in Passed(t)
    BY <1>2, <2>1, <2>2 DEF Content, Encode
  <2>3. CASE k \notin Passed(t)
    BY <2>1, <2>3 DEF Fits, Encode
  <2> QED BY <2>2, <2>3
<1>14. Rests'
  BY <1>1 DEF Rests
<1>15. gaps' = 0 /\ clock'.source = 1 => gaps = 0 /\ clock.source = 1 /\ t = last + 1
  BY <1>0, <1>1 DEF Encode, Arrives, TypeOK
<1>16. Gapless' /\ Filled'
  BY <1>1, <1>5, <1>15 DEF Gapless, Filled, TypeOK, Time
<1> QED BY <1>6, <1>7, <1>8, <1>10, <1>11, <1>12, <1>13, <1>14, <1>16

LEMMA InvEnd ==
  ASSUME Inv, NEW t \in Time \union {-clock.source}, ~ended, last <= t, CloseAll(t),
         ended' = TRUE, last' = t, gaps' \in 0..MaxGaps, gaps' = 0 => gaps = 0,
         UNCHANGED <<clock, decoded, frames>>
  PROVE  Inv'
<1> USE DEF Inv
<1>1. \A k \in Index : k \in Nat /\ Start(k) \in Nat
  BY StartType DEF Index
<1>2. t \in Int /\ last \in Int /\ clock.rate \in Nat \ {0} /\ clock.source \in Nat \ {0}
  BY ClockType DEF Time, TypeOK
<1>3. TypeOK'
  BY <1>1, <1>2 DEF TypeOK, CloseAll, OpenBegun
<1>4. Content' /\ Untouched' /\ Rests' /\ ClosedPast' /\ OpenBegun'
  BY DEF Content, Untouched, Rests, ClosedPast, OpenBegun, CloseAll, TypeOK
<1>5. Past'
  BY <1>2 DEF Past, TypeOK, Time
<1>6. Fits'
  <2> SUFFICES ASSUME NEW k \in Index, clip'[k] = "closed", NEW f \in frames[k]
               PROVE  f < Start(k) + length'[k]
    BY DEF Fits
  <2>1. CASE clip[k] = "open"
    <3>1. f \in Int /\ f <= last
      BY DEF Past, Content, TypeOK, Time
    <3> QED BY <1>1, <1>2, <2>1, <3>1 DEF CloseAll
  <2>2. CASE clip[k] # "open"
    BY <2>2 DEF CloseAll, Fits
  <2> QED BY <2>1, <2>2
<1>7. Gapless' /\ Filled'
  BY DEF Gapless, Filled
<1> QED BY <1>3, <1>4, <1>5, <1>6, <1>7

LEMMA InvNext == Inv /\ [SegmenterNext]_segmenterVars => Inv'
<1> SUFFICES ASSUME Inv, [SegmenterNext]_segmenterVars PROVE Inv'
  OBVIOUS
<1>1. ASSUME NEW t \in Time, Encode(t) PROVE Inv'
  BY <1>1, InvEncode
<1>2. ASSUME NEW t \in Time, BreakAtLimit(t) PROVE Inv'
  <2>1. /\ last <= t /\ ~ended /\ ended' = TRUE /\ last' = t /\ CloseAll(t)
        /\ gaps' \in 0..MaxGaps /\ (gaps' = 0 => gaps = 0)
        /\ UNCHANGED <<clock, decoded, frames>>
    <3>1. clock.source \in Nat \ {0}
      BY ClockType DEF Inv, TypeOK
    <3> QED
      BY <1>2, <3>1, FootageAssumption DEF BreakAtLimit, Arrives, Inv, TypeOK, Time
  <2> QED BY <2>1, InvEnd
<1>3. ASSUME Finish PROVE Inv'
  <2>1. /\ last \in Time \union {-clock.source} /\ last <= last /\ ~ended /\ ended' = TRUE /\ last' = last
        /\ CloseAll(last) /\ gaps' \in 0..MaxGaps /\ (gaps' = 0 => gaps = 0)
        /\ UNCHANGED <<clock, decoded, frames>>
    <3>1. clock.source \in Nat \ {0}
      BY ClockType DEF Inv, TypeOK
    <3> QED
      BY <1>3, <3>1 DEF Finish, Inv, TypeOK, Time
  <2> QED BY <2>1, InvEnd
<1>4. ASSUME UNCHANGED segmenterVars PROVE Inv'
  BY <1>4 DEF segmenterVars, Inv, TypeOK, Content, Past, ClosedPast, OpenBegun, Untouched,
     Fits, Rests, Gapless, Filled
<1> QED BY <1>1, <1>2, <1>3, <1>4 DEF SegmenterNext

\* Which frames a clip holds, and what its row says of them, in every reachable state.
THEOREM InvHolds == SegmenterSpec => []Inv
  BY InvInit, InvNext, PTL DEF SegmenterSpec

-----------------------------------------------------------------------------
(* The properties *)

\* Frames, clips and rows of every reachable state have the declared types.
THEOREM TypeCorrect == SegmenterSpec => []TypeOK
  BY InvHolds, PTL DEF Inv

\* What crosses a clip boundary and is no longer than the overlap is wholly in one
\* clip, whatever frames the source skips (segment_source).
THEOREM BoundaryEvents == SegmenterSpec => []BoundaryEventsContained
<1>1. Inv => BoundaryEventsContained
  <2> SUFFICES ASSUME Inv, NEW a \in decoded, NEW b \in decoded, a <= b, b - a <= OverlapSec
               PROVE  \E k \in Index : {a, b} \subseteq frames[k]
    BY DEF BoundaryEventsContained
  <2> DEFINE k == a \div ClipStride
  <2>1. a \in Nat /\ b \in Nat /\ a <= LastTime /\ LastTime \in Nat
    BY FootageAssumption DEF Inv, TypeOK, Time
  <2>2. k \in Nat /\ Start(k) <= a /\ a < Start(k) + ClipStride /\ k <= a
    BY <2>1, StrideType, Division DEF Start
  <2>3. k \in Index /\ Start(k) \in Nat
    BY <2>1, <2>2, StartType DEF Index
  <2>4. ClipStride + OverlapSec = ClipSec /\ ClipStride \in Nat /\ OverlapSec \in Nat
    BY StrideType, GeometryAssumption DEF ClipStride
  <2> HIDE DEF k
  <2>5. a < Start(k) + ClipSec /\ Start(k) <= b /\ b < Start(k) + ClipSec
    BY <2>1, <2>2, <2>3, <2>4
  <2>6. a \in frames[k] /\ b \in frames[k]
    BY <2>2, <2>3, <2>5 DEF Inv, Content
  <2> QED BY <2>3, <2>6
<1> QED BY <1>1, InvHolds, PTL

\* The frames of a clip, and those before one of them, are no more than the source's
\* pace allows.
Paced ==
    \A k \in Index : frames[k] # {} =>
        Cardinality(frames[k]) * clock.source <= last - Start(k) + clock.source
PosPaced ==
    \A k \in Index : \A f \in frames[k] : Pos(k, f) * clock.source <= f - Start(k)
Pace == Paced /\ PosPaced

LEMMA FramesFinite ==
  ASSUME TypeOK, NEW k \in Index, NEW S \in SUBSET frames[k]
  PROVE  IsFiniteSet(S) /\ Cardinality(S) \in Nat
<1>1. IsFiniteSet(Time)
  BY FootageAssumption, FS_Interval DEF Time
<1>2. S \subseteq Time
  BY DEF TypeOK
<1> QED BY <1>1, <1>2, FS_Subset, FS_CardinalityType

\* The frame that is encoded next comes after the frames the clip has.
LEMMA PaceOfNext ==
  ASSUME Inv, Pace, NEW t \in Time, t >= last + clock.source,
         NEW k \in Index, Start(k) <= t
  PROVE  Cardinality(frames[k]) * clock.source <= t - Start(k)
<1>1. /\ Cardinality(frames[k]) \in Nat /\ clock.source \in Nat \ {0}
      /\ last \in Int /\ t \in Nat /\ Start(k) \in Nat
  <2>1. TypeOK
    BY DEF Inv
  <2>2. Cardinality(frames[k]) \in Nat
    BY <2>1, FramesFinite
  <2>3. clock.source \in Nat \ {0}
    BY <2>1, ClockType DEF TypeOK
  <2> QED BY <2>1, <2>2, <2>3, StartType DEF TypeOK, Time, Index
<1>2. CASE frames[k] = {}
  <2>1. Cardinality(frames[k]) = 0
    BY <1>2, FS_EmptySet
  <2> QED BY <1>1, <2>1
<1>3. CASE frames[k] # {}
  <2>1. Cardinality(frames[k]) * clock.source <= last - Start(k) + clock.source
    BY <1>3 DEF Pace, Paced
  <2>2. Cardinality(frames[k]) * clock.source \in Nat
    BY <1>1
  <2> QED BY <1>1, <2>1, <2>2
<1> QED BY <1>2, <1>3

LEMMA PaceEncode ==
  ASSUME Inv, Pace, NEW t \in Time, Encode(t)
  PROVE  Pace'
<1>t. TypeOK
  BY DEF Inv
<1>0. /\ clock' = clock /\ clock.source \in Nat \ {0} /\ last' = t /\ t \in Nat
      /\ last \in Int /\ t >= last + clock.source
  BY <1>t, ClockType DEF Encode, Arrives, TypeOK, Time
<1>1. ASSUME NEW k \in Index PROVE k \in Nat /\ Start(k) \in Nat /\ Cardinality(frames[k]) \in Nat
  BY <1>t, StartType, FramesFinite DEF Index
<1>2. \A k \in Index : \A f \in frames[k] : f \in Nat /\ f < t
  BY <1>0, <1>t DEF Inv, Past, Content, TypeOK, Time
<1>3. ASSUME NEW k \in Index, k \in Spanning(t)
      PROVE  /\ frames'[k] = frames[k] \union {t}
             /\ Cardinality(frames'[k]) = Cardinality(frames[k]) + 1
             /\ Cardinality(frames[k]) * clock.source <= t - Start(k)
  <2>1. frames'[k] = frames[k] \union {t} /\ Start(k) <= t
    BY <1>3, SpanningSpans DEF Encode
  <2>2. t \notin frames[k] /\ IsFiniteSet(frames[k])
    BY <1>2, <1>0, <1>t, FramesFinite
  <2>3. Cardinality(frames'[k]) = Cardinality(frames[k]) + 1
    BY <2>1, <2>2, FS_AddElement
  <2> QED BY <2>1, <2>3, <1>0, PaceOfNext
<1>4. ASSUME NEW k \in Index, k \notin Spanning(t) PROVE frames'[k] = frames[k]
  BY <1>4 DEF Encode
<1>5. Paced'
  <2> SUFFICES ASSUME NEW k \in Index, frames'[k] # {}
               PROVE  Cardinality(frames'[k]) * clock.source <= t - Start(k) + clock.source
    BY <1>0 DEF Paced, Start
  <2>1. CASE k \in Spanning(t)
    <3>1. (Cardinality(frames[k]) + 1) * clock.source
             = Cardinality(frames[k]) * clock.source + clock.source
      BY <1>0, <1>1, Successor
    <3>2. Cardinality(frames[k]) * clock.source \in Nat
      BY <1>0, <1>1
    <3> QED BY <1>0, <1>1, <1>3, <2>1, <3>1, <3>2
  <2>2. CASE k \notin Spanning(t)
    <3>1. Cardinality(frames[k]) * clock.source <= last - Start(k) + clock.source
      BY <1>4, <2>2 DEF Pace, Paced
    <3>2. Cardinality(frames[k]) * clock.source \in Nat
      BY <1>0, <1>1
    <3> QED BY <1>0, <1>1, <1>4, <2>2, <3>1, <3>2
  <2> QED BY <2>1, <2>2
<1>6. PosPaced'
  <2> SUFFICES ASSUME NEW k \in Index, NEW f \in frames'[k]
               PROVE  Cardinality({g \in frames'[k] : g < f}) * clock.source <= f - Start(k)
    BY <1>0 DEF PosPaced, Pos, Start
  <2>1. CASE f \in frames[k]
    <3>1. {g \in frames'[k] : g < f} = {g \in frames[k] : g < f}
      BY <1>0, <1>2, <1>3, <1>4, <2>1
    <3> QED BY <2>1, <3>1 DEF Pace, PosPaced, Pos
  <2>2. CASE f \notin frames[k]
    <3>1. k \in Spanning(t) /\ f = t
      BY <1>3, <1>4, <2>2
    <3>2. {g \in frames'[k] : g < f} = frames[k]
      BY <1>0, <1>2, <1>3, <3>1
    <3> QED BY <1>3, <3>1, <3>2
  <2> QED BY <2>1, <2>2
<1> QED BY <1>5, <1>6 DEF Pace

LEMMA PaceNext == Inv /\ Pace /\ [SegmenterNext]_segmenterVars => Pace'
<1> SUFFICES ASSUME Inv, Pace, [SegmenterNext]_segmenterVars PROVE Pace'
  OBVIOUS
<1>1. CASE \E t \in Time : Encode(t)
  BY <1>1, PaceEncode
<1>2. CASE \/ \E t \in Time : BreakAtLimit(t)
           \/ Finish \/ UNCHANGED segmenterVars
  <2>1. UNCHANGED <<clock, frames>> /\ last' >= last /\ last \in Int /\ last' \in Int
        /\ clock.source \in Nat \ {0}
    <3>1. clock.source \in Nat \ {0} /\ last \in Int
      BY ClockType DEF Inv, TypeOK, Time
    <3> QED
      BY <1>2, <3>1 DEF BreakAtLimit, Arrives, Finish, segmenterVars, Time
  <2>2. PosPaced'
    BY <2>1 DEF Pace, PosPaced, Pos, Start
  <2>3. Paced'
    <3> SUFFICES ASSUME NEW k \in Index, frames[k] # {}
                 PROVE  Cardinality(frames[k]) * clock.source <= last' - Start(k) + clock.source
      BY <2>1 DEF Paced, Start
    <3>1. Cardinality(frames[k]) * clock.source <= last - Start(k) + clock.source
      BY DEF Pace, Paced
    <3>2. Cardinality(frames[k]) \in Nat /\ Start(k) \in Nat
      BY FramesFinite, StartType DEF Inv, Index
    <3>3. Cardinality(frames[k]) * clock.source \in Nat
      BY <2>1, <3>2
    <3> QED BY <2>1, <3>1, <3>2, <3>3
  <2> QED BY <2>2, <2>3 DEF Pace
<1> QED BY <1>1, <1>2 DEF SegmenterNext

LEMMA RateType ==
  ASSUME TypeOK
  PROVE  FileRate \in Nat
<1>1. clock.rate \in Nat \ {0} /\ Second \in Nat \ {0}
  BY ClockType DEF TypeOK
<1>2. Second \div clock.rate \in Nat
  BY <1>1, Division
<1> QED BY <1>2 DEF FileRate

\* A file whose frames are closer together than the source's ends before its row.
LEMMA PlaysFaster ==
  ASSUME NEW pos \in Nat, NEW period \in Nat, NEW second \in Nat \ {0}, NEW rate \in Nat,
         NEW end \in Nat, second <= period * rate, pos * period < end
  PROVE  pos * second < end * rate
<1>1. rate > 0
  <2>1. rate = 0 => period * rate = 0
    OBVIOUS
  <2> QED BY <2>1
<1> DEFINE product == period * rate
<1> DEFINE covered == pos * period
<1>2. product \in Nat /\ covered \in Nat
  OBVIOUS
<1>3. pos * product = covered * rate
  OBVIOUS
<1> HIDE DEF product, covered
<1>4. second <= product /\ covered < end
  BY DEF product, covered
<1>5. second * pos <= product * pos
  BY <1>2, <1>4, Monotone
<1>6. (covered + 1) * rate <= end * rate /\ (covered + 1) * rate = covered * rate + rate
  BY <1>2, <1>4, Monotone, Successor
<1>7. second * pos = pos * second /\ product * pos = pos * product
  BY <1>2
<1>8. pos * second \in Nat /\ covered * rate \in Nat /\ end * rate \in Nat
  BY <1>2
<1> QED BY <1>1, <1>3, <1>5, <1>6, <1>7, <1>8

\* The row of an emitted clip covers its frames at the source's pace, whatever the average
\* rate of the source is: for clips closed in passing and for those cut off at the end.
\* If the file plays no slower, no frame of it lies beyond the row's duration.
THEOREM RowCovers == SegmenterSpec => []RowCoversFile
<1>1. Inv /\ Pace => RowCoversFile
  <2> SUFFICES ASSUME Inv, Pace, NEW k \in Index, clip[k] = "closed", NEW f \in frames[k]
               PROVE  /\ Pos(k, f) * clock.source < length[k]
                      /\ Second <= clock.source * FileRate => PlaysBefore(k, f, length[k])
    BY DEF RowCoversFile
  <2>1. f < Start(k) + length[k]
    BY DEF Inv, Fits
  <2>2. Pos(k, f) * clock.source <= f - Start(k)
    BY DEF Pace, PosPaced
  <2>3. /\ k \in Nat /\ f \in Nat /\ length[k] \in Nat /\ FileRate \in Nat
        /\ clock.source \in Nat \ {0} /\ Second \in Nat \ {0}
    BY ClockType, RateType DEF Inv, TypeOK, Time, Index
  <2>4. Start(k) \in Nat /\ Pos(k, f) \in Nat
    BY <2>3, StartType, FramesFinite DEF Inv, Pos
  <2>5. Pos(k, f) * clock.source \in Nat
    BY <2>3, <2>4
  <2>6. Pos(k, f) * clock.source < length[k]
    BY <2>1, <2>2, <2>3, <2>4, <2>5
  <2>7. Second <= clock.source * FileRate => Pos(k, f) * Second < length[k] * FileRate
    BY <2>3, <2>4, <2>6, PlaysFaster
  <2> QED BY <2>6, <2>7 DEF PlaysBefore
<1>2. SegmenterInit => Pace
  BY DEF SegmenterInit, Pace, Paced, PosPaced
<1> QED BY <1>1, <1>2, InvHolds, PaceNext, PTL DEF SegmenterSpec

\* With a frame per tick, a frame's place in the file is its distance from the clip's start.
LEMMA PosExact ==
  ASSUME TypeOK, Content, Gapless, gaps = 0, clock.source = 1, NEW k \in Index, NEW f \in frames[k]
  PROVE  Pos(k, f) = f - Start(k)
<1>1. Start(k) \in Nat /\ f \in decoded /\ f \in Time /\ Start(k) <= f /\ f < Start(k) + ClipSec
  BY StartType DEF Index, TypeOK, Content, Time
<1>2. ASSUME NEW g \in Start(k)..(f - 1) PROVE g \in frames[k]
  <2>1. g \in Time /\ g <= f /\ Start(k) <= g /\ g < Start(k) + ClipSec
    BY <1>1, GeometryAssumption, FootageAssumption DEF Time
  <2>2. g \in decoded
    BY <1>1, <2>1 DEF Gapless
  <2> QED BY <2>1, <2>2 DEF Content
<1>3. {g \in frames[k] : g < f} = Start(k)..(f - 1)
  BY <1>1, <1>2 DEF Content, TypeOK, Time
<1>4. Cardinality(Start(k)..(f - 1)) = f - Start(k)
  BY <1>1, Interval DEF Time
<1> QED BY <1>3, <1>4 DEF Pos

\* At one frame per tick the file's time is the frame count.
LEMMA PlaysAt ==
  ASSUME FileRate = Second, NEW k, NEW f, NEW x \in Int, Pos(k, f) \in Int
  PROVE  PlaysBefore(k, f, x) <=> Pos(k, f) < x
<1>1. Second \in Nat \ {0}
  BY ClockAssumption
<1>2. ASSUME NEW p \in Int PROVE p * Second < x * Second <=> p < x
  <2>1. CASE p < x
    <3>1. (p + 1) * Second <= x * Second /\ (p + 1) * Second = p * Second + Second
      BY <1>1, <2>1, Monotone, Successor
    <3> QED BY <1>1, <2>1, <3>1
  <2>2. CASE x <= p
    BY <1>1, <2>2, Monotone
  <2> QED BY <2>1, <2>2
<1> QED BY <1>2 DEF PlaysBefore

\* Footage without gaps, with a whole number of frames per second, is looked at span by
\* span, for any geometry in which at most two clips overlap: the windows dropped in a
\* clip's prefix are not missed.
THEOREM SpansWatched ==
  ASSUME OverlapSec <= ClipStride
  PROVE  SegmenterSpec => []SpansAreWatched
<1>1. Inv => SpansAreWatched
  <2> SUFFICES ASSUME Inv, ended, gaps = 0, clock.source = 1, FileRate = Second,
                      NEW a \in decoded, NEW b \in decoded,
                      a <= b, b - a <= OverlapSec, b - a <= WinSec - StrideSec
               PROVE  Watched({a, b})
    BY DEF SpansAreWatched
  <2> DEFINE k == a \div ClipStride
  <2>1. a \in Nat /\ b \in Nat /\ a <= LastTime /\ LastTime \in Nat
    BY FootageAssumption DEF Inv, TypeOK, Time
  <2>2. k \in Nat /\ Start(k) <= a /\ a < Start(k) + ClipStride /\ k <= a
    BY <2>1, StrideType, Division DEF Start
  <2>3. k \in Index /\ Start(k) \in Nat
    BY <2>1, <2>2, StartType DEF Index
  <2>4. /\ ClipStride + OverlapSec = ClipSec
        /\ ClipStride \in Nat \ {0} /\ OverlapSec \in Nat /\ ClipSec \in Nat
    BY StrideType, GeometryAssumption DEF ClipStride
  <2>5. ASSUME NEW j \in Index, Start(j) <= a, b < Start(j) + ClipSec
        PROVE  /\ clip[j] = "closed" /\ {a, b} \subseteq frames[j]
               /\ length[j] \in Nat /\ Start(j) \in Nat /\ b - Start(j) < length[j]
               /\ Pos(j, a) = a - Start(j) /\ Pos(j, b) = b - Start(j)
    <3>1. Start(j) \in Nat
      BY StartType DEF Index
    <3>2. a \in frames[j] /\ b \in frames[j]
      BY <2>1, <2>4, <2>5, <3>1 DEF Inv, Content
    <3>3. clip[j] = "closed" /\ length[j] \in Nat
      BY <3>2 DEF Inv, TypeOK, Rests, Untouched
    <3>4. b - Start(j) < length[j]
      BY <2>1, <3>1, <3>2, <3>3 DEF Inv, Fits
    <3>5. Pos(j, a) = a - Start(j) /\ Pos(j, b) = b - Start(j)
      BY <3>2, PosExact DEF Inv
    <3> QED BY <3>1, <3>2, <3>3, <3>4, <3>5
  <2>6. ASSUME NEW j \in Index, Start(j) <= a, b < Start(j) + ClipSec,
               j = 0 \/ b - Start(j) >= OverlapSec
                     \/ \A w \in Windows(length[j]) :
                           w.from <= a - Start(j) /\ b - Start(j) < w.to => w.to > OverlapSec
        PROVE  Watched({a, b})
    <3>0. /\ length[j] \in Nat /\ a - Start(j) \in Nat /\ b - Start(j) \in Nat
          /\ a - Start(j) <= b - Start(j) /\ b - Start(j) < length[j]
          /\ (b - Start(j)) - (a - Start(j)) <= WinSec - StrideSec
      BY <2>1, <2>5, <2>6, GeometryAssumption
    <3>1. PICK w \in Windows(length[j]) : w.from <= a - Start(j) /\ b - Start(j) < w.to
      BY <3>0, SpanInWindow
    <3>2. w.to \in Int /\ w.from \in Int
      BY <2>5, <2>6, WindowType
    <3>3. w \in Kept(j)
      BY <2>1, <2>4, <2>5, <2>6, <3>1, <3>2 DEF Kept
    <3>4. \A f \in {a, b} : w.from <= Pos(j, f) /\ Pos(j, f) < w.to
      BY <2>1, <2>5, <2>6, <3>1, <3>2
    <3>5. \A f \in {a, b} : Pos(j, f) \in Int
      BY <2>1, <2>5, <2>6
    <3>6. \A f \in {a, b} : PlaysBefore(j, f, w.to) /\ ~PlaysBefore(j, f, w.from)
      BY <3>2, <3>4, <3>5, PlaysAt
    <3> QED BY <2>5, <2>6, <3>3, <3>6 DEF Watched, WatchedIn
  <2>7. b < Start(k) + ClipSec
    BY <2>1, <2>2, <2>3, <2>4
  <2>8. CASE k = 0 \/ b - Start(k) >= OverlapSec
    BY <2>2, <2>3, <2>6, <2>7, <2>8
  <2>9. CASE k # 0 /\ b - Start(k) < OverlapSec
    <3> HIDE DEF k
    <3>1. PICK j \in Nat : j = k - 1
      BY <2>2, <2>9
    <3>2. j \in Index
      BY <2>1, <2>2, <2>3, <3>1 DEF Index
    <3>3. (k - 1) * ClipStride = k * ClipStride - ClipStride
      BY <2>2, <2>4, Successor
    <3>4. Start(j) = Start(k) - ClipStride
      BY <3>1, <3>3 DEF Start
    <3>5. Start(j) <= a /\ b < Start(j) + ClipSec /\ b - Start(j) >= OverlapSec
      BY <2>1, <2>2, <2>3, <2>4, <2>9, <3>4
    <3> QED BY <2>6, <3>2, <3>5
  <2> HIDE DEF k
  <2> QED BY <2>1, <2>3, <2>4, <2>8, <2>9
<1> QED BY <1>1, InvHolds, PTL

-----------------------------------------------------------------------------
(* The sources of clips *)

\* A camera whose clips come from either source is segmented as Segmenter says, so the
\* theorems above hold of SourceSpec.
THEOREM SourcesSegment == SourceSpec => SegmenterSpec
<1>1. SourceInit => SegmenterInit
  BY DEF SourceInit
<1>2. [SourceNext]_sourceVars => [SegmenterNext]_segmenterVars
  BY DEF SourceNext, sourceVars
<1> QED
  BY <1>1, <1>2, PTL DEF SourceSpec, SegmenterSpec

ClipFile == [of : Nat, from : Nat, whole : BOOLEAN]

\* The files are numbered from 0 without holes.
DiskType == \E size \in Nat : disk \in [0..(size - 1) -> ClipFile]

RecorderType ==
    /\ DiskType
    /\ proc \in {"none", "running", "gone"}
    /\ recording \in Nat /\ elapsed \in Nat /\ writing \in Nat

\* Clip n begins n segment lengths into its recording, give or take n keyframes.
InTime(n, time) ==
    /\ n * (SegmentLen - KeyframeGap) <= time
    /\ time <= n * (SegmentLen + KeyframeGap)

\* The clip being written is of the recording that runs.
RunningInTime ==
    proc = "running" =>
        /\ writing \in DOMAIN disk
        /\ disk[writing].of = recording
        /\ InTime(writing, elapsed)

\* What the latest recording left is numbered in its order, also over older files.
NumberedInTime ==
    \A n \in DOMAIN disk :
        /\ disk[n].of <= recording
        /\ disk[n].of = recording => InTime(n, disk[n].from)

\* A file without its end is being written, or of a recording that broke off.
WholeOrTorn ==
    \A n \in DOMAIN disk :
        disk[n].whole \/ (proc = "running" /\ n = writing) \/ disk[n].of \in torn

RecorderInv ==
    /\ RecorderType /\ RunningInTime /\ NumberedInTime /\ WholeOrTorn
    /\ CatalogDrift /\ ChecksumOfWholeClip

\* The next clip is in time if this one is.
LEMMA NextInTime ==
  ASSUME NEW n \in Nat, NEW time \in Nat, InTime(n, time),
         NEW len \in (SegmentLen - KeyframeGap)..(SegmentLen + KeyframeGap)
  PROVE  InTime(n + 1, time + len) /\ time + len \in Nat
<1> DEFINE a == SegmentLen - KeyframeGap
           b == SegmentLen + KeyframeGap
<1>1. a \in Nat /\ b \in Nat /\ a <= len /\ len <= b /\ len \in Nat
  BY LiveAssumption
<1>2. n * a <= time /\ time <= n * b
  BY DEF InTime
<1> HIDE DEF a, b
<1>3. (n + 1) * a = n * a + a /\ (n + 1) * b = n * b + b
  BY <1>1, Successor
<1>4. n * a \in Nat /\ n * b \in Nat
  BY <1>1
<1>5. (n + 1) * a <= time + len /\ time + len <= (n + 1) * b
  BY <1>1, <1>2, <1>3, <1>4
<1> QED BY <1>1, <1>5 DEF InTime, a, b

LEMMA FirstInTime == InTime(0, 0)
  BY LiveAssumption DEF InTime

\* What a clip in time is off by when it is catalogued by its number.
LEMMA Drift ==
  ASSUME NEW n \in Nat, NEW time \in Nat, InTime(n, time)
  PROVE  /\ n * (CatalogLen - SegmentLen - KeyframeGap) <= n * CatalogLen - time
         /\ n * CatalogLen - time <= n * (CatalogLen - SegmentLen + KeyframeGap)
<1>1. CatalogLen \in Nat /\ SegmentLen \in Nat /\ KeyframeGap \in Nat
  BY LiveAssumption
<1>2. /\ n * (CatalogLen - SegmentLen - KeyframeGap) = n * CatalogLen - n * (SegmentLen + KeyframeGap)
      /\ n * (CatalogLen - SegmentLen + KeyframeGap) = n * CatalogLen - n * (SegmentLen - KeyframeGap)
  BY <1>1
<1>3. /\ n * CatalogLen \in Int
      /\ n * (SegmentLen + KeyframeGap) \in Int /\ n * (SegmentLen - KeyframeGap) \in Int
  BY <1>1
<1> QED BY <1>2, <1>3 DEF InTime

\* What Open leaves on disk: the new clip, the one before it finished.
LEMMA Opened ==
  ASSUME RecorderType, NEW n \in Nat, NEW time \in Nat, Open(n, time), recording' \in Nat,
         n = 0 \/ (n = writing + 1 /\ writing \in DOMAIN disk)
  PROVE  /\ writing' = n /\ elapsed' = time /\ DiskType'
         /\ DOMAIN disk' = DOMAIN disk \union {n}
         /\ disk'[n] = [of |-> recording', from |-> time, whole |-> FALSE]
         /\ \A m \in DOMAIN disk \ {n} :
               disk'[m] \in {disk[m], [disk[m] EXCEPT !.whole = TRUE]}
         /\ n > 0 => disk'[writing].whole
<1>1. PICK size \in Nat : disk \in [0..(size - 1) -> ClipFile]
  BY DEF RecorderType, DiskType
<1> DEFINE new == [of |-> recording', from |-> time, whole |-> FALSE]
<1>2. /\ writing' = n /\ elapsed' = time
      /\ disk' = [m \in DOMAIN disk \union {n} |->
                     IF m = n THEN new
                     ELSE IF m = writing /\ n > 0 THEN [disk[m] EXCEPT !.whole = TRUE]
                     ELSE disk[m]]
  BY DEF Open
<1>3. new \in ClipFile
  BY DEF ClipFile
<1> HIDE DEF new
<1>4. /\ DOMAIN disk' = DOMAIN disk \union {n}
      /\ disk'[n] = new
      /\ \A m \in DOMAIN disk \ {n} :
            disk'[m] = IF m = writing /\ n > 0 THEN [disk[m] EXCEPT !.whole = TRUE] ELSE disk[m]
  BY <1>2
<1>5. \A m \in DOMAIN disk : disk[m] \in ClipFile
  BY <1>1
<1>6. \A m \in DOMAIN disk :
         /\ [disk[m] EXCEPT !.whole = TRUE] \in ClipFile
         /\ [disk[m] EXCEPT !.whole = TRUE].whole = TRUE
  BY <1>5 DEF ClipFile
<1>7. \A m \in DOMAIN disk' : disk'[m] \in ClipFile
  BY <1>3, <1>4, <1>5, <1>6
<1>8. \E s \in Nat : DOMAIN disk' = 0..(s - 1)
  <2>0. DOMAIN disk = 0..(size - 1) /\ n \in 0..size
    BY <1>1 DEF RecorderType
  <2>1. CASE n \in 0..(size - 1)
    BY <1>4, <2>0, <2>1
  <2>2. CASE n = size
    <3>1. size + 1 \in Nat /\ DOMAIN disk' = 0..((size + 1) - 1)
      BY <1>4, <2>0, <2>2
    <3> QED
      BY <3>1
  <2> QED
    BY <2>0, <2>1, <2>2
<1>9. DiskType'
  BY <1>2, <1>7, <1>8 DEF DiskType
<1>10. n > 0 => disk'[writing].whole
  <2> SUFFICES ASSUME n > 0 PROVE disk'[writing].whole
    OBVIOUS
  <2>1. writing \in DOMAIN disk \ {n} /\ writing \in Nat
    BY DEF RecorderType
  <2>2. disk'[writing] = [disk[writing] EXCEPT !.whole = TRUE]
    BY <1>4, <2>1
  <2>3. [disk[writing] EXCEPT !.whole = TRUE].whole = TRUE
    BY <1>6, <2>1
  <2> QED
    BY <2>2, <2>3
<1>11. \A m \in DOMAIN disk \ {n} : disk'[m] \in {disk[m], [disk[m] EXCEPT !.whole = TRUE]}
  BY <1>4
<1>12. disk'[n] = [of |-> recording', from |-> time, whole |-> FALSE]
  BY <1>4 DEF new
<1> QED
  BY <1>2, <1>4, <1>9, <1>10, <1>11, <1>12

\* The files in the order of their names: the file of rank r has number r - 1.
LEMMA ClipOfRank ==
  ASSUME RecorderType, NEW rank \in DOMAIN Clips
  PROVE  /\ rank \in Nat /\ rank - 1 \in DOMAIN disk
         /\ Clips[rank] = rank - 1
<1>1. PICK size \in Nat : disk \in [0..(size - 1) -> ClipFile]
  BY DEF RecorderType, DiskType
<1>2. DOMAIN disk = 0..(size - 1)
  BY <1>1
<1>3. Cardinality(DOMAIN disk) = size
  BY <1>2, FS_Interval
<1>4. rank \in 1..size
  BY <1>3 DEF Clips
<1>5. \A n \in DOMAIN disk : Cardinality({m \in DOMAIN disk : m < n}) = n
  <2> SUFFICES ASSUME NEW n \in 0..(size - 1)
               PROVE  Cardinality({m \in 0..(size - 1) : m < n}) = n
    BY <1>2
  <2>1. {m \in 0..(size - 1) : m < n} = 0..(n - 1)
    OBVIOUS
  <2>2. Cardinality(0..(n - 1)) = n
    BY FS_Interval
  <2> QED
    BY <2>1, <2>2
<1>6. Clips[rank] =
        CHOOSE n \in DOMAIN disk : Cardinality({m \in DOMAIN disk : m < n}) = rank - 1
  BY <1>3, <1>4 DEF Clips
<1>7. rank - 1 \in DOMAIN disk
  BY <1>2, <1>4
<1> DEFINE Below(n) == Cardinality({m \in DOMAIN disk : m < n})
<1>8. Below(rank - 1) = rank - 1 /\ \A n \in DOMAIN disk : Below(n) = n
  BY <1>5, <1>7
<1> HIDE DEF Below
<1>9. (CHOOSE n \in DOMAIN disk : Below(n) = rank - 1) = rank - 1
  BY <1>7, <1>8
<1> QED
  BY <1>4, <1>6, <1>7, <1>9 DEF Below

LEMMA RecorderInit == SourceInit => RecorderInv
<1> SUFFICES ASSUME SourceInit PROVE RecorderInv
  OBVIOUS
<1>1. disk \in [0..(0 - 1) -> ClipFile] /\ DOMAIN disk = {}
  BY DEF SourceInit
<1>2. DiskType
  BY <1>1 DEF DiskType
<1> QED
  BY <1>1, <1>2 DEF SourceInit, RecorderInv, RecorderType, RunningInTime, NumberedInTime,
     WholeOrTorn, CatalogDrift, ChecksumOfWholeClip

LEMMA RecorderNext == RecorderInv /\ [SourceNext]_sourceVars => RecorderInv'
<1> SUFFICES ASSUME RecorderInv, [SourceNext]_sourceVars PROVE RecorderInv'
  OBVIOUS
<1> USE DEF RecorderInv, RecorderType, RunningInTime, NumberedInTime, WholeOrTorn
<1>0. \A n \in DOMAIN disk : disk[n] \in ClipFile
  BY DEF DiskType
<1>c. catalog' = catalog /\ torn' = torn => CatalogDrift' /\ ChecksumOfWholeClip'
  BY DEF CatalogDrift, ChecksumOfWholeClip
<1>1. ASSUME StartRecording PROVE RecorderInv'
  <2>1. /\ proc # "running" /\ proc' = "running" /\ recording' = recording + 1
        /\ torn' = torn /\ catalog' = catalog
        /\ Open(0, 0)
    BY <1>1 DEF StartRecording, Starts
  <2>2. /\ writing' = 0 /\ elapsed' = 0 /\ DiskType' /\ DOMAIN disk' = DOMAIN disk \union {0}
        /\ disk'[0] = [of |-> recording', from |-> 0, whole |-> FALSE]
        /\ \A m \in DOMAIN disk \ {0} :
              disk'[m] \in {disk[m], [disk[m] EXCEPT !.whole = TRUE]}
    <3>1. RecorderType /\ Open(0, 0) /\ 0 \in Nat /\ recording' \in Nat
      BY <2>1
    <3> QED
      BY <3>1, Opened
  <2>3. \A m \in DOMAIN disk \ {0} :
           /\ disk'[m].of = disk[m].of /\ disk'[m].from = disk[m].from
           /\ disk[m].whole => disk'[m].whole
    BY <1>0, <2>2 DEF ClipFile
  <2>4. disk'[0].of = recording' /\ InTime(0, disk'[0].from) /\ InTime(0, elapsed')
    BY <2>2, FirstInTime
  <2>5. \A n \in DOMAIN disk : disk[n].of < recording'
    BY <1>0, <2>1 DEF ClipFile
  <2>6. RecorderType' /\ RunningInTime'
    BY <2>1, <2>2, <2>4 DEF InTime
  <2>7. NumberedInTime'
    BY <1>0, <2>1, <2>2, <2>3, <2>4, <2>5 DEF ClipFile, InTime
  <2>8. WholeOrTorn'
    BY <2>1, <2>2, <2>3
  <2> QED
    BY <1>c, <2>1, <2>6, <2>7, <2>8
<1>2. ASSUME Pass PROVE RecorderInv'
  <2>1. PICK len \in (SegmentLen - KeyframeGap)..(SegmentLen + KeyframeGap) :
           Open(writing + 1, elapsed + len)
    BY <1>2 DEF Pass
  <2>2. /\ proc = "running" /\ writing \in DOMAIN disk /\ InTime(writing, elapsed)
        /\ UNCHANGED <<proc, recording, torn, catalog>>
    BY <1>2 DEF Pass
  <2>3. InTime(writing + 1, elapsed + len) /\ elapsed + len \in Nat
    BY <2>2, NextInTime
  <2>4. /\ writing' = writing + 1 /\ elapsed' = elapsed + len /\ DiskType'
        /\ DOMAIN disk' = DOMAIN disk \union {writing + 1}
        /\ disk'[writing + 1] = [of |-> recording', from |-> elapsed + len, whole |-> FALSE]
        /\ \A m \in DOMAIN disk \ {writing + 1} :
              disk'[m] \in {disk[m], [disk[m] EXCEPT !.whole = TRUE]}
        /\ disk'[writing].whole
    <3>1. /\ writing + 1 \in Nat /\ recording' \in Nat /\ elapsed + len \in Nat
          /\ writing \in DOMAIN disk /\ RecorderType /\ writing + 1 > 0
      BY <2>2, <2>3
    <3> QED
      BY <2>1, <3>1, Opened
  <2>5. \A m \in DOMAIN disk \ {writing + 1} :
           /\ disk'[m].of = disk[m].of /\ disk'[m].from = disk[m].from
           /\ disk[m].whole => disk'[m].whole
    BY <1>0, <2>4 DEF ClipFile
  <2>6. disk'[writing'].of = recording /\ InTime(writing', disk'[writing'].from)
        /\ InTime(writing', elapsed')
    BY <2>2, <2>3, <2>4
  <2>7. RecorderType' /\ RunningInTime'
    BY <2>2, <2>3, <2>4, <2>6 DEF InTime
  <2>8. NumberedInTime'
    <3> SUFFICES ASSUME NEW n \in DOMAIN disk'
                 PROVE  /\ disk'[n].of <= recording
                        /\ disk'[n].of = recording => InTime(n, disk'[n].from)
      BY <2>2 DEF InTime
    <3>1. CASE n = writing'
      BY <2>6, <3>1
    <3>2. CASE n # writing'
      BY <2>4, <2>5, <3>2
    <3> QED
      BY <3>1, <3>2
  <2>9. WholeOrTorn'
    BY <2>2, <2>4, <2>5
  <2> QED
    BY <1>c, <2>2, <2>7, <2>8, <2>9
<1>3. ASSUME StopRecording PROVE RecorderInv'
  <2>1. /\ proc' = "none" /\ UNCHANGED <<recording, writing, elapsed, catalog>>
        /\ \/ proc = "running" /\ disk' = [disk EXCEPT ![writing].whole = TRUE] /\ torn' = torn
           \/ proc = "running" /\ torn' = torn \union {recording} /\ disk' = disk
           \/ proc = "gone" /\ disk' = disk /\ torn' = torn
    BY <1>3 DEF StopRecording, Broken
  <2>2. CatalogDrift' /\ ChecksumOfWholeClip'
    BY <2>1 DEF CatalogDrift, ChecksumOfWholeClip
  <2>3. CASE proc = "running" /\ disk' = [disk EXCEPT ![writing].whole = TRUE] /\ torn' = torn
    <3>1. /\ DOMAIN disk' = DOMAIN disk
          /\ \A m \in DOMAIN disk \ {writing} : disk'[m] = disk[m]
          /\ disk'[writing] = [disk[writing] EXCEPT !.whole = TRUE]
      BY <2>3 DEF DiskType
    <3>2. \A m \in DOMAIN disk' :
             /\ disk'[m] \in ClipFile
             /\ disk'[m].of = disk[m].of /\ disk'[m].from = disk[m].from
             /\ disk[m].whole \/ m = writing => disk'[m].whole
      <4>1. writing \in DOMAIN disk
        BY <2>3
      <4>2. /\ disk'[writing] \in ClipFile /\ disk'[writing].whole
            /\ disk'[writing].of = disk[writing].of /\ disk'[writing].from = disk[writing].from
        BY <1>0, <3>1, <4>1 DEF ClipFile
      <4> HIDE DEF ClipFile
      <4> QED
        BY <1>0, <3>1, <4>2
    <3>3. DiskType'
      <4>1. PICK size \in Nat : disk \in [0..(size - 1) -> ClipFile]
        BY DEF DiskType
      <4>2. disk' \in [0..(size - 1) -> ClipFile]
        BY <2>3, <3>1, <3>2, <4>1
      <4> QED
        BY <4>2 DEF DiskType
    <3> QED
      BY <2>1, <2>2, <2>3, <3>1, <3>2, <3>3 DEF InTime
  <2>4. CASE /\ disk' = disk
             /\ \/ proc = "running" /\ torn' = torn \union {recording}
                \/ proc = "gone" /\ torn' = torn
    BY <2>1, <2>2, <2>4 DEF DiskType, InTime
  <2> QED
    BY <2>1, <2>3, <2>4
<1>4. ASSUME LoseStream PROVE RecorderInv'
  BY <1>4 DEF LoseStream, Broken, CatalogDrift, ChecksumOfWholeClip, DiskType, InTime
<1>5. ASSUME Catalog PROVE RecorderInv'
  <2>1. UNCHANGED <<proc, recording, disk, writing, elapsed, torn>>
    BY <1>5 DEF Catalog
  <2> DEFINE Row(rank) ==
        [of |-> recording, index |-> rank - 1, after |-> (rank - 1) * CatalogLen,
         clip |-> disk[Clips[rank]], live |-> proc = "running" /\ Clips[rank] = writing]
  <2>2. catalog' = catalog \union {Row(rank) : rank \in DOMAIN Clips}
    BY <1>5 DEF Catalog
  <2>3. ASSUME NEW rank \in DOMAIN Clips
        PROVE  /\ rank - 1 \in DOMAIN disk /\ rank - 1 \in Nat
               /\ Row(rank).clip = disk[rank - 1] /\ Row(rank).index = rank - 1
               /\ Row(rank).after = (rank - 1) * CatalogLen
               /\ Row(rank).of = recording
               /\ Row(rank).live <=> proc = "running" /\ rank - 1 = writing
    <3>1. rank \in Nat /\ rank - 1 \in DOMAIN disk /\ Clips[rank] = rank - 1
      BY ClipOfRank
    <3>2. rank - 1 \in Nat
      BY <3>1 DEF DiskType
    <3> QED BY <3>1, <3>2
  <2> HIDE DEF Row
  <2>4. ASSUME NEW rank \in DOMAIN Clips, Row(rank).clip.of = Row(rank).of
        PROVE  LET row == Row(rank) IN
               /\ row.index * (CatalogLen - SegmentLen - KeyframeGap) <= row.after - row.clip.from
               /\ row.after - row.clip.from <= row.index * (CatalogLen - SegmentLen + KeyframeGap)
    <3>1. disk[rank - 1].of = recording /\ disk[rank - 1].from \in Nat
      BY <1>0, <2>3, <2>4 DEF ClipFile
    <3>2. InTime(rank - 1, disk[rank - 1].from)
      BY <2>3, <3>1
    <3> QED BY <2>3, <3>1, <3>2, Drift
  <2>5. CatalogDrift'
    BY <2>2, <2>4 DEF CatalogDrift
  <2>6. ASSUME NEW rank \in DOMAIN Clips
        PROVE  Row(rank).clip.whole \/ Row(rank).live \/ Row(rank).clip.of \in torn
    BY <2>3, <2>6
  <2>7. ChecksumOfWholeClip'
    BY <2>1, <2>2, <2>6 DEF ChecksumOfWholeClip
  <2> QED
    BY <2>1, <2>5, <2>7 DEF DiskType, InTime
<1>6. ASSUME UNCHANGED liveVars PROVE RecorderInv'
  BY <1>6 DEF liveVars, CatalogDrift, ChecksumOfWholeClip, DiskType, InTime
<1> QED
  BY <1>1, <1>2, <1>3, <1>4, <1>5, <1>6 DEF SourceNext, Live, sourceVars

\* The rows of the recording that is catalogued are in its order, and off by what the two
\* clip lengths differ, added up, give or take the distance of keyframes, however many
\* recordings filled the directory and however they ended (catalog_live_clips).
THEOREM DriftIsBounded == SourceSpec => []CatalogDrift
<1>1. RecorderInv => CatalogDrift
  BY DEF RecorderInv
<1> QED
  BY <1>1, RecorderInit, RecorderNext, PTL DEF SourceSpec

\* Only a clip that is being written or was cut off is catalogued unfinished.
THEOREM ChecksumsWhole == SourceSpec => []ChecksumOfWholeClip
<1>1. RecorderInv => ChecksumOfWholeClip
  BY DEF RecorderInv
<1> QED
  BY <1>1, RecorderInit, RecorderNext, PTL DEF SourceSpec

=============================================================================
