--------------------------- MODULE CvWorkerProofs ---------------------------
(***************************************************************************)
(* Proofs about Tracker and CvWorker for any number of processes, any      *)
(* clips and windows, and a cache of any size: what one update and one     *)
(* pass of the tracker guarantee, what the ids of a process mean, what the *)
(* cache of decoded clips keeps, and how many rows a track gets.  The      *)
(* recursive functions of Tracker are unfolded and reasoned about with an  *)
(* induction principle for sets of naturals, got from the well-foundedness *)
(* of the naturals.                                                        *)
(***************************************************************************)
EXTENDS CvWorker, FiniteSetTheorems, SequenceTheorems, WellFoundedInduction, TLAPS

-----------------------------------------------------------------------------
(* Induction *)

Less == {p \in Nat \X Nat : p[1] < p[2]}

LEMMA LessIsWellFounded == IsWellFoundedOn(Less, Nat)
  BY NatLessThanWellFounded DEF OpToRel, Less

LEMMA Least ==
  ASSUME NEW T, T \subseteq Nat, T # {}
  PROVE  \E x \in T : \A y \in T : x <= y
<1>1. PICK x \in T : \A y \in T : <<y, x>> \notin Less
  BY LessIsWellFounded, WFMin
<1>2. ASSUME NEW y \in T, y < x PROVE FALSE
  <2>1. <<y, x>> \in Nat \X Nat /\ <<y, x>>[1] < <<y, x>>[2]
    BY <1>2
  <2>2. <<y, x>> \in Less
    BY <2>1 DEF Less
  <2> QED
    BY <1>1, <2>2
<1> QED
  BY <1>2

LEMMA Induction ==
  ASSUME NEW S, 0 \in S, \A n \in Nat : n \in S => n + 1 \in S
  PROVE  Nat \subseteq S
<1> SUFFICES ASSUME NEW m \in Nat, m \notin S PROVE FALSE
  OBVIOUS
<1> DEFINE T == Nat \ S
<1>1. PICK x \in T : \A y \in T : x <= y
  <2>1. T \subseteq Nat /\ T # {}
    OBVIOUS
  <2> HIDE DEF T
  <2> QED
    BY <2>1, Least
<1>2. x # 0 /\ x - 1 \in Nat
  BY <1>1
<1>3. x - 1 \in S
  BY <1>1, <1>2
<1> QED
  BY <1>1, <1>2, <1>3

-----------------------------------------------------------------------------
(* Association *)

Det == [label : Label, at : Int]
Track == [id : Nat, label : Label, at : Int, last : Int]

\* Live tracks of a camera: different ones have different ids.
LiveOK(live) ==
    /\ live \subseteq Track
    /\ \A k, l \in live : k.id = l.id => k = l

Free(dets, live, done) == {p \in Candidates(dets, live) : \A q \in done : ~Clash(p, q)}

NextRound(dets, live, done) ==
    IF Free(dets, live, done) = {} THEN done
    ELSE done \union {Best(dets, Free(dets, live, done))}

\* The rounds of the association are what their recursive definition says.
LEMMA RoundsUnfold ==
  ASSUME NEW dets, NEW live, Len(dets) \in Nat
  PROVE  /\ Rounds(dets, live)[0] = {}
         /\ \A n \in 1..Len(dets) :
               Rounds(dets, live)[n] = NextRound(dets, live, Rounds(dets, live)[n - 1])
<1> DEFINE More(d) == NextRound(dets, live, d)
           Is(g, m) == g = [n \in 0..m |-> IF n = 0 THEN {} ELSE More(g[n - 1])]
           S == {m \in Nat : \E g : Is(g, m)}
           N == Len(dets)
<1>1. Rounds(dets, live) = CHOOSE g : Is(g, N)
  BY DEF Rounds, NextRound, Free
<1> HIDE DEF More
<1>2. 0 \in S
  <2>1. Is([n \in 0..0 |-> {}], 0)
    OBVIOUS
  <2> HIDE DEF Is
  <2> QED
    BY <2>1
<1>3. ASSUME NEW m \in Nat, m \in S PROVE m + 1 \in S
  <2>1. PICK g : Is(g, m)
    BY <1>3
  <2> DEFINE h == [n \in 0..(m + 1) |-> IF n = m + 1 THEN More(g[m]) ELSE g[n]]
  <2>2. \A n \in 0..m : g[n] = IF n = 0 THEN {} ELSE More(g[n - 1])
    BY <2>1
  <2>3. \A n \in 0..(m + 1) : h[n] = IF n = 0 THEN {} ELSE More(h[n - 1])
    <3> SUFFICES ASSUME NEW n \in 0..(m + 1)
                 PROVE  h[n] = IF n = 0 THEN {} ELSE More(h[n - 1])
      OBVIOUS
    <3>1. CASE n = m + 1
      BY <3>1
    <3>2. CASE n # m + 1 /\ n # 0
      <4>1. n \in 0..m /\ n - 1 \in 0..m /\ n - 1 # m + 1
        BY <3>2
      <4> QED
        BY <2>2, <3>2, <4>1
    <3>3. CASE n # m + 1 /\ n = 0
      BY <2>2, <3>3
    <3> QED
      BY <3>1, <3>2, <3>3
  <2>4. h = [n \in 0..(m + 1) |-> h[n]]
    OBVIOUS
  <2> HIDE DEF h
  <2>5. Is(h, m + 1)
    BY <2>3, <2>4
  <2>6. m + 1 \in Nat
    OBVIOUS
  <2> HIDE DEF Is
  <2> QED
    BY <2>5, <2>6
<1>4. \E g : Is(g, N)
  <2> HIDE DEF Is
  <2>1. Nat \subseteq S
    <3> HIDE DEF S
    <3> QED
      BY <1>2, <1>3, Induction
  <2> QED
    BY <2>1
<1>5. Is(Rounds(dets, live), N)
  <2> HIDE DEF Is
  <2> QED
    BY <1>1, <1>4
<1> DEFINE R == Rounds(dets, live)
<1>6. R = [n \in 0..N |-> IF n = 0 THEN {} ELSE More(R[n - 1])]
  BY <1>5
<1> HIDE DEF R, N
<1>7. N \in Nat
  BY DEF N
<1>8. ASSUME NEW n \in 0..N PROVE R[n] = IF n = 0 THEN {} ELSE More(R[n - 1])
  <2> DEFINE f(i) == IF i = 0 THEN {} ELSE More(R[i - 1])
  <2>1. R = [i \in 0..N |-> f(i)]
    BY <1>6
  <2> HIDE DEF f
  <2>2. R[n] = f(n)
    BY <2>1
  <2> QED
    BY <2>2 DEF f
<1>9. R[0] = {}
  <2>1. 0 \in 0..N
    BY <1>7
  <2> QED
    BY <1>8, <2>1
<1>10. ASSUME NEW n \in 1..N PROVE R[n] = More(R[n - 1])
  <2>1. n \in 0..N /\ n # 0
    BY <1>7
  <2> QED
    BY <1>8, <2>1
<1> QED
  BY <1>9, <1>10 DEF More, R, N

\* A set of pairs that has any has a best one.
LEMMA BestExists ==
  ASSUME NEW dets \in Seq(Det), NEW live, LiveOK(live),
         NEW pairs, pairs \subseteq (DOMAIN dets) \X live, pairs # {}
  PROVE  Best(dets, pairs) \in pairs
<1> DEFINE gap(r) == Distance(dets[r[1]].at, r[2].at)
           G == {gap(p) : p \in pairs}
<1>1. \A p \in pairs : p[1] \in Nat /\ p[2] \in live /\ gap(p) \in Nat /\ p[2].id \in Nat
  <2> SUFFICES ASSUME NEW p \in pairs
               PROVE  p[1] \in Nat /\ p[2] \in live /\ gap(p) \in Nat /\ p[2].id \in Nat
    OBVIOUS
  <2>1. p[1] \in DOMAIN dets /\ p[2] \in live
    OBVIOUS
  <2>2. p[1] \in Nat /\ dets[p[1]].at \in Int
    <3>1. DOMAIN dets = 1..Len(dets) /\ Len(dets) \in Nat
      OBVIOUS
    <3>2. p[1] \in Nat /\ dets[p[1]] \in Det
      BY <2>1, <3>1
    <3> QED
      BY <3>2 DEF Det
  <2>3. p[2].id \in Nat /\ p[2].at \in Int
    BY <2>1 DEF LiveOK, Track
  <2>4. \A a, b \in Int : Distance(a, b) \in Nat
    BY DEF Distance
  <2> QED
    BY <2>1, <2>2, <2>3, <2>4
<1>2. \A p \in pairs : p = <<p[1], p[2]>>
  OBVIOUS
<1> HIDE DEF gap
<1>3. PICK g \in G : \A h \in G : g <= h
  <2>1. G \subseteq Nat /\ G # {}
    BY <1>1
  <2> HIDE DEF G
  <2> QED
    BY <2>1, Least
<1> DEFINE P == {p \in pairs : gap(p) = g}
           D == {p[1] : p \in P}
<1>4. PICK d \in D : \A e \in D : d <= e
  <2>1. D \subseteq Nat /\ D # {}
    BY <1>1, <1>3
  <2> HIDE DEF D
  <2> QED
    BY <2>1, Least
<1> DEFINE Q == {p \in P : p[1] = d}
           I == {p[2].id : p \in Q}
<1>5. PICK i \in I : \A j \in I : i <= j
  <2>1. I \subseteq Nat /\ I # {}
    BY <1>1, <1>4
  <2> HIDE DEF I
  <2> QED
    BY <2>1, Least
<1>6. PICK p \in pairs : gap(p) = g /\ p[1] = d /\ p[2].id = i
  BY <1>5
<1>7. ASSUME NEW q \in pairs, q # p PROVE Order(dets, p, q)
  <2>1. g \in Nat /\ gap(q) \in Nat /\ g <= gap(q)
    BY <1>1, <1>3
  <2>2. CASE gap(q) # g
    BY <1>6, <2>1, <2>2 DEF Order, gap
  <2>3. CASE gap(q) = g /\ q[1] # d
    <3>1. q[1] \in D /\ d <= q[1] /\ d \in Nat /\ q[1] \in Nat
      BY <1>1, <1>4, <1>6, <2>3
    <3> QED
      BY <1>6, <2>3, <3>1 DEF Order, gap
  <2>4. CASE gap(q) = g /\ q[1] = d
    <3>1. q[2].id \in I
      BY <2>4
    <3>2. i <= q[2].id
      BY <1>5, <3>1
    <3>3. q[2].id # i
      BY <1>1, <1>2, <1>6, <1>7, <2>4 DEF LiveOK
    <3>4. i \in Nat /\ q[2].id \in Nat
      BY <1>1, <1>6
    <3>5. i < q[2].id
      BY <3>2, <3>3, <3>4
    <3> QED
      BY <1>6, <2>4, <3>5 DEF Order, gap
  <2> QED
    BY <2>2, <2>3, <2>4
<1> QED
  BY <1>7 DEF Best

Matching(dets, live, pairs) ==
    /\ pairs \subseteq Candidates(dets, live)
    /\ \A p, q \in pairs : Clash(p, q) => p = q

\* Association: every pair passes the gate, and a detection and a track are in one at most.
LEMMA AssignmentMatches ==
  ASSUME NEW dets \in Seq(Det), NEW live, LiveOK(live)
  PROVE  Matching(dets, live, Assignment(dets, live))
<1> DEFINE R == Rounds(dets, live)
           N == Len(dets)
           S == {n \in Nat : n <= N => Matching(dets, live, R[n])}
<1>0. N \in Nat
  OBVIOUS
<1>1. /\ R[0] = {}
      /\ \A n \in 1..N : R[n] = NextRound(dets, live, R[n - 1])
  BY RoundsUnfold
<1> HIDE DEF R, N
<1>2. 0 \in S
  BY <1>1 DEF Matching
<1>3. ASSUME NEW n \in Nat, n \in S PROVE n + 1 \in S
  <2> SUFFICES ASSUME n + 1 <= N PROVE Matching(dets, live, R[n + 1])
    OBVIOUS
  <2>1. Matching(dets, live, R[n]) /\ R[n + 1] = NextRound(dets, live, R[n])
    <3>1. n + 1 \in 1..N /\ (n + 1) - 1 = n /\ n <= N
      BY <1>0
    <3> QED
      BY <1>1, <1>3, <3>1
  <2> DEFINE F == Free(dets, live, R[n])
             b == Best(dets, F)
  <2>2. CASE F = {}
    BY <2>1, <2>2 DEF NextRound
  <2>3. CASE F # {}
    <3>1. F \subseteq Candidates(dets, live) /\ Candidates(dets, live) \subseteq (DOMAIN dets) \X live
      BY DEF Free, Candidates
    <3>2. b \in F
      <4> HIDE DEF F
      <4> QED
        BY <2>3, <3>1, BestExists
    <3>3. R[n + 1] = R[n] \union {b}
      BY <2>1, <2>3 DEF NextRound
    <3>4. \A q \in R[n] : ~Clash(b, q) /\ ~Clash(q, b)
      BY <3>2 DEF Free, Clash
    <3> HIDE DEF F, b
    <3> QED
      BY <2>1, <3>1, <3>2, <3>3, <3>4 DEF Matching
  <2> QED
    BY <2>2, <2>3
<1>4. N \in S
  <2> HIDE DEF S
  <2> QED
    BY <1>0, <1>2, <1>3, Induction
<1> QED
  BY <1>0, <1>4 DEF Assignment, R, N

-----------------------------------------------------------------------------
(* One update of the tracker *)

Below(F, i) == {j \in F : j < i}

\* The members of a finite set of naturals are counted from 0 in their order.
LEMMA CountBelow ==
  ASSUME NEW F, IsFiniteSet(F), F \subseteq Nat
  PROVE  /\ Cardinality(F) \in Nat
         /\ \A i \in F : Cardinality(Below(F, i)) \in Nat
         /\ \A i \in F : Cardinality(Below(F, i)) < Cardinality(F)
         /\ \A i, j \in F : i < j => Cardinality(Below(F, i)) < Cardinality(Below(F, j))
<1>1. \A S \in SUBSET F : IsFiniteSet(S) /\ Cardinality(S) \in Nat
  BY FS_Subset, FS_CardinalityType
<1>2. ASSUME NEW S \in SUBSET F, NEW R \in SUBSET F, S \subseteq R, S # R
      PROVE  Cardinality(S) < Cardinality(R)
  <2>1. IsFiniteSet(R) /\ Cardinality(S) \in Nat /\ Cardinality(R) \in Nat
    BY <1>1
  <2>2. Cardinality(S) <= Cardinality(R) /\ (Cardinality(R) = Cardinality(S) => R = S)
    BY <1>2, <2>1, FS_Subset
  <2> QED
    BY <1>2, <2>1, <2>2
<1>3. \A i : Below(F, i) \in SUBSET F
  BY DEF Below
<1>4. \A i \in F : i \in F /\ i \notin Below(F, i)
  BY DEF Below
<1>5. ASSUME NEW i \in F, NEW j \in F, i < j
      PROVE  Cardinality(Below(F, i)) < Cardinality(Below(F, j))
  <2>1. \A n \in F : n \in Nat
    OBVIOUS
  <2>2. i \in Nat /\ ~(i < i)
    BY <2>1
  <2>3. Below(F, i) \subseteq Below(F, j)
    <3>1. \A k \in F : k < i => k < j
      BY <1>5, <2>1
    <3> QED
      BY <3>1 DEF Below
  <2>4. i \in Below(F, j) /\ i \notin Below(F, i)
    BY <1>5, <2>2 DEF Below
  <2>5. Below(F, i) # Below(F, j)
    BY <2>4
  <2> QED
    BY <1>2, <1>3, <2>3, <2>5
<1>6. ASSUME NEW i \in F PROVE Cardinality(Below(F, i)) < Cardinality(F)
  BY <1>2, <1>3, <1>4
<1> QED
  BY <1>1, <1>3, <1>5, <1>6

\* A tracker of a process: every id was given out, and to one live track of its camera.
TrackerOK(tr) ==
    /\ tr \in [tracks : [Camera -> SUBSET Track], next : Nat]
    /\ \A c \in Camera : LiveOK(tr.tracks[c]) /\ \A k \in tr.tracks[c] : k.id < tr.next

\* What an update makes of a tracker: the detections of the picture get different ids, each
\* a new one or that of a live track of the camera with the same label, last seen recently
\* enough; the live tracks are then the others and those just seen.
Updated(old, dets, camera, t, new, ids) ==
    /\ TrackerOK(new) /\ old.next <= new.next
    /\ ids \in [DOMAIN dets -> Nat]
    /\ \A i, j \in DOMAIN dets : ids[i] = ids[j] => i = j
    /\ \A i \in DOMAIN dets :
          /\ ids[i] < new.next
          /\ \/ old.next <= ids[i]
             \/ \E k \in old.tracks[camera] :
                   k.id = ids[i] /\ k.label = dets[i].label /\ t - k.last <= MaxAge
    /\ \A c \in Camera : c # camera => new.tracks[c] = old.tracks[c]
    /\ \A k \in new.tracks[camera] :
          \/ k \in old.tracks[camera] /\ \A i \in DOMAIN dets : ids[i] # k.id
          \/ \E i \in DOMAIN dets : k.id = ids[i] /\ k.label = dets[i].label /\ k.last = t

LEMMA UpdateFacts ==
  ASSUME NEW tr, TrackerOK(tr), NEW dets \in Seq(Det), NEW camera \in Camera, NEW t \in Nat
  PROVE  Updated(tr, dets, camera, t, Update(tr, dets, camera, t).tracker,
                 Update(tr, dets, camera, t).ids)
<1> DEFINE live == Retired(tr.tracks[camera], t)
           pairs == Assignment(dets, live)
           D == DOMAIN dets
           F == {i \in D : \A p \in pairs : p[1] # i}
           idOf(i) == IF i \in F THEN tr.next + Cardinality({j \in F : j < i})
                      ELSE (CHOOSE p \in pairs : p[1] = i)[2].id
           trk(i) == [id |-> idOf(i), label |-> dets[i].label, at |-> dets[i].at, last |-> t]
           rest == {k \in live : \A p \in pairs : p[2] # k}
           next == tr.next + Cardinality(F)
           new == rest \union {trk(i) : i \in D}
           ids == [i \in D |-> idOf(i)]
           tracks == [tr.tracks EXCEPT ![camera] = new]
<1>1. Update(tr, dets, camera, t) =
        [tracker |-> [tracks |-> tracks, next |-> next], ids |-> ids]
  BY DEF Update
<1>2. /\ D \subseteq Nat /\ IsFiniteSet(D)
      /\ \A i \in D : dets[i].label \in Label /\ dets[i].at \in Int
  <2>1. D = 1..Len(dets) /\ Len(dets) \in Nat
    OBVIOUS
  <2>2. \A i \in D : dets[i] \in Det
    BY <2>1
  <2>3. IsFiniteSet(1..Len(dets))
    BY <2>1, FS_Interval
  <2> QED
    BY <2>1, <2>2, <2>3 DEF Det
<1>3. /\ tr.next \in Nat /\ tr.tracks \in [Camera -> SUBSET Track]
      /\ LiveOK(live) /\ live \subseteq tr.tracks[camera]
      /\ \A k \in live : k.id < tr.next /\ k.id \in Nat /\ t - k.last <= MaxAge
  BY DEF TrackerOK, LiveOK, Retired, Track
<1>4. Matching(dets, live, pairs)
  BY <1>3, AssignmentMatches
<1> HIDE DEF live, pairs
<1>5. \A p \in pairs : p[1] \in D /\ p[2] \in live /\ dets[p[1]].label = p[2].label
  BY <1>4 DEF Matching, Candidates
<1>6. \A p, q \in pairs : p[1] = q[1] \/ p[2] = q[2] => p = q
  BY <1>4 DEF Matching, Clash
<1>7. ASSUME NEW i \in D, i \notin F
      PROVE  \E p \in pairs : p[1] = i /\ idOf(i) = p[2].id
  <2>1. (CHOOSE p \in pairs : p[1] = i) \in pairs /\ (CHOOSE p \in pairs : p[1] = i)[1] = i
    BY <1>7
  <2> QED
    BY <1>7, <2>1
<1>8. /\ Cardinality(F) \in Nat
      /\ \A i \in F : idOf(i) \in Nat /\ tr.next <= idOf(i) /\ idOf(i) < next
      /\ \A i, j \in F : idOf(i) = idOf(j) => i = j
  <2>1. IsFiniteSet(F) /\ F \subseteq Nat
    <3>1. F \in SUBSET D
      OBVIOUS
    <3> HIDE DEF F
    <3> QED
      BY <1>2, <3>1, FS_Subset
  <2>2. \A i \in F : idOf(i) = tr.next + Cardinality(Below(F, i))
    BY DEF Below
  <2> HIDE DEF F, idOf
  <2>3. /\ Cardinality(F) \in Nat
        /\ \A i \in F : Cardinality(Below(F, i)) \in Nat
        /\ \A i \in F : Cardinality(Below(F, i)) < Cardinality(F)
        /\ \A i, j \in F : i < j => Cardinality(Below(F, i)) < Cardinality(Below(F, j))
    BY <2>1, CountBelow
  <2>4. \A i \in F : idOf(i) \in Nat /\ tr.next <= idOf(i) /\ idOf(i) < next
    BY <1>3, <2>2, <2>3
  <2>5. ASSUME NEW i \in F, NEW j \in F, i < j PROVE idOf(i) # idOf(j)
    BY <1>3, <2>2, <2>3, <2>5
  <2>6. ASSUME NEW i \in F, NEW j \in F, idOf(i) = idOf(j) PROVE i = j
    <3>1. i \in Nat /\ j \in Nat
      BY <2>1
    <3> QED
      BY <2>5, <2>6, <3>1
  <2> QED
    BY <2>3, <2>4, <2>6
<1> HIDE DEF idOf
<1>9. \A i \in D : i \notin F => idOf(i) \in Nat /\ idOf(i) < tr.next
  BY <1>3, <1>5, <1>7
<1>10. ASSUME NEW i \in D, NEW j \in D, idOf(i) = idOf(j) PROVE i = j
  <2>1. CASE i \in F /\ j \in F
    BY <1>8, <1>10, <2>1
  <2>2. CASE i \notin F /\ j \notin F
    <3>1. PICK p \in pairs : p[1] = i /\ idOf(i) = p[2].id
      BY <1>7, <2>2
    <3>2. PICK q \in pairs : q[1] = j /\ idOf(j) = q[2].id
      BY <1>7, <2>2
    <3>3. p[2] = q[2]
      BY <1>3, <1>5, <1>10, <3>1, <3>2 DEF LiveOK
    <3> QED
      BY <1>6, <3>1, <3>2, <3>3
  <2>3. CASE (i \in F /\ j \notin F) \/ (i \notin F /\ j \in F)
    <3>1. \A a \in F, b \in D : b \notin F => idOf(a) # idOf(b)
      BY <1>3, <1>8, <1>9
    <3> QED
      BY <1>10, <2>3, <3>1
  <2> QED
    BY <2>1, <2>2, <2>3
<1>11. \A k \in rest, i \in D : k.id # idOf(i)
  <2> SUFFICES ASSUME NEW k \in rest, NEW i \in D, k.id = idOf(i) PROVE FALSE
    OBVIOUS
  <2>1. k \in live /\ k.id < tr.next /\ k.id \in Nat
    BY <1>3
  <2>2. CASE i \in F
    BY <1>3, <1>8, <2>1, <2>2
  <2>3. CASE i \notin F
    <3>1. PICK p \in pairs : p[1] = i /\ idOf(i) = p[2].id
      BY <1>7, <2>3
    <3>2. p[2] = k
      BY <1>3, <1>5, <2>1, <3>1 DEF LiveOK
    <3> QED
      BY <3>2
  <2> QED
    BY <2>2, <2>3
<1>12. \A i \in D : idOf(i) \in Nat /\ idOf(i) < next
  <2>1. \A i \in F : idOf(i) \in Nat /\ idOf(i) < next
    BY <1>8
  <2>2. tr.next <= next /\ next \in Nat
    BY <1>3, <1>8
  <2>3. \A i \in D : i \notin F => idOf(i) \in Nat /\ idOf(i) < next
    <3> HIDE DEF next
    <3> QED
      BY <1>3, <1>9, <2>2
  <2> HIDE DEF F, next
  <2> QED
    BY <2>1, <2>3
<1>13. \A i \in D : \/ tr.next <= idOf(i)
                    \/ \E k \in tr.tracks[camera] :
                          k.id = idOf(i) /\ k.label = dets[i].label /\ t - k.last <= MaxAge
  <2> SUFFICES ASSUME NEW i \in D, i \notin F
               PROVE  \E k \in tr.tracks[camera] :
                         k.id = idOf(i) /\ k.label = dets[i].label /\ t - k.last <= MaxAge
    BY <1>8
  <2>1. PICK p \in pairs : p[1] = i /\ idOf(i) = p[2].id
    BY <1>7
  <2> QED
    BY <1>3, <1>5, <2>1
<1>14. /\ tr.next <= next /\ next \in Nat
       /\ rest \subseteq live
       /\ F \subseteq D
  BY <1>3, <1>8
<1> HIDE DEF F, next, rest
<1>15. ASSUME NEW k \in new
       PROVE  /\ k \in Track /\ k.id < next
              /\ \/ k \in rest
                 \/ \E i \in D : k = trk(i)
  <2>1. CASE k \in rest
    <3>1. k \in Track /\ k.id < tr.next /\ k.id \in Nat
      BY <1>3, <1>14, <2>1 DEF LiveOK
    <3> QED
      BY <1>3, <1>14, <2>1, <3>1
  <2>2. CASE k \notin rest
    <3>1. PICK i \in D : k = trk(i)
      BY <2>2
    <3>2. k \in Track /\ k.id = idOf(i)
      BY <1>2, <1>12, <3>1 DEF Track
    <3> QED
      BY <1>12, <3>1, <3>2
  <2> QED
    BY <2>1, <2>2
<1>16. LiveOK(new)
  <2>1. new \subseteq Track
    BY <1>15
  <2>2. ASSUME NEW k \in new, NEW l \in new, k.id = l.id PROVE k = l
    <3>1. CASE k \in rest /\ l \in rest
      BY <1>3, <1>14, <2>2, <3>1 DEF LiveOK
    <3>2. CASE k \notin rest /\ l \notin rest
      <4>1. PICK i \in D : k = trk(i)
        BY <1>15, <3>2
      <4>2. PICK j \in D : l = trk(j)
        BY <1>15, <3>2
      <4>3. idOf(i) = idOf(j)
        BY <2>2, <4>1, <4>2
      <4> QED
        BY <1>10, <4>1, <4>2, <4>3
    <3>3. ASSUME NEW a \in rest, NEW b \in new, b \notin rest PROVE a.id # b.id
      <4>1. PICK j \in D : b = trk(j)
        BY <1>15, <3>3
      <4> QED
        BY <1>11, <4>1
    <3> QED
      BY <2>2, <3>1, <3>2, <3>3
  <2> QED
    BY <2>1, <2>2 DEF LiveOK
<1> DEFINE tr2 == [tracks |-> tracks, next |-> next]
<1>17. /\ tracks \in [Camera -> SUBSET Track]
       /\ tracks[camera] = new
       /\ \A c \in Camera : c # camera => tracks[c] = tr.tracks[c]
  <2>1. new \in SUBSET Track
    BY <1>16 DEF LiveOK
  <2> HIDE DEF new
  <2> QED
    BY <1>3, <2>1
<1> HIDE DEF new, tracks
<1>18. TrackerOK(tr2)
  <2>1. ASSUME NEW c \in Camera
        PROVE  LiveOK(tracks[c]) /\ \A k \in tracks[c] : k.id < next
    <3>1. CASE c = camera
      BY <1>15, <1>16, <1>17, <3>1
    <3>2. CASE c # camera
      <4>1. tracks[c] = tr.tracks[c] /\ LiveOK(tr.tracks[c])
        BY <1>17, <3>2 DEF TrackerOK
      <4>2. \A k \in tr.tracks[c] : k.id < tr.next /\ k.id \in Nat
        BY <4>1 DEF TrackerOK, LiveOK, Track
      <4> QED
        BY <1>3, <1>14, <4>1, <4>2
    <3> QED
      BY <3>1, <3>2
  <2> QED
    BY <1>14, <1>17, <2>1 DEF TrackerOK
<1>19. \A k \in tr2.tracks[camera] :
          \/ k \in tr.tracks[camera] /\ \A i \in D : idOf(i) # k.id
          \/ \E i \in D : k.id = idOf(i) /\ k.label = dets[i].label /\ k.last = t
  <2> SUFFICES ASSUME NEW k \in new
               PROVE  \/ k \in tr.tracks[camera] /\ \A i \in D : idOf(i) # k.id
                      \/ \E i \in D : k.id = idOf(i) /\ k.label = dets[i].label /\ k.last = t
    BY <1>17
  <2>1. CASE k \in rest
    BY <1>3, <1>11, <1>14, <2>1
  <2>2. CASE k \notin rest
    <3>1. PICK i \in D : k = trk(i)
      BY <1>15, <2>2
    <3> QED
      BY <3>1
  <2> QED
    BY <2>1, <2>2
<1>20. /\ ids \in [D -> Nat]
       /\ \A i \in D : ids[i] = idOf(i)
  BY <1>12
<1> HIDE DEF ids, D, tr2
<1>21. Updated(tr, dets, camera, t, tr2, ids)
  <2>1. tr2.next = next /\ tr2.tracks = tracks
    BY DEF tr2
  <2> QED
    BY <1>10, <1>12, <1>13, <1>14, <1>17, <1>18, <1>19, <1>20, <2>1 DEF Updated, D
<1> QED
  BY <1>1, <1>21 DEF tr2, D

-----------------------------------------------------------------------------
(* One pass over a clip *)

NextTracker(clip, camera, i, tr) ==
    IF i \in Gated(clip) /\ clip[i].dets # <<>>
    THEN Update(tr, clip[i].dets, camera, i - 1).tracker
    ELSE tr

\* The trackers of a pass are what their recursive definition says.
LEMMA TrailUnfold ==
  ASSUME NEW tr, NEW clip, NEW camera, Len(clip) \in Nat
  PROVE  /\ Trail(tr, clip, camera)[0] = tr
         /\ \A n \in 1..Len(clip) :
               Trail(tr, clip, camera)[n]
                 = NextTracker(clip, camera, n, Trail(tr, clip, camera)[n - 1])
<1> DEFINE More(n, d) == NextTracker(clip, camera, n, d)
           Is(g, m) == g = [n \in 0..m |-> IF n = 0 THEN tr ELSE More(n, g[n - 1])]
           S == {m \in Nat : \E g : Is(g, m)}
           N == Len(clip)
<1>1. Trail(tr, clip, camera) = CHOOSE g : Is(g, N)
  BY DEF Trail, NextTracker
<1> HIDE DEF More
<1>2. 0 \in S
  <2>1. Is([n \in 0..0 |-> tr], 0)
    OBVIOUS
  <2> HIDE DEF Is
  <2> QED
    BY <2>1
<1>3. ASSUME NEW m \in Nat, m \in S PROVE m + 1 \in S
  <2>1. PICK g : Is(g, m)
    BY <1>3
  <2> DEFINE h == [n \in 0..(m + 1) |-> IF n = m + 1 THEN More(m + 1, g[m]) ELSE g[n]]
  <2>2. \A n \in 0..m : g[n] = IF n = 0 THEN tr ELSE More(n, g[n - 1])
    BY <2>1
  <2>3. \A n \in 0..(m + 1) : h[n] = IF n = 0 THEN tr ELSE More(n, h[n - 1])
    <3> SUFFICES ASSUME NEW n \in 0..(m + 1)
                 PROVE  h[n] = IF n = 0 THEN tr ELSE More(n, h[n - 1])
      OBVIOUS
    <3>1. CASE n = m + 1
      BY <3>1
    <3>2. CASE n # m + 1 /\ n # 0
      <4>1. n \in 0..m /\ n - 1 \in 0..m /\ n - 1 # m + 1
        BY <3>2
      <4> QED
        BY <2>2, <3>2, <4>1
    <3>3. CASE n # m + 1 /\ n = 0
      BY <2>2, <3>3
    <3> QED
      BY <3>1, <3>2, <3>3
  <2>4. h = [n \in 0..(m + 1) |-> h[n]]
    OBVIOUS
  <2> HIDE DEF h
  <2>5. Is(h, m + 1)
    BY <2>3, <2>4
  <2>6. m + 1 \in Nat
    OBVIOUS
  <2> HIDE DEF Is
  <2> QED
    BY <2>5, <2>6
<1>4. \E g : Is(g, N)
  <2> HIDE DEF Is
  <2>1. Nat \subseteq S
    <3> HIDE DEF S
    <3> QED
      BY <1>2, <1>3, Induction
  <2> QED
    BY <2>1
<1>5. Is(Trail(tr, clip, camera), N)
  <2> HIDE DEF Is
  <2> QED
    BY <1>1, <1>4
<1> DEFINE R == Trail(tr, clip, camera)
<1>6. R = [n \in 0..N |-> IF n = 0 THEN tr ELSE More(n, R[n - 1])]
  BY <1>5
<1> HIDE DEF R, N
<1>7. N \in Nat
  BY DEF N
<1>8. ASSUME NEW n \in 0..N PROVE R[n] = IF n = 0 THEN tr ELSE More(n, R[n - 1])
  <2> DEFINE f(i) == IF i = 0 THEN tr ELSE More(i, R[i - 1])
  <2>1. R = [i \in 0..N |-> f(i)]
    BY <1>6
  <2> HIDE DEF f
  <2>2. R[n] = f(n)
    BY <2>1
  <2> QED
    BY <2>2 DEF f
<1>9. R[0] = tr
  <2>1. 0 \in 0..N
    BY <1>7
  <2> QED
    BY <1>8, <2>1
<1>10. ASSUME NEW n \in 1..N PROVE R[n] = More(n, R[n - 1])
  <2>1. n \in 0..N /\ n # 0
    BY <1>7
  <2> QED
    BY <1>8, <2>1
<1> QED
  BY <1>9, <1>10 DEF More, R, N

\* A ledger says what an id stands for; it is kept for the ids below the given one, and is
\* right for the live tracks and the detections of the camera.
Named(ledger, known, camera, tr, dets) ==
    \E l : /\ \A x \in Nat : x < known => l[x] = ledger[x]
           /\ \A c \in Camera : \A k \in tr.tracks[c] : l[k.id] = <<c, k.label>>
           /\ \A d \in dets : l[d.id] = <<camera, d.label>>

LEMMA NamedStays ==
  ASSUME NEW tr, NEW tr2, NEW pics, NEW camera \in Camera, NEW t, NEW ids,
         NEW ledger, NEW known \in Nat, NEW dets,
         TrackerOK(tr), known <= tr.next, Named(ledger, known, camera, tr, dets),
         \A d \in dets : d.id \in Nat /\ d.id < tr.next,
         Updated(tr, pics, camera, t, tr2, ids)
  PROVE  Named(ledger, known, camera, tr2, dets \union Identified(pics, ids, t))
<1>1. PICK l : /\ \A x \in Nat : x < known => l[x] = ledger[x]
               /\ \A c \in Camera : \A k \in tr.tracks[c] : l[k.id] = <<c, k.label>>
               /\ \A d \in dets : l[d.id] = <<camera, d.label>>
  BY DEF Named
<1> DEFINE m == [x \in Nat |-> IF x < tr.next THEN l[x]
                               ELSE <<camera, pics[CHOOSE i \in DOMAIN pics : ids[i] = x].label>>]
<1>2. /\ ids \in [DOMAIN pics -> Nat] /\ tr.next \in Nat
      /\ \A i, j \in DOMAIN pics : ids[i] = ids[j] => i = j
      /\ \A c \in Camera : \A k \in tr.tracks[c] : k.id \in Nat /\ k.id < tr.next
  BY DEF Updated, TrackerOK, LiveOK, Track
<1>3. /\ \A x \in Nat : x < tr.next => m[x] = l[x]
      /\ \A x \in Nat : ~(x < tr.next) =>
            m[x] = <<camera, pics[CHOOSE i \in DOMAIN pics : ids[i] = x].label>>
  OBVIOUS
<1> HIDE DEF m
<1>4. ASSUME NEW c \in Camera, NEW k \in tr.tracks[c] PROVE m[k.id] = <<c, k.label>>
  <2>1. k.id \in Nat /\ k.id < tr.next
    BY <1>2
  <2>2. m[k.id] = l[k.id]
    BY <1>3, <2>1
  <2> QED
    BY <1>1, <2>2
<1>5. ASSUME NEW i \in DOMAIN pics PROVE m[ids[i]] = <<camera, pics[i].label>>
  <2>1. CASE tr.next <= ids[i]
    <3>1. ids[i] \in Nat /\ ~(ids[i] < tr.next)
      BY <1>2, <2>1
    <3>2. (CHOOSE j \in DOMAIN pics : ids[j] = ids[i]) = i
      BY <1>2
    <3> QED
      BY <1>3, <3>1, <3>2
  <2>2. CASE ~(tr.next <= ids[i])
    <3>1. PICK k \in tr.tracks[camera] : k.id = ids[i] /\ k.label = pics[i].label
      BY <2>2 DEF Updated
    <3> QED
      BY <1>4, <3>1
  <2> QED
    BY <2>1, <2>2
<1>6. \A x \in Nat : x < known => m[x] = ledger[x]
  <2> SUFFICES ASSUME NEW x \in Nat, x < known PROVE m[x] = ledger[x]
    OBVIOUS
  <2>1. x < tr.next
    BY <1>2
  <2> QED
    BY <1>1, <1>3, <2>1
<1>7. \A d \in dets : m[d.id] = <<camera, d.label>>
  BY <1>1, <1>3
<1>8. \A d \in Identified(pics, ids, t) : m[d.id] = <<camera, d.label>>
  <2> SUFFICES ASSUME NEW i \in DOMAIN pics,
                      NEW d, d = [label |-> pics[i].label, at |-> pics[i].at, time |-> t,
                                  nth |-> i, id |-> ids[i]]
               PROVE  m[d.id] = <<camera, d.label>>
    BY DEF Identified
  <2>1. d.id = ids[i] /\ d.label = pics[i].label
    OBVIOUS
  <2> QED
    BY <1>5, <2>1
<1>9. \A c \in Camera : \A k \in tr2.tracks[c] : m[k.id] = <<c, k.label>>
  <2> SUFFICES ASSUME NEW c \in Camera, NEW k \in tr2.tracks[c] PROVE m[k.id] = <<c, k.label>>
    OBVIOUS
  <2>1. CASE c # camera
    BY <1>4, <2>1 DEF Updated
  <2>2. CASE c = camera
    <3>1. \/ k \in tr.tracks[camera]
          \/ \E i \in DOMAIN pics : k.id = ids[i] /\ k.label = pics[i].label
      BY <2>2 DEF Updated
    <3> QED
      BY <1>4, <1>5, <2>2, <3>1
  <2> QED
    BY <2>1, <2>2
<1> QED
  BY <1>6, <1>7, <1>8, <1>9 DEF Named

\* The detections of a pass over the first n pictures: a time and a place in the picture
\* make out one, and so do a time and an id; gaps of one id are short.
OnePerPlace(dets) == \A a, b \in dets : a.time = b.time /\ a.nth = b.nth => a = b
OnePerId(dets) == \A a, b \in dets : a.time = b.time /\ a.id = b.id => a = b
GapsAreShort(dets) ==
    \A a, b \in dets :
        /\ a.id = b.id /\ a.time < b.time
        /\ \A d \in dets : d.id = a.id => ~(a.time < d.time /\ d.time < b.time)
        => b.time - a.time <= MaxAge
Known(dets, next, n) ==
    \A d \in dets : d.id \in Nat /\ d.id < next /\ d.time \in Nat /\ d.time < n

\* A live track was last seen with its latest detection in the clip, if it has one there.
LastSeen(live, dets) ==
    \A k \in live, d \in dets :
        k.id = d.id => d.time <= k.last /\ \E e \in dets : e.id = d.id /\ e.time = k.last

PassOK(live, next, dets, n) ==
    /\ Known(dets, next, n) /\ OnePerPlace(dets) /\ OnePerId(dets)
    /\ GapsAreShort(dets) /\ LastSeen(live, dets)

\* A picture that is tracked keeps all of this.
LEMMA Sighting ==
  ASSUME NEW tr, NEW tr2, NEW pics, NEW camera \in Camera, NEW t \in Nat, NEW ids, NEW dets,
         DOMAIN pics \subseteq Nat, TrackerOK(tr), Updated(tr, pics, camera, t, tr2, ids),
         PassOK(tr.tracks[camera], tr.next, dets, t)
  PROVE  PassOK(tr2.tracks[camera], tr2.next, dets \union Identified(pics, ids, t), t + 1)
<1> DEFINE new == Identified(pics, ids, t)
           all == dets \union new
<1>1. /\ tr.next \in Nat /\ tr2.next \in Nat /\ tr.next <= tr2.next /\ MaxAge \in Nat
      /\ \A k \in tr.tracks[camera] : k.last \in Int
      /\ \A i \in DOMAIN pics : ids[i] \in Nat /\ ids[i] < tr2.next
      /\ \A i, j \in DOMAIN pics : ids[i] = ids[j] => i = j
  BY TrackerAssumption DEF Updated, TrackerOK, LiveOK, Track
<1>2. \A d \in dets : d.id \in Nat /\ d.id < tr.next /\ d.time \in Nat /\ d.time < t
  BY DEF PassOK, Known
<1>3. \A d \in new : d.time = t /\ d.nth \in DOMAIN pics /\ d.id = ids[d.nth]
  BY DEF Identified
<1>4. \A a, b \in new : a.nth = b.nth => a = b
  BY DEF Identified
<1>5. \A i \in DOMAIN pics : \E d \in new : d.nth = i /\ d.id = ids[i] /\ d.time = t
  <2> TAKE i \in DOMAIN pics
  <2> DEFINE d == [label |-> pics[i].label, at |-> pics[i].at, time |-> t, nth |-> i,
                   id |-> ids[i]]
  <2>1. d \in new
    BY DEF Identified
  <2>2. d.nth = i /\ d.id = ids[i] /\ d.time = t
    OBVIOUS
  <2> QED
    BY <2>1, <2>2
<1> HIDE DEF new
<1>6. Known(all, tr2.next, t + 1)
  <2>1. \A d \in dets : d.id < tr2.next /\ d.time < t + 1
    BY <1>1, <1>2
  <2>2. \A d \in new : d.id \in Nat /\ d.id < tr2.next /\ d.time \in Nat /\ d.time < t + 1
    BY <1>1, <1>3
  <2> QED
    BY <1>2, <2>1, <2>2 DEF Known
<1>7. \A a \in dets, b \in new : a.time # b.time
  BY <1>2, <1>3
<1>8. OnePerPlace(all) /\ OnePerId(all)
  <2>1. \A a, b \in new : a.id = b.id => a = b
    BY <1>1, <1>3, <1>4
  <2> QED
    BY <1>4, <1>7, <2>1 DEF PassOK, OnePerPlace, OnePerId
<1>9. GapsAreShort(all)
  <2> SUFFICES ASSUME NEW a \in all, NEW b \in all, a.id = b.id, a.time < b.time,
                      \A d \in all : d.id = a.id => ~(a.time < d.time /\ d.time < b.time)
               PROVE  b.time - a.time <= MaxAge
    BY DEF GapsAreShort
  <2>1. CASE a \in dets /\ b \in dets
    BY <2>1 DEF PassOK, GapsAreShort
  <2>2. CASE a \in new
    <3>1. a.time = t /\ b.time <= t /\ b.time \in Nat
      BY <1>2, <1>3, <2>2
    <3> QED
      BY <3>1
  <2>3. CASE a \in dets /\ b \in new
    <3>1. b.time = t /\ a.id < tr.next /\ a.time \in Nat /\ a.time < t /\ a.id \in Nat
      BY <1>2, <1>3, <2>3
    <3>2. b.nth \in DOMAIN pics /\ b.id = ids[b.nth] /\ ~(tr.next <= ids[b.nth])
      BY <1>1, <1>3, <2>3, <3>1
    <3>3. PICK k \in tr.tracks[camera] : k.id = b.id /\ t - k.last <= MaxAge
      BY <3>2 DEF Updated
    <3>4. a.time <= k.last /\ \E e \in dets : e.id = a.id /\ e.time = k.last
      BY <2>3, <3>3 DEF PassOK, LastSeen
    <3>5. PICK e \in dets : e.id = a.id /\ e.time = k.last
      BY <3>4
    <3>6. e.time \in Nat /\ e.time < t /\ ~(a.time < e.time /\ e.time < b.time)
      BY <1>2, <3>5
    <3>7. k.last = a.time
      BY <3>1, <3>4, <3>5, <3>6
    <3> QED
      BY <1>1, <3>1, <3>3, <3>7
  <2> QED
    BY <2>1, <2>2, <2>3
<1>10. LastSeen(tr2.tracks[camera], all)
  <2> SUFFICES ASSUME NEW k \in tr2.tracks[camera], NEW d \in all, k.id = d.id
               PROVE  d.time <= k.last /\ \E e \in all : e.id = d.id /\ e.time = k.last
    BY DEF LastSeen
  <2>1. d.time \in Nat /\ d.time <= t
    BY <1>2, <1>3
  <2>2. CASE k \in tr.tracks[camera] /\ \A i \in DOMAIN pics : ids[i] # k.id
    <3>1. d \in dets
      BY <1>3, <2>2
    <3> QED
      BY <2>2, <3>1 DEF PassOK, LastSeen
  <2>3. CASE \E i \in DOMAIN pics : k.id = ids[i] /\ k.last = t
    <3>1. PICK i \in DOMAIN pics : k.id = ids[i] /\ k.last = t
      BY <2>3
    <3>2. PICK e \in new : e.id = ids[i] /\ e.time = t
      BY <1>5
    <3> QED
      BY <2>1, <3>1, <3>2
  <2> QED
    BY <2>2, <2>3 DEF Updated
<1> QED
  BY <1>6, <1>8, <1>9, <1>10 DEF PassOK, new

\* A picture that is not tracked changes nothing but the time.
LEMMA NoSighting ==
  ASSUME NEW live, NEW next, NEW dets, NEW n \in Nat, PassOK(live, next, dets, n)
  PROVE  PassOK(live, next, dets, n + 1)
<1>1. \A d \in dets : d.time < n + 1
  BY DEF PassOK, Known
<1> QED
  BY <1>1 DEF PassOK, Known

Picture == [view : Int, dets : Seq(Det)]

\* One pass over a clip: the tracker stays one, no id loses what it stands for, and the
\* detections and the live tracks of the camera are as said above.
LEMMA PassFacts ==
  ASSUME NEW tr, TrackerOK(tr), NEW clip \in Seq(Picture), NEW camera \in Camera, NEW ledger,
         Named(ledger, tr.next, camera, tr, {}),
         NEW pass, pass = TrackClip(tr, clip, camera)
  PROVE  /\ TrackerOK(pass.tracker) /\ tr.next <= pass.tracker.next
         /\ Named(ledger, tr.next, camera, pass.tracker, pass.dets)
         /\ PassOK(pass.tracker.tracks[camera], pass.tracker.next, pass.dets, Len(clip))
<1> DEFINE R == Trail(tr, clip, camera)
           N == Len(clip)
           Ids(i) == Update(R[i - 1], clip[i].dets, camera, i - 1).ids
           D(n) == UNION {Identified(clip[i].dets, Ids(i), i - 1) : i \in {g \in Gated(clip) : g <= n}}
           H(n) == /\ TrackerOK(R[n]) /\ tr.next <= R[n].next
                   /\ Named(ledger, tr.next, camera, R[n], D(n))
                   /\ PassOK(R[n].tracks[camera], R[n].next, D(n), n)
           S == {n \in Nat : n <= N => H(n)}
<1>1. N \in Nat /\ DOMAIN clip = 1..N /\ Gated(clip) \subseteq 1..N /\ tr.next \in Nat
  BY DEF Gated, TrackerOK
<1>2. pass = [tracker |-> R[N], dets |-> D(N)]
  <2>1. {g \in Gated(clip) : g <= N} = Gated(clip)
    BY <1>1
  <2>2. TrackClip(tr, clip, camera) =
          [tracker |-> R[N], dets |-> UNION {Identified(clip[i].dets, Ids(i), i - 1) : i \in Gated(clip)}]
    BY DEF TrackClip
  <2> QED
    BY <2>1, <2>2
<1>3. R[0] = tr /\ \A n \in 1..N : R[n] = NextTracker(clip, camera, n, R[n - 1])
  BY <1>1, TrailUnfold
<1>4. \A i \in 1..N : clip[i].dets \in Seq(Det)
  <2>1. \A i \in 1..N : clip[i] \in Picture
    BY <1>1
  <2> QED
    BY <2>1 DEF Picture
<1> HIDE DEF R, N
<1>5. D(0) = {}
  <2>1. {g \in Gated(clip) : g <= 0} = {}
    BY <1>1
  <2> QED
    BY <2>1
<1>6. ASSUME NEW n \in Nat, n + 1 \in Gated(clip)
      PROVE  D(n + 1) = D(n) \union Identified(clip[n + 1].dets, Ids(n + 1), n)
  <2>1. {g \in Gated(clip) : g <= n + 1} = {g \in Gated(clip) : g <= n} \union {n + 1}
    BY <1>1, <1>6
  <2>2. (n + 1) - 1 = n
    OBVIOUS
  <2> HIDE DEF Ids
  <2> QED
    BY <2>1, <2>2
<1>7. ASSUME NEW n \in Nat, n + 1 \notin Gated(clip)
      PROVE  D(n + 1) = D(n)
  <2>1. {g \in Gated(clip) : g <= n + 1} = {g \in Gated(clip) : g <= n}
    BY <1>1, <1>7
  <2> HIDE DEF Ids
  <2> QED
    BY <2>1
<1> HIDE DEF D
<1>8. 0 \in S
  <2>1. PassOK(tr.tracks[camera], tr.next, {}, 0)
    BY DEF PassOK, Known, OnePerPlace, OnePerId, GapsAreShort, LastSeen
  <2>2. R[0] = tr /\ tr.next <= tr.next
    BY <1>1, <1>3
  <2>3. TrackerOK(R[0]) /\ tr.next <= R[0].next
    BY <2>2
  <2>4. Named(ledger, tr.next, camera, R[0], D(0))
    BY <1>5, <2>2
  <2>5. PassOK(R[0].tracks[camera], R[0].next, D(0), 0)
    BY <1>5, <2>1, <2>2
  <2>6. H(0) /\ 0 \in Nat
    BY <2>3, <2>4, <2>5
  <2> HIDE DEF H
  <2> QED
    BY <2>6
<1>9. ASSUME NEW n \in Nat, n \in S PROVE n + 1 \in S
  <2> SUFFICES ASSUME n + 1 <= N PROVE H(n + 1)
    OBVIOUS
  <2>1. /\ n + 1 \in 1..N /\ (n + 1) - 1 = n
        /\ H(n) /\ R[n + 1] = NextTracker(clip, camera, n + 1, R[n])
    <3>1. n + 1 \in 1..N /\ (n + 1) - 1 = n /\ n <= N
      BY <1>1
    <3> QED
      BY <1>3, <1>9, <3>1
  <2>2. /\ TrackerOK(R[n]) /\ tr.next <= R[n].next
        /\ Named(ledger, tr.next, camera, R[n], D(n))
        /\ PassOK(R[n].tracks[camera], R[n].next, D(n), n)
    BY <2>1
  <2>3. CASE n + 1 \in Gated(clip) /\ clip[n + 1].dets # <<>>
    <3> DEFINE pics == clip[n + 1].dets
               up == Update(R[n], pics, camera, n)
    <3>1. R[n + 1] = up.tracker /\ Ids(n + 1) = up.ids
      BY <2>1, <2>3 DEF NextTracker
    <3>2. pics \in Seq(Det) /\ DOMAIN pics \subseteq Nat
      <4>1. pics \in Seq(Det)
        BY <1>4, <2>1
      <4> HIDE DEF pics
      <4>2. DOMAIN pics = 1..Len(pics)
        BY <4>1
      <4> QED
        BY <4>1, <4>2
    <3>3. Updated(R[n], pics, camera, n, R[n + 1], Ids(n + 1))
      <4> HIDE DEF pics
      <4>1. Updated(R[n], pics, camera, n, up.tracker, up.ids)
        BY <2>2, <3>2, UpdateFacts
      <4> QED
        BY <3>1, <4>1
    <3>4. D(n + 1) = D(n) \union Identified(pics, Ids(n + 1), n)
      BY <1>6, <2>3
    <3> HIDE DEF pics, Ids
    <3>5. TrackerOK(R[n + 1]) /\ R[n].next <= R[n + 1].next
      BY <3>3 DEF Updated
    <3>6. tr.next <= R[n + 1].next
      BY <1>1, <2>2, <3>5 DEF TrackerOK
    <3>7. \A d \in D(n) : d.id \in Nat /\ d.id < R[n].next
      BY <2>2 DEF PassOK, Known
    <3>8. Named(ledger, tr.next, camera, R[n + 1], D(n + 1))
      <4>1. Named(ledger, tr.next, camera, R[n + 1], D(n) \union Identified(pics, Ids(n + 1), n))
        BY <1>1, <2>2, <3>3, <3>7, NamedStays
      <4> QED
        BY <3>4, <4>1
    <3>9. PassOK(R[n + 1].tracks[camera], R[n + 1].next, D(n + 1), n + 1)
      <4>1. PassOK(R[n + 1].tracks[camera], R[n + 1].next,
                   D(n) \union Identified(pics, Ids(n + 1), n), n + 1)
        BY <2>2, <3>2, <3>3, Sighting
      <4> QED
        BY <3>4, <4>1
    <3> QED
      BY <3>5, <3>6, <3>8, <3>9
  <2>4. CASE ~(n + 1 \in Gated(clip) /\ clip[n + 1].dets # <<>>)
    <3>1. R[n + 1] = R[n]
      BY <2>1, <2>4 DEF NextTracker
    <3>2. D(n + 1) = D(n)
      <4>1. CASE n + 1 \notin Gated(clip)
        BY <1>7, <4>1
      <4>2. CASE clip[n + 1].dets = <<>> /\ n + 1 \in Gated(clip)
        <5>1. \A ids : Identified(<<>>, ids, n) = {}
          BY DEF Identified
        <5> HIDE DEF Ids
        <5> QED
          BY <1>6, <4>2, <5>1
      <4> QED
        BY <2>4, <4>1, <4>2
    <3>3. PassOK(R[n].tracks[camera], R[n].next, D(n), n + 1)
      BY <2>2, NoSighting
    <3> QED
      BY <2>2, <3>1, <3>2, <3>3
  <2> QED
    BY <2>3, <2>4
<1>10. N \in S
  <2> HIDE DEF S
  <2> QED
    BY <1>1, <1>8, <1>9, Induction
<1>11. H(N)
  BY <1>1, <1>10
<1> QED
  BY <1>2, <1>11 DEF N

-----------------------------------------------------------------------------
(* The cache of decoded clips *)

\* Others and Touched of a process whose cache is ca.
OthersOf(ca, c) ==
    IF \E i \in DOMAIN ca : ca[i].clip = c
    THEN RemoveAt(ca, CHOOSE i \in DOMAIN ca : ca[i].clip = c) ELSE ca
TouchedOf(ca, entry) ==
    LET all == Append(OthersOf(ca, entry.clip), entry)
    IN  IF Len(all) > CacheSize THEN Tail(all) ELSE all

IsCache(ca, S) ==
    /\ ca \in Seq(S) /\ Len(ca) <= CacheSize
    /\ \A i, j \in DOMAIN ca : ca[i].clip = ca[j].clip => i = j

\* A sequence without the element at p.
LEMMA RemoveAtFacts ==
  ASSUME NEW S, NEW s \in Seq(S), NEW p \in DOMAIN s
  PROVE  /\ RemoveAt(s, p) \in Seq(S) /\ Len(RemoveAt(s, p)) = Len(s) - 1
         /\ \A i \in 1..(Len(s) - 1) : RemoveAt(s, p)[i] = IF i < p THEN s[i] ELSE s[i + 1]
<1>1. p \in 1..Len(s) /\ Len(s) \in Nat
  OBVIOUS
<1> DEFINE a == SubSeq(s, 1, p - 1)
           b == SubSeq(s, p + 1, Len(s))
<1>2. /\ a \in Seq(S) /\ Len(a) = p - 1
      /\ \A i \in 1..(p - 1) : a[i] = s[i]
  <2>1. \A i \in 1..(p - 1) : i \in 1..Len(s)
    BY <1>1
  <2>2. \A i \in 1..(p - 1) : s[i] \in S
    BY <2>1
  <2> QED
    BY <1>1, <2>2
<1>3. /\ b \in Seq(S) /\ Len(b) = Len(s) - p
      /\ \A i \in 1..(Len(s) - p) : b[i] = s[p + i]
  <2>1. \A i \in (p + 1)..Len(s) : s[i] \in S
    BY <1>1
  <2>2. b \in Seq(S) /\ Len(b) = Len(s) - p
    BY <1>1, <2>1
  <2>3. ASSUME NEW i \in 1..(Len(s) - p) PROVE b[i] = s[p + i]
    <3>1. b[i] = s[(p + 1) + i - 1] /\ (p + 1) + i - 1 = p + i
      BY <1>1
    <3> QED
      BY <3>1
  <2> QED
    BY <2>2, <2>3
<1>4. RemoveAt(s, p) = a \o b
  BY DEF RemoveAt
<1> HIDE DEF a, b
<1>5. RemoveAt(s, p) \in Seq(S) /\ Len(RemoveAt(s, p)) = Len(s) - 1
  BY <1>1, <1>2, <1>3, <1>4
<1>6. ASSUME NEW i \in 1..(Len(s) - 1)
      PROVE  RemoveAt(s, p)[i] = IF i < p THEN s[i] ELSE s[i + 1]
  <2>1. CASE i < p
    BY <1>1, <1>2, <1>3, <1>4, <2>1
  <2>2. CASE ~(i < p)
    <3>1. /\ i \in 1..(Len(a) + Len(b)) /\ ~(i <= Len(a))
          /\ i - Len(a) = i - (p - 1)
      BY <1>1, <1>2, <1>3, <2>2
    <3>3. (a \o b)[i] = b[i - Len(a)]
      BY <1>2, <1>3, <3>1, ConcatProperties
    <3>2. i - (p - 1) \in 1..(Len(s) - p) /\ p + (i - (p - 1)) = i + 1
      BY <1>1, <2>2
    <3>4. RemoveAt(s, p)[i] = b[i - (p - 1)]
      BY <1>4, <3>1, <3>3
    <3> QED
      BY <1>3, <2>2, <3>2, <3>4
  <2> QED
    BY <2>1, <2>2
<1> QED
  BY <1>5, <1>6

\* The entries of other clips stay in their order when a clip is put aside.
LEMMA OthersFacts ==
  ASSUME NEW S, NEW ca, IsCache(ca, S), NEW c, NEW o, o = OthersOf(ca, c)
  PROVE  /\ o \in Seq(S) /\ Len(o) <= Len(ca)
         /\ (\E i \in DOMAIN ca : ca[i].clip = c) => Len(o) < Len(ca)
         /\ \A i \in DOMAIN o : o[i].clip # c /\ \E j \in DOMAIN ca : o[i] = ca[j]
         /\ \A i, j \in DOMAIN o : o[i].clip = o[j].clip => i = j
         /\ \A p \in DOMAIN ca : ca[p].clip # c =>
               \E q \in DOMAIN o : /\ o[q] = ca[p]
                                   /\ q <= p
                                   /\ \A r \in DOMAIN o : r > q =>
                                         \E t \in DOMAIN ca : t > p /\ o[r] = ca[t]
<1>1. /\ ca \in Seq(S) /\ DOMAIN ca = 1..Len(ca) /\ Len(ca) \in Nat
      /\ \A i, j \in DOMAIN ca : ca[i].clip = ca[j].clip => i = j
  BY DEF IsCache
<1>2. CASE ~\E i \in DOMAIN ca : ca[i].clip = c
  <2>1. o = ca
    BY <1>2 DEF OthersOf
  <2> QED
    BY <1>1, <1>2, <2>1
<1>3. CASE \E i \in DOMAIN ca : ca[i].clip = c
  <2> DEFINE g == CHOOSE i \in DOMAIN ca : ca[i].clip = c
  <2>1. g \in DOMAIN ca /\ ca[g].clip = c /\ o = RemoveAt(ca, g)
    BY <1>3 DEF OthersOf
  <2> HIDE DEF g
  <2>2. /\ o \in Seq(S) /\ Len(o) = Len(ca) - 1
        /\ \A i \in 1..(Len(ca) - 1) : o[i] = IF i < g THEN ca[i] ELSE ca[i + 1]
    <3>1. ca \in Seq(S) /\ g \in DOMAIN ca
      BY <1>1, <2>1
    <3>2. /\ RemoveAt(ca, g) \in Seq(S) /\ Len(RemoveAt(ca, g)) = Len(ca) - 1
          /\ \A i \in 1..(Len(ca) - 1) :
                RemoveAt(ca, g)[i] = IF i < g THEN ca[i] ELSE ca[i + 1]
      BY <3>1, RemoveAtFacts
    <3> QED
      BY <2>1, <3>2
  <2>3. DOMAIN o = 1..(Len(ca) - 1) /\ g \in 1..Len(ca)
    BY <1>1, <2>1, <2>2
  <2> DEFINE up(i) == IF i < g THEN i ELSE i + 1
  <2>4. \A i \in DOMAIN o : up(i) \in DOMAIN ca /\ up(i) # g /\ o[i] = ca[up(i)]
    BY <1>1, <2>2, <2>3
  <2>5. \A i, j \in DOMAIN o : (up(i) = up(j) => i = j) /\ (i < j => up(i) < up(j))
    BY <1>1, <2>3
  <2>6. \A p \in DOMAIN ca : p # g => \E q \in DOMAIN o : up(q) = p /\ q <= p
    <3> SUFFICES ASSUME NEW p \in DOMAIN ca, p # g PROVE \E q \in DOMAIN o : up(q) = p /\ q <= p
      OBVIOUS
    <3>1. CASE p < g
      <4>1. p \in DOMAIN o /\ up(p) = p /\ p <= p
        BY <1>1, <2>3, <3>1
      <4> HIDE DEF up
      <4> QED
        BY <4>1
    <3>2. CASE ~(p < g)
      <4>1. p - 1 \in DOMAIN o /\ up(p - 1) = p /\ p - 1 <= p
        BY <1>1, <2>3, <3>2
      <4> HIDE DEF up
      <4> QED
        BY <4>1
    <3> QED
      BY <3>1, <3>2
  <2>7. \A i \in DOMAIN o : i \in Nat /\ up(i) \in Nat
    BY <1>1, <2>3
  <2> HIDE DEF up
  <2>8. \A i \in DOMAIN o : o[i].clip # c /\ \E j \in DOMAIN ca : o[i] = ca[j]
    BY <1>1, <2>1, <2>4
  <2>9. \A i, j \in DOMAIN o : o[i].clip = o[j].clip => i = j
    BY <1>1, <2>4, <2>5
  <2>10. ASSUME NEW p \in DOMAIN ca, ca[p].clip # c
         PROVE  \E q \in DOMAIN o : /\ o[q] = ca[p]
                                    /\ q <= p
                                    /\ \A r \in DOMAIN o : r > q =>
                                          \E t \in DOMAIN ca : t > p /\ o[r] = ca[t]
    <3>1. PICK q \in DOMAIN o : up(q) = p /\ q <= p
      BY <2>1, <2>6, <2>10
    <3>2. ASSUME NEW r \in DOMAIN o, r > q PROVE up(r) \in DOMAIN ca /\ up(r) > p /\ o[r] = ca[up(r)]
      BY <2>4, <2>5, <2>7, <3>1, <3>2
    <3> QED
      BY <2>4, <3>1, <3>2
  <2> QED
    BY <1>1, <2>2, <2>8, <2>9, <2>10
<1> QED
  BY <1>2, <1>3

\* After a use of an entry it is the last one; another entry is still there with none behind
\* it but those that were and the one just used, or the cache is full of such ones.
LEMMA TouchedFacts ==
  ASSUME NEW S, NEW ca, IsCache(ca, S), NEW e \in S, NEW a, a = TouchedOf(ca, e)
  PROVE  /\ IsCache(a, S) /\ Len(a) \in DOMAIN a /\ a[Len(a)] = e
         /\ \A i \in DOMAIN a : a[i] = e \/ \E j \in DOMAIN ca : a[i] = ca[j]
         /\ \A p \in DOMAIN ca : ca[p].clip # e.clip =>
               \/ \E q \in DOMAIN a :
                     /\ a[q] = ca[p]
                     /\ \A r \in DOMAIN a : r > q =>
                           a[r] = e \/ \E t \in DOMAIN ca : t > p /\ a[r] = ca[t]
               \/ /\ Len(a) = CacheSize
                  /\ \A r \in DOMAIN a :
                        /\ a[r].clip # ca[p].clip
                        /\ a[r] = e \/ \E t \in DOMAIN ca : t > p /\ a[r] = ca[t]
<1>0. PICK o : o = OthersOf(ca, e.clip)
  OBVIOUS
<1> DEFINE all == Append(o, e)
<1>1. /\ o \in Seq(S) /\ Len(o) <= Len(ca)
      /\ \A i \in DOMAIN o : o[i].clip # e.clip /\ \E j \in DOMAIN ca : o[i] = ca[j]
      /\ \A i, j \in DOMAIN o : o[i].clip = o[j].clip => i = j
      /\ \A p \in DOMAIN ca : ca[p].clip # e.clip =>
            \E q \in DOMAIN o : /\ o[q] = ca[p]
                                /\ q <= p
                                /\ \A r \in DOMAIN o : r > q =>
                                      \E t \in DOMAIN ca : t > p /\ o[r] = ca[t]
  BY <1>0, OthersFacts
<1>2. a = IF Len(all) > CacheSize THEN Tail(all) ELSE all
  BY <1>0 DEF TouchedOf
<1>3. CacheSize \in Nat /\ CacheSize # 0 /\ ca \in Seq(S) /\ Len(ca) <= CacheSize /\ Len(ca) \in Nat
  BY CvAssumption DEF IsCache
<1>4. Len(o) \in Nat /\ DOMAIN o = 1..Len(o)
  BY <1>1
<1>8. Len(o) <= Len(ca)
  BY <1>1
<1>5. /\ all \in Seq(S) /\ Len(all) = Len(o) + 1
      /\ \A i \in 1..Len(o) : all[i] = o[i]
      /\ all[Len(o) + 1] = e
  BY <1>1, <1>4
<1> HIDE DEF all
<1>6. CASE Len(all) <= CacheSize
  <2>1. a = all /\ DOMAIN a = 1..(Len(o) + 1) /\ Len(a) = Len(o) + 1
    BY <1>2, <1>3, <1>4, <1>5, <1>6
  <2>2. \A i \in DOMAIN a : (i = Len(o) + 1 /\ a[i] = e) \/ (i \in DOMAIN o /\ a[i] = o[i])
    BY <1>4, <1>5, <2>1
  <2>3. \A i \in DOMAIN o : i \in DOMAIN a /\ a[i] = o[i]
    BY <1>4, <1>5, <2>1
  <2>4. \A i, j \in DOMAIN a : a[i].clip = a[j].clip => i = j
    BY <1>1, <2>2
  <2>5. IsCache(a, S) /\ Len(a) \in DOMAIN a /\ a[Len(a)] = e
    BY <1>4, <1>5, <1>6, <2>1, <2>4 DEF IsCache
  <2>6. \A i \in DOMAIN a : a[i] = e \/ \E j \in DOMAIN ca : a[i] = ca[j]
    BY <1>1, <2>2
  <2>7. ASSUME NEW p \in DOMAIN ca, ca[p].clip # e.clip
        PROVE  \E q \in DOMAIN a :
                  /\ a[q] = ca[p]
                  /\ \A r \in DOMAIN a : r > q =>
                        a[r] = e \/ \E t \in DOMAIN ca : t > p /\ a[r] = ca[t]
    <3>1. PICK q \in DOMAIN o : /\ o[q] = ca[p]
                               /\ \A r \in DOMAIN o : r > q =>
                                     \E t \in DOMAIN ca : t > p /\ o[r] = ca[t]
      BY <1>1, <2>7
    <3>2. \A r \in DOMAIN a : r > q => a[r] = e \/ \E t \in DOMAIN ca : t > p /\ a[r] = ca[t]
      BY <2>2, <3>1
    <3> QED
      BY <2>3, <3>1, <3>2
  <2> QED
    BY <2>5, <2>6, <2>7
<1>7. CASE ~(Len(all) <= CacheSize)
  <2>1. Len(o) = CacheSize /\ a = Tail(all)
    <3> DEFINE n == Len(all)
               m == Len(ca)
               l == Len(o)
    <3>1. n = l + 1 /\ l \in Nat /\ l <= m /\ m <= CacheSize /\ m \in Nat /\ ~(n <= CacheSize)
      BY <1>3, <1>4, <1>5, <1>7, <1>8
    <3>2. a = IF n > CacheSize THEN Tail(all) ELSE all
      BY <1>2
    <3> HIDE DEF n, m, l
    <3>3. l = CacheSize /\ n > CacheSize
      BY <1>3, <3>1
    <3>4. a = Tail(all)
      BY <3>2, <3>3
    <3> QED
      BY <3>3, <3>4 DEF l
  <2>2. all # <<>>
    <3>1. Len(<<>>) = 0
      OBVIOUS
    <3>2. Len(all) # 0
      BY <1>4, <1>5
    <3> QED
      BY <3>1, <3>2
  <2>3. a \in Seq(S) /\ Len(a) = Len(o) /\ \A i \in 1..Len(o) : a[i] = all[i + 1]
    BY <1>4, <1>5, <2>1, <2>2
  <2>4. DOMAIN a = 1..Len(o)
    BY <1>4, <2>3
  <2>5. ASSUME NEW i \in DOMAIN a
        PROVE  \/ i = Len(o) /\ a[i] = e
               \/ i + 1 \in DOMAIN o /\ a[i] = o[i + 1]
    BY <1>4, <1>5, <2>3, <2>4
  <2>6. \A i \in DOMAIN o : i # 1 => i - 1 \in DOMAIN a /\ a[i - 1] = o[i]
    <3> SUFFICES ASSUME NEW i \in DOMAIN o, i # 1 PROVE i - 1 \in DOMAIN a /\ a[i - 1] = o[i]
      OBVIOUS
    <3>1. i - 1 \in 1..Len(o) /\ (i - 1) + 1 = i /\ i \in 1..Len(o)
      BY <1>4
    <3>2. a[i - 1] = all[(i - 1) + 1]
      BY <2>3, <3>1
    <3> QED
      BY <1>5, <2>4, <3>1, <3>2
  <2>7. \A i, j \in DOMAIN a : a[i].clip = a[j].clip => i = j
    <3> SUFFICES ASSUME NEW i \in DOMAIN a, NEW j \in DOMAIN a, a[i].clip = a[j].clip PROVE i = j
      OBVIOUS
    <3>1. i \in Nat /\ j \in Nat
      BY <2>4
    <3>2. CASE i + 1 \in DOMAIN o /\ a[i] = o[i + 1] /\ j + 1 \in DOMAIN o /\ a[j] = o[j + 1]
      <4>1. i + 1 = j + 1
        BY <1>1, <3>2
      <4> QED
        BY <3>1, <4>1
    <3> QED
      BY <1>1, <2>5, <3>2
  <2>8. IsCache(a, S) /\ Len(a) \in DOMAIN a /\ a[Len(a)] = e
    <3>1. Len(o) \in 1..Len(o)
      BY <1>3, <2>1
    <3>2. a[Len(o)] = e
      BY <1>4, <1>5, <2>3, <3>1
    <3> QED
      BY <1>3, <2>1, <2>3, <2>4, <2>7, <3>1, <3>2 DEF IsCache
  <2>9. \A i \in DOMAIN a : a[i] = e \/ \E j \in DOMAIN ca : a[i] = ca[j]
    BY <1>1, <2>5
  <2>10. ASSUME NEW p \in DOMAIN ca, ca[p].clip # e.clip
         PROVE  \/ \E q \in DOMAIN a :
                      /\ a[q] = ca[p]
                      /\ \A r \in DOMAIN a : r > q =>
                            a[r] = e \/ \E t \in DOMAIN ca : t > p /\ a[r] = ca[t]
                \/ /\ Len(a) = CacheSize
                   /\ \A r \in DOMAIN a :
                         /\ a[r].clip # ca[p].clip
                         /\ a[r] = e \/ \E t \in DOMAIN ca : t > p /\ a[r] = ca[t]
    <3>1. PICK q \in DOMAIN o : /\ o[q] = ca[p]
                               /\ \A r \in DOMAIN o : r > q =>
                                     \E t \in DOMAIN ca : t > p /\ o[r] = ca[t]
      BY <1>1, <2>10
    <3>2. ASSUME NEW r \in DOMAIN a, r + 1 > q
          PROVE  a[r] = e \/ \E t \in DOMAIN ca : t > p /\ a[r] = ca[t]
      BY <2>5, <3>1, <3>2
    <3>3. \A r \in DOMAIN a : r \in Nat
      BY <2>4
    <3>4. q \in Nat /\ q >= 1
      BY <1>4
    <3>5. CASE q = 1
      <4>1. \A r \in DOMAIN a : r + 1 > q
        BY <1>4, <2>4, <3>5
      <4>2. ASSUME NEW r \in DOMAIN a PROVE a[r].clip # ca[p].clip
        <5>1. CASE a[r] = e
          BY <2>10, <5>1
        <5>2. CASE r + 1 \in DOMAIN o /\ a[r] = o[r + 1]
          <6>1. r + 1 # q
            BY <3>3, <3>5, <2>4
          <6> QED
            BY <1>1, <3>1, <5>2, <6>1
        <5> QED
          BY <2>5, <5>1, <5>2
      <4> QED
        BY <2>1, <2>3, <3>2, <4>1, <4>2
    <3>6. CASE q # 1
      <4>1. q - 1 \in DOMAIN a /\ a[q - 1] = ca[p]
        BY <2>6, <3>1, <3>6
      <4>2. \A r \in DOMAIN a : r > q - 1 => r + 1 > q
        BY <3>3, <3>4
      <4> QED
        BY <3>2, <4>1, <4>2
    <3> QED
      BY <3>5, <3>6
  <2> QED
    BY <2>8, <2>9, <2>10
<1> QED
  BY <1>3, <1>4, <1>5, <1>6, <1>7

\* The clips in use in between are as many as there are, and one more use adds its clip.
LEMMA BetweenFinite ==
  ASSUME NEW s, NEW i \in Nat, NEW j \in Nat, NEW c
  PROVE  /\ IsFiniteSet(Between(s, i, j) \ {c})
         /\ Cardinality(Between(s, i, j) \ {c}) \in Nat
<1> DEFINE K == {n \in (i + 1)..(j - 1) : ~s[n].out.faked}
           f == [n \in K |-> s[n].clip]
<1>1. IsFiniteSet(K)
  <2>1. IsFiniteSet((i + 1)..(j - 1))
    BY FS_Interval
  <2>2. K \in SUBSET ((i + 1)..(j - 1))
    OBVIOUS
  <2> HIDE DEF K
  <2> QED
    BY <2>1, <2>2, FS_Subset
<1>2. Between(s, i, j) = {s[n].clip : n \in K}
  BY DEF Between
<1> HIDE DEF K
<1>3. f \in Surjection(K, Between(s, i, j))
  BY <1>2 DEF Surjection
<1> HIDE DEF f
<1>4. IsFiniteSet(Between(s, i, j))
  BY <1>1, <1>3, FS_Surjection
<1>5. IsFiniteSet(Between(s, i, j) \ {c})
  BY <1>4, FS_RemoveElement
<1> QED
  BY <1>5, FS_CardinalityType

LEMMA BetweenMore ==
  ASSUME NEW S, NEW s \in Seq(S), NEW x \in S, NEW i \in DOMAIN s
  PROVE  /\ \A j \in DOMAIN s : Between(Append(s, x), i, j) = Between(s, i, j)
         /\ Between(Append(s, x), i, Len(s) + 1) = Between(s, i, Len(s) + 1)
         /\ x.out.faked => Between(Append(s, x), i, Len(s) + 2) = Between(s, i, Len(s) + 1)
         /\ ~x.out.faked =>
               Between(Append(s, x), i, Len(s) + 2) = Between(s, i, Len(s) + 1) \union {x.clip}
<1> DEFINE z == Append(s, x)
           n == Len(s)
<1>1. /\ n \in Nat /\ i \in 1..n /\ DOMAIN s = 1..n
      /\ \A k \in 1..n : z[k] = s[k]
      /\ z[n + 1] = x
  OBVIOUS
<1> HIDE DEF z, n
<1>2. ASSUME NEW j \in 1..(n + 1) PROVE Between(z, i, j) = Between(s, i, j)
  <2>1. \A k \in (i + 1)..(j - 1) : z[k] = s[k]
    BY <1>1
  <2> QED
    BY <2>1 DEF Between
<1>3. /\ x.out.faked => Between(z, i, n + 2) = Between(z, i, n + 1)
      /\ ~x.out.faked => Between(z, i, n + 2) = Between(z, i, n + 1) \union {x.clip}
  <2>1. (i + 1)..((n + 2) - 1) = ((i + 1)..((n + 1) - 1)) \union {n + 1}
    BY <1>1
  <2>2. CASE x.out.faked
    BY <1>1, <2>1, <2>2 DEF Between
  <2>3. CASE ~x.out.faked
    BY <1>1, <2>1, <2>3 DEF Between
  <2> QED
    BY <2>2, <2>3
<1>4. Between(z, i, n + 1) = Between(s, i, n + 1)
  BY <1>1, <1>2
<1>5. \A j \in DOMAIN s : Between(z, i, j) = Between(s, i, j)
  BY <1>1, <1>2
<1> QED
  BY <1>3, <1>4, <1>5 DEF z, n

\* What was inferred from a clip is still cached, with none behind it but clips used since,
\* or as many other clips as the cache holds were used since.
Recent(s, ca) ==
    \A i \in DOMAIN s : ~s[i].out.faked =>
        \/ \E p \in DOMAIN ca :
              /\ ca[p].clip = s[i].clip /\ s[i].out.dets \subseteq ca[p].dets
              /\ \A q \in DOMAIN ca : q > p => ca[q].clip \in Between(s, i, Len(s) + 1)
        \/ CacheSize <= Cardinality(Between(s, i, Len(s) + 1) \ {s[i].clip})

\* SameIdsWhileRecent of one process.
SameIds(s) ==
    \A i, j \in DOMAIN s :
        /\ i < j /\ s[i].clip = s[j].clip
        /\ ~s[i].out.faked /\ ~s[j].out.faked
        /\ Cardinality(Between(s, i, j) \ {s[i].clip}) < CacheSize
        => \A a \in s[i].out.dets, b \in s[j].out.dets :
              a.time = b.time /\ a.nth = b.nth => a.id = b.id

LEMMA CacheCounted == Cardinality(1..CacheSize) = CacheSize
<1>1. 1 \in Int /\ CacheSize \in Int /\ CacheSize >= 1
  BY CvAssumption
<1>2. Cardinality(1..CacheSize) = IF 1 > CacheSize THEN 0 ELSE CacheSize - 1 + 1
  BY <1>1, FS_Interval, Zenon
<1> QED
  BY <1>1, <1>2

\* A use of a clip for which the detections are at hand, cached or not.
LEMMA RecentUsed ==
  ASSUME NEW S, NEW s \in Seq(S), NEW T, NEW ca, IsCache(ca, T), NEW e \in T,
         NEW x \in S, x.clip = e.clip, ~x.out.faked, x.out.dets \subseteq e.dets,
         \A p \in DOMAIN ca : ca[p].clip = e.clip => ca[p] = e,
         Recent(s, ca), NEW z, z = Append(s, x), NEW a, a = TouchedOf(ca, e)
  PROVE  Recent(z, a)
<1>1. /\ Len(s) \in Nat /\ DOMAIN s = 1..Len(s) /\ DOMAIN z = 1..(Len(s) + 1)
      /\ Len(z) = Len(s) + 1 /\ \A k \in 1..Len(s) : z[k] = s[k]
      /\ z[Len(s) + 1] = x
  OBVIOUS
<1>2. /\ IsCache(a, T) /\ Len(a) \in DOMAIN a /\ a[Len(a)] = e
      /\ \A p \in DOMAIN ca : ca[p].clip # e.clip =>
            \/ \E q \in DOMAIN a :
                  /\ a[q] = ca[p]
                  /\ \A r \in DOMAIN a : r > q =>
                        a[r] = e \/ \E t \in DOMAIN ca : t > p /\ a[r] = ca[t]
            \/ /\ Len(a) = CacheSize
               /\ \A r \in DOMAIN a :
                     /\ a[r].clip # ca[p].clip
                     /\ a[r] = e \/ \E t \in DOMAIN ca : t > p /\ a[r] = ca[t]
  BY TouchedFacts
<1>3. a \in Seq(T) /\ Len(a) \in Nat /\ DOMAIN a = 1..Len(a) /\ CacheSize \in Nat
      /\ \A i, j \in DOMAIN a : a[i].clip = a[j].clip => i = j
  BY <1>2, CvAssumption DEF IsCache
<1> DEFINE n == Len(s)
           B(i) == Between(s, i, n + 1)
           C(i) == Between(z, i, n + 2)
<1>4. ASSUME NEW i \in DOMAIN s PROVE C(i) = B(i) \union {e.clip}
  <2>1. ~x.out.faked =>
          Between(Append(s, x), i, Len(s) + 2) = Between(s, i, Len(s) + 1) \union {x.clip}
    BY BetweenMore
  <2> QED
    BY <2>1
<1>5. \A i \in DOMAIN z : \A c : IsFiniteSet(C(i) \ {c}) /\ Cardinality(C(i) \ {c}) \in Nat
  <2>1. \A i \in DOMAIN z : i \in Nat /\ n + 2 \in Nat
    BY <1>1
  <2> QED
    BY <2>1, BetweenFinite
<1>6. \A i \in DOMAIN s : i \in DOMAIN z /\ z[i] = s[i]
  BY <1>1
<1> HIDE DEF B, C
<1>7. ASSUME NEW i \in DOMAIN z, ~z[i].out.faked
      PROVE  \/ \E p \in DOMAIN a :
                   /\ a[p].clip = z[i].clip /\ z[i].out.dets \subseteq a[p].dets
                   /\ \A q \in DOMAIN a : q > p => a[q].clip \in C(i)
             \/ CacheSize <= Cardinality(C(i) \ {z[i].clip})
  <2>1. CASE i = n + 1 \/ \E p \in DOMAIN ca : /\ i \in DOMAIN s /\ ca[p].clip = s[i].clip
                                             /\ ca[p].clip = e.clip
                                             /\ s[i].out.dets \subseteq ca[p].dets
    <3>1. a[Len(a)].clip = z[i].clip /\ z[i].out.dets \subseteq a[Len(a)].dets
      BY <1>1, <1>2, <1>6, <2>1
    <3>2. \A q \in DOMAIN a : ~(q > Len(a))
      BY <1>3
    <3> QED
      BY <1>2, <3>1, <3>2
  <2>2. CASE i \in DOMAIN s /\ CacheSize <= Cardinality(B(i) \ {s[i].clip})
    <3>1. B(i) \ {s[i].clip} \in SUBSET (C(i) \ {s[i].clip})
      BY <1>4, <2>2
    <3> DEFINE big == C(i) \ {s[i].clip}
               small == B(i) \ {s[i].clip}
    <3>2. small \in SUBSET big /\ IsFiniteSet(big) /\ Cardinality(big) \in Nat
      BY <1>5, <3>1
    <3>3. CacheSize <= Cardinality(small)
      BY <2>2
    <3>4. z[i].clip = s[i].clip
      BY <1>6, <2>2
    <3> HIDE DEF big, small
    <3>5. Cardinality(small) <= Cardinality(big) /\ Cardinality(small) \in Nat
      BY <3>2, FS_Subset, FS_CardinalityType
    <3>6. CacheSize <= Cardinality(big)
      BY <1>3, <3>2, <3>3, <3>5
    <3> QED
      BY <3>4, <3>6 DEF big
  <2>3. ASSUME i \in DOMAIN s, NEW p \in DOMAIN ca, ca[p].clip = s[i].clip,
               ca[p].clip # e.clip, s[i].out.dets \subseteq ca[p].dets,
               \A q \in DOMAIN ca : q > p => ca[q].clip \in B(i)
        PROVE  \/ \E r \in DOMAIN a :
                     /\ a[r].clip = z[i].clip /\ z[i].out.dets \subseteq a[r].dets
                     /\ \A q \in DOMAIN a : q > r => a[q].clip \in C(i)
               \/ CacheSize <= Cardinality(C(i) \ {z[i].clip})
    <3>1. /\ \A t \in DOMAIN ca : t > p => ca[t].clip \in C(i)
          /\ e.clip \in C(i) /\ z[i] = s[i]
      BY <1>4, <1>6, <2>3
    <3>2. CASE \E q \in DOMAIN a :
                  /\ a[q] = ca[p]
                  /\ \A r \in DOMAIN a : r > q =>
                        a[r] = e \/ \E t \in DOMAIN ca : t > p /\ a[r] = ca[t]
      <4>1. PICK q \in DOMAIN a :
                  /\ a[q] = ca[p]
                  /\ \A r \in DOMAIN a : r > q =>
                        a[r] = e \/ \E t \in DOMAIN ca : t > p /\ a[r] = ca[t]
        BY <3>2
      <4>2. \A r \in DOMAIN a : r > q => a[r].clip \in C(i)
        BY <3>1, <4>1
      <4> QED
        BY <2>3, <3>1, <4>1, <4>2
    <3>3. CASE /\ Len(a) = CacheSize
               /\ \A r \in DOMAIN a :
                     /\ a[r].clip # ca[p].clip
                     /\ a[r] = e \/ \E t \in DOMAIN ca : t > p /\ a[r] = ca[t]
      <4> DEFINE f == [r \in 1..CacheSize |-> a[r].clip]
                 big == C(i) \ {s[i].clip}
      <4>1. DOMAIN a = 1..CacheSize /\ \A r \in DOMAIN a : a[r].clip \in big
        BY <1>3, <2>3, <3>1, <3>3
      <4>2. IsFiniteSet(big)
        BY <1>5
      <4> HIDE DEF big
      <4>3. f \in Injection(1..CacheSize, big)
        BY <1>3, <4>1 DEF Injection, IsInjective
      <4> HIDE DEF f
      <4>4. Cardinality(1..CacheSize) <= Cardinality(big)
        BY <4>2, <4>3, FS_Injection
      <4>5. CacheSize <= Cardinality(big)
        BY <4>4, CacheCounted
      <4> QED
        BY <3>1, <4>5 DEF big
    <3> QED
      BY <1>2, <2>3, <3>2, <3>3
  <2>4. i = n + 1 \/ i \in DOMAIN s
    BY <1>1
  <2>5. ASSUME i \in DOMAIN s
        PROVE  \/ \E p \in DOMAIN ca :
                     /\ ca[p].clip = s[i].clip /\ s[i].out.dets \subseteq ca[p].dets
                     /\ \A q \in DOMAIN ca : q > p => ca[q].clip \in B(i)
               \/ CacheSize <= Cardinality(B(i) \ {s[i].clip})
    BY <1>6, <1>7, <2>5 DEF Recent, B
  <2> QED
    BY <2>1, <2>2, <2>3, <2>4, <2>5
<1>8. Len(z) + 1 = n + 2
  BY <1>1
<1> QED
  BY <1>7, <1>8 DEF Recent, C

\* A stand-in is no use of a clip.
LEMMA RecentFaked ==
  ASSUME NEW S, NEW s \in Seq(S), NEW ca, NEW x \in S, x.out.faked = TRUE,
         Recent(s, ca), NEW z, z = Append(s, x)
  PROVE  Recent(z, ca)
<1>1. /\ Len(s) \in Nat /\ DOMAIN s = 1..Len(s) /\ DOMAIN z = 1..(Len(s) + 1)
      /\ Len(z) = Len(s) + 1 /\ \A k \in 1..Len(s) : z[k] = s[k]
      /\ z[Len(s) + 1] = x
  OBVIOUS
<1>2. ASSUME NEW i \in DOMAIN z, ~z[i].out.faked
      PROVE  i \in DOMAIN s /\ z[i] = s[i] /\ Between(z, i, Len(z) + 1) = Between(s, i, Len(s) + 1)
  <2>1. i # Len(s) + 1
    BY <1>1, <1>2
  <2>2. i \in DOMAIN s /\ z[i] = s[i] /\ Len(z) + 1 = Len(s) + 2
    BY <1>1, <2>1
  <2>3. x.out.faked => Between(Append(s, x), i, Len(s) + 2) = Between(s, i, Len(s) + 1)
    BY <2>2, BetweenMore
  <2> QED
    BY <2>2, <2>3
<1> QED
  BY <1>2 DEF Recent

\* The detections of a use are those of the earlier uses since which the clip is cached.
LEMMA SameIdsUsed ==
  ASSUME NEW S, NEW s \in Seq(S), NEW T, NEW ca, IsCache(ca, T), NEW e,
         NEW x \in S, x.clip = e.clip, x.out.dets \subseteq e.dets,
         OnePerPlace(e.dets),
         \A p \in DOMAIN ca : ca[p].clip = e.clip => ca[p] = e,
         Recent(s, ca), SameIds(s), NEW z, z = Append(s, x)
  PROVE  SameIds(z)
<1>1. /\ Len(s) \in Nat /\ DOMAIN s = 1..Len(s) /\ DOMAIN z = 1..(Len(s) + 1)
      /\ \A k \in 1..Len(s) : z[k] = s[k]
      /\ z[Len(s) + 1] = x
  OBVIOUS
<1>2. SUFFICES ASSUME NEW i \in DOMAIN z, NEW j \in DOMAIN z, i < j, z[i].clip = z[j].clip,
                      ~z[i].out.faked, ~z[j].out.faked,
                      Cardinality(Between(z, i, j) \ {z[i].clip}) < CacheSize,
                      NEW a \in z[i].out.dets, NEW b \in z[j].out.dets,
                      a.time = b.time, a.nth = b.nth
               PROVE  a.id = b.id
  BY DEF SameIds
<1>3. i \in DOMAIN s /\ z[i] = s[i]
  BY <1>1, <1>2
<1>4. CASE j \in DOMAIN s
  <2>1. z[j] = s[j]
    BY <1>1, <1>4
  <2>2. Between(Append(s, x), i, j) = Between(s, i, j)
    BY <1>3, <1>4, BetweenMore
  <2>3. Cardinality(Between(s, i, j) \ {s[i].clip}) < CacheSize
    BY <1>2, <1>3, <2>2
  <2> QED
    BY <1>2, <1>3, <1>4, <2>1, <2>3 DEF SameIds
<1>5. CASE j \notin DOMAIN s
  <2>1. j = Len(s) + 1 /\ z[j] = x
    BY <1>1, <1>5
  <2>2. Between(Append(s, x), i, Len(s) + 1) = Between(s, i, Len(s) + 1)
    BY <1>3, BetweenMore
  <2> DEFINE n == Cardinality(Between(s, i, Len(s) + 1) \ {s[i].clip})
  <2>3. n \in Nat /\ n < CacheSize /\ CacheSize \in Nat
    <3>1. i \in Nat /\ Len(s) + 1 \in Nat
      BY <1>1, <1>3
    <3>2. n \in Nat
      BY <3>1, BetweenFinite
    <3>3. n < CacheSize
      BY <1>2, <1>3, <2>1, <2>2
    <3> QED
      BY <3>2, <3>3, CvAssumption
  <2>4. ~(CacheSize <= n)
    <3> HIDE DEF n
    <3> QED
      BY <2>3
  <2>5. PICK p \in DOMAIN ca : ca[p].clip = s[i].clip /\ s[i].out.dets \subseteq ca[p].dets
    BY <1>2, <1>3, <2>4 DEF Recent
  <2>6. ca[p] = e
    BY <1>2, <1>3, <2>1, <2>5
  <2>7. a \in e.dets /\ b \in e.dets
    BY <1>2, <1>3, <2>1, <2>5, <2>6
  <2> QED
    BY <1>2, <2>7 DEF OnePerPlace
<1> QED
  BY <1>4, <1>5

LEMMA SameIdsFaked ==
  ASSUME NEW S, NEW s \in Seq(S), NEW x \in S, x.out.faked = TRUE,
         SameIds(s), NEW z, z = Append(s, x)
  PROVE  SameIds(z)
<1>1. /\ Len(s) \in Nat /\ DOMAIN s = 1..Len(s) /\ DOMAIN z = 1..(Len(s) + 1)
      /\ \A k \in 1..Len(s) : z[k] = s[k]
      /\ z[Len(s) + 1] = x
  OBVIOUS
<1>2. SUFFICES ASSUME NEW i \in DOMAIN z, NEW j \in DOMAIN z, i < j, z[i].clip = z[j].clip,
                      ~z[i].out.faked, ~z[j].out.faked,
                      Cardinality(Between(z, i, j) \ {z[i].clip}) < CacheSize,
                      NEW a \in z[i].out.dets, NEW b \in z[j].out.dets,
                      a.time = b.time, a.nth = b.nth
               PROVE  a.id = b.id
  BY DEF SameIds
<1>3. j # Len(s) + 1
  BY <1>1, <1>2
<1>4. i \in DOMAIN s /\ z[i] = s[i] /\ j \in DOMAIN s /\ z[j] = s[j]
  BY <1>1, <1>2, <1>3
<1>5. Between(Append(s, x), i, j) = Between(s, i, j)
  BY <1>4, BetweenMore
<1> QED
  BY <1>2, <1>4, <1>5 DEF SameIds

-----------------------------------------------------------------------------
(* The memory of a process *)

\* A ledger that is right for all the process knows: its live tracks, what it has cached
\* and what it inferred.
Ledger(l, tr, ca, s) ==
    /\ \A c \in Camera : \A k \in tr.tracks[c] : l[k.id] = <<c, k.label>>
    /\ \A p \in DOMAIN ca : \A d \in ca[p].dets :
          d.id \in Nat /\ d.id < tr.next /\ l[d.id] = <<CameraOf[ca[p].clip], d.label>>
    /\ \A i \in DOMAIN s : \A d \in s[i].out.dets :
          d.id \in Nat /\ d.id < tr.next /\ l[d.id] = <<CameraOf[s[i].clip], d.label>>

EntryOK(e) == OnePerPlace(e.dets) /\ OnePerId(e.dets) /\ GapsAreShort(e.dets)

MemoryOK(tr, ca, s) ==
    /\ TrackerOK(tr) /\ (\E T : IsCache(ca, T)) /\ (\E S : s \in Seq(S))
    /\ \A p \in DOMAIN ca : EntryOK(ca[p])
    /\ \A i \in DOMAIN s : OnePerId(s[i].out.dets)
    /\ Recent(s, ca) /\ SameIds(s)
    /\ \E l : Ledger(l, tr, ca, s)

LEMMA MemoryInit == MemoryOK(NoTracks, <<>>, <<>>)
<1>1. TrackerOK(NoTracks) /\ \A c \in Camera : NoTracks.tracks[c] = {}
  BY DEF TrackerOK, NoTracks, LiveOK
<1>2. DOMAIN <<>> = {} /\ <<>> \in Seq({}) /\ Len(<<>>) = 0
  OBVIOUS
<1>3. IsCache(<<>>, {})
  BY <1>2, CvAssumption DEF IsCache
<1>4. Recent(<<>>, <<>>) /\ SameIds(<<>>)
  BY <1>2 DEF Recent, SameIds
<1>5. Ledger(<<>>, NoTracks, <<>>, <<>>)
  BY <1>1, <1>2 DEF Ledger
<1> QED
  BY <1>1, <1>2, <1>3, <1>4, <1>5 DEF MemoryOK

\* Ledger m keeps what l says of what was known, and is right for the tracker and the entry.
Continues(l, m, tr, ca, s, tr2, e) ==
    /\ Ledger(l, tr, ca, s)
    /\ \A n \in Nat : n < tr.next => m[n] = l[n]
    /\ \A c \in Camera : \A k \in tr2.tracks[c] : m[k.id] = <<c, k.label>>
    /\ \A d \in e.dets :
          d.id \in Nat /\ d.id < tr2.next /\ m[d.id] = <<CameraOf[e.clip], d.label>>

\* An entry told by x after the tracker has become tr2: it is the one cached, if its clip is,
\* and a ledger that continues an earlier one is right for it.
Tells(tr, ca, s, tr2, e, x) ==
    /\ TrackerOK(tr2) /\ tr.next <= tr2.next /\ EntryOK(e)
    /\ \A p \in DOMAIN ca : ca[p].clip = e.clip => ca[p] = e
    /\ x.clip = e.clip /\ x.out.faked = FALSE /\ x.out.dets \subseteq e.dets
    /\ \E l, m : Continues(l, m, tr, ca, s, tr2, e)

\* A window told from an entry, whether that was cached or comes from a pass just made.
LEMMA MemoryUsed ==
  ASSUME NEW tr, NEW ca, NEW s, MemoryOK(tr, ca, s), NEW tr2, NEW e, NEW x,
         Tells(tr, ca, s, tr2, e, x)
  PROVE  MemoryOK(tr2, TouchedOf(ca, e), Append(s, x))
<1> DEFINE a == TouchedOf(ca, e)
           z == Append(s, x)
<1>0. /\ TrackerOK(tr2) /\ tr.next <= tr2.next /\ EntryOK(e)
      /\ \A p \in DOMAIN ca : ca[p].clip = e.clip => ca[p] = e
      /\ x.clip = e.clip /\ x.out.faked = FALSE /\ x.out.dets \subseteq e.dets
  BY DEF Tells
<1>12. PICK l, m : Continues(l, m, tr, ca, s, tr2, e)
  BY DEF Tells
<1>13. /\ Ledger(l, tr, ca, s)
       /\ \A n \in Nat : n < tr.next => m[n] = l[n]
       /\ \A c \in Camera : \A k \in tr2.tracks[c] : m[k.id] = <<c, k.label>>
       /\ \A d \in e.dets :
             d.id \in Nat /\ d.id < tr2.next /\ m[d.id] = <<CameraOf[e.clip], d.label>>
  BY <1>12 DEF Continues
<1>1. PICK T : IsCache(ca, T) /\ e \in T
  <2>1. PICK T : IsCache(ca, T)
    BY DEF MemoryOK
  <2>2. ca \in Seq(T \union {e})
    BY <2>1 DEF IsCache
  <2>3. IsCache(ca, T \union {e})
    BY <2>1, <2>2 DEF IsCache
  <2> QED
    BY <2>3
<1>2. PICK S : s \in Seq(S) /\ x \in S
  <2>1. PICK S : s \in Seq(S)
    BY DEF MemoryOK
  <2>2. s \in Seq(S \union {x})
    BY <2>1
  <2> QED
    BY <2>2
<1>3. /\ IsCache(a, T)
      /\ \A i \in DOMAIN a : a[i] = e \/ \E j \in DOMAIN ca : a[i] = ca[j]
  BY <1>1, TouchedFacts
<1> HIDE DEF a
<1>4. /\ Len(s) \in Nat /\ DOMAIN s = 1..Len(s) /\ DOMAIN z = 1..(Len(s) + 1)
      /\ z \in Seq(S) /\ \A k \in 1..Len(s) : z[k] = s[k]
      /\ z[Len(s) + 1] = x
  BY <1>2
<1> HIDE DEF z
<1>5. \A i \in DOMAIN z : (i \in DOMAIN s /\ z[i] = s[i]) \/ z[i] = x
  BY <1>4
<1>6. Recent(s, ca) /\ SameIds(s) /\ OnePerPlace(e.dets)
  BY <1>0 DEF MemoryOK, EntryOK
<1>7. Recent(z, a)
  BY <1>0, <1>1, <1>2, <1>6, RecentUsed DEF a, z
<1>8. SameIds(z)
  BY <1>0, <1>1, <1>2, <1>6, SameIdsUsed DEF z
<1>9. \A p \in DOMAIN a : EntryOK(a[p])
  BY <1>0, <1>3 DEF MemoryOK
<1>10. \A i \in DOMAIN z : OnePerId(z[i].out.dets)
  <2>1. OnePerId(x.out.dets)
    BY <1>0 DEF EntryOK, OnePerId
  <2>2. \A i \in DOMAIN s : OnePerId(s[i].out.dets)
    BY DEF MemoryOK
  <2> QED
    BY <1>5, <2>1, <2>2
<1>11. Ledger(m, tr2, a, z)
  <2>1. tr.next \in Nat /\ tr2.next \in Nat
    BY <1>0 DEF MemoryOK, TrackerOK
  <2>2. ASSUME NEW n \in Nat, n < tr.next PROVE n < tr2.next /\ m[n] = l[n]
    BY <1>0, <1>13, <2>1, <2>2
  <2>3. ASSUME NEW p \in DOMAIN a, NEW d \in a[p].dets
        PROVE  d.id \in Nat /\ d.id < tr2.next /\ m[d.id] = <<CameraOf[a[p].clip], d.label>>
    <3>1. CASE a[p] = e
      BY <1>13, <2>3, <3>1
    <3>2. CASE \E j \in DOMAIN ca : a[p] = ca[j]
      <4>1. PICK j \in DOMAIN ca : a[p] = ca[j]
        BY <3>2
      <4>2. d.id \in Nat /\ d.id < tr.next /\ l[d.id] = <<CameraOf[a[p].clip], d.label>>
        BY <1>13, <2>3, <4>1 DEF Ledger
      <4> QED
        BY <2>2, <4>2
    <3> QED
      BY <1>3, <3>1, <3>2
  <2>4. ASSUME NEW i \in DOMAIN z, NEW d \in z[i].out.dets
        PROVE  d.id \in Nat /\ d.id < tr2.next /\ m[d.id] = <<CameraOf[z[i].clip], d.label>>
    <3>1. CASE z[i] = x
      BY <1>0, <1>13, <2>4, <3>1
    <3>2. CASE i \in DOMAIN s /\ z[i] = s[i]
      <4>1. d.id \in Nat /\ d.id < tr.next /\ l[d.id] = <<CameraOf[z[i].clip], d.label>>
        BY <1>13, <2>4, <3>2 DEF Ledger
      <4> QED
        BY <2>2, <4>1
    <3> QED
      BY <1>5, <3>1, <3>2
  <2> QED
    BY <1>13, <2>3, <2>4 DEF Ledger
<1> QED
  BY <1>0, <1>3, <1>4, <1>7, <1>8, <1>9, <1>10, <1>11 DEF MemoryOK, a, z

\* A window told from a cached entry.
LEMMA MemoryHit ==
  ASSUME NEW tr, NEW ca, NEW s, MemoryOK(tr, ca, s), NEW g \in DOMAIN ca, NEW x,
         x.clip = ca[g].clip, x.out.faked = FALSE, x.out.dets \subseteq ca[g].dets
  PROVE  MemoryOK(tr, TouchedOf(ca, ca[g]), Append(s, x))
<1>1. PICK l : Ledger(l, tr, ca, s)
  BY DEF MemoryOK
<1>2. TrackerOK(tr) /\ tr.next <= tr.next /\ EntryOK(ca[g])
  BY DEF MemoryOK, TrackerOK
<1>3. \A p \in DOMAIN ca : ca[p].clip = ca[g].clip => ca[p] = ca[g]
  BY DEF MemoryOK, IsCache
<1>4. /\ \A c \in Camera : \A k \in tr.tracks[c] : l[k.id] = <<c, k.label>>
      /\ \A d \in ca[g].dets :
            d.id \in Nat /\ d.id < tr.next /\ l[d.id] = <<CameraOf[ca[g].clip], d.label>>
  BY <1>1 DEF Ledger
<1>6. Continues(l, l, tr, ca, s, tr, ca[g])
  BY <1>1, <1>4 DEF Continues
<1>5. Tells(tr, ca, s, tr, ca[g], x)
  BY <1>2, <1>3, <1>6 DEF Tells
<1> QED
  BY <1>5, MemoryUsed

\* A window told from a pass over its clip.
LEMMA MemoryMiss ==
  ASSUME NEW tr, NEW ca, NEW s, MemoryOK(tr, ca, s), NEW c \in Clip,
         ~\E i \in DOMAIN ca : ca[i].clip = c,
         NEW pass, pass = TrackClip(tr, Footage[c], CameraOf[c]),
         NEW e, e = [clip |-> c, dets |-> pass.dets],
         NEW x, x.clip = c, x.out.faked = FALSE, x.out.dets \subseteq pass.dets
  PROVE  MemoryOK(pass.tracker, TouchedOf(ca, e), Append(s, x))
<1>1. PICK l : Ledger(l, tr, ca, s)
  BY DEF MemoryOK
<1>2. TrackerOK(tr) /\ CameraOf[c] \in Camera /\ Footage[c] \in Seq(Picture)
  BY FootageAssumption DEF MemoryOK, Picture, Det
<1>3. Named(l, tr.next, CameraOf[c], tr, {})
  BY <1>1 DEF Ledger, Named
<1>4. /\ TrackerOK(pass.tracker) /\ tr.next <= pass.tracker.next
      /\ Named(l, tr.next, CameraOf[c], pass.tracker, pass.dets)
      /\ PassOK(pass.tracker.tracks[CameraOf[c]], pass.tracker.next, pass.dets, Len(Footage[c]))
  BY <1>2, <1>3, PassFacts
<1>5. PICK m : /\ \A n \in Nat : n < tr.next => m[n] = l[n]
               /\ \A k \in Camera : \A t \in pass.tracker.tracks[k] : m[t.id] = <<k, t.label>>
               /\ \A d \in pass.dets : m[d.id] = <<CameraOf[c], d.label>>
  BY <1>4 DEF Named
<1>6. e.clip = c /\ e.dets = pass.dets
  OBVIOUS
<1>7. EntryOK(e)
  BY <1>4, <1>6 DEF PassOK, EntryOK
<1>8. \A d \in e.dets :
         d.id \in Nat /\ d.id < pass.tracker.next /\ m[d.id] = <<CameraOf[e.clip], d.label>>
  BY <1>4, <1>5, <1>6 DEF PassOK, Known
<1>9. \A p \in DOMAIN ca : ca[p].clip = e.clip => ca[p] = e
  BY <1>6
<1>10. Tells(tr, ca, s, pass.tracker, e, x)
  <2>1. x.clip = e.clip /\ x.out.faked = FALSE /\ x.out.dets \subseteq e.dets
    BY <1>6
  <2>2. Continues(l, m, tr, ca, s, pass.tracker, e)
    BY <1>1, <1>5, <1>8, Zenon DEF Continues
  <2> QED
    BY <1>4, <1>7, <1>9, <2>1, <2>2, Zenon DEF Tells
<1> QED
  BY <1>10, MemoryUsed, Zenon

LEMMA FakeDetsTyped == FakeDets \in Seq(Det)
<1>1. [label |-> "person", at |-> 49] \in Det /\ [label |-> "item", at |-> 50] \in Det
  BY TrackerAssumption DEF Det
<1>2. ASSUME NEW a \in Det, NEW b \in Det PROVE <<a, b>> \in Seq(Det)
  <2> HIDE DEF Det
  <2> QED
    OBVIOUS
<1> QED
  BY <1>1, <1>2 DEF FakeDets

\* A stand-in, tracked at the given time.
LEMMA MemoryFaked ==
  ASSUME NEW tr, NEW ca, NEW s, MemoryOK(tr, ca, s), NEW c \in Clip, NEW t \in Nat,
         NEW up, up = Update(tr, FakeDets, CameraOf[c], t),
         NEW x, x.clip = c, x.out.faked = TRUE, x.out.dets = Identified(FakeDets, up.ids, t)
  PROVE  MemoryOK(up.tracker, ca, Append(s, x))
<1> DEFINE z == Append(s, x)
           new == Identified(FakeDets, up.ids, t)
<1>1. PICK l : Ledger(l, tr, ca, s)
  BY DEF MemoryOK
<1>2. TrackerOK(tr) /\ CameraOf[c] \in Camera /\ tr.next \in Nat
  BY FootageAssumption DEF MemoryOK, TrackerOK
<1>3. Updated(tr, FakeDets, CameraOf[c], t, up.tracker, up.ids)
  BY <1>2, FakeDetsTyped, UpdateFacts
<1>4. Named(l, tr.next, CameraOf[c], tr, {})
  BY <1>1 DEF Ledger, Named
<1>5. Named(l, tr.next, CameraOf[c], up.tracker, new)
  <2>1. Named(l, tr.next, CameraOf[c], up.tracker, {} \union new)
    BY <1>2, <1>3, <1>4, NamedStays
  <2>2. {} \union new = new
    OBVIOUS
  <2> HIDE DEF new
  <2> QED
    BY <2>1, <2>2, Zenon
<1>6. PICK m : /\ \A n \in Nat : n < tr.next => m[n] = l[n]
               /\ \A k \in Camera : \A g \in up.tracker.tracks[k] : m[g.id] = <<k, g.label>>
               /\ \A d \in new : m[d.id] = <<CameraOf[c], d.label>>
  BY <1>5, Zenon DEF Named
<1>7. /\ TrackerOK(up.tracker) /\ tr.next <= up.tracker.next /\ up.tracker.next \in Nat
      /\ \A i \in DOMAIN FakeDets : up.ids[i] \in Nat /\ up.ids[i] < up.tracker.next
      /\ \A i, j \in DOMAIN FakeDets : up.ids[i] = up.ids[j] => i = j
  <2>1. TrackerOK(up.tracker)
    BY <1>3 DEF Updated
  <2>2. up.tracker.next \in Nat
    BY <2>1 DEF TrackerOK
  <2>3. tr.next <= up.tracker.next
    BY <1>3 DEF Updated
  <2>4. \A i \in DOMAIN FakeDets : up.ids[i] \in Nat /\ up.ids[i] < up.tracker.next
    BY <1>3 DEF Updated
  <2>5. \A i, j \in DOMAIN FakeDets : up.ids[i] = up.ids[j] => i = j
    BY <1>3 DEF Updated
  <2> QED
    BY <2>1, <2>2, <2>3, <2>4, <2>5
<1>8. \A d \in new : d.nth \in DOMAIN FakeDets /\ d.id = up.ids[d.nth]
  BY DEF Identified
<1>9. \A a, b \in new : a.nth = b.nth => a = b
  BY DEF Identified
<1>10. PICK S : s \in Seq(S) /\ x \in S
  <2>1. PICK S : s \in Seq(S)
    BY DEF MemoryOK
  <2>2. s \in Seq(S \union {x})
    BY <2>1
  <2> QED
    BY <2>2
<1>11. /\ DOMAIN z = 1..(Len(s) + 1) /\ z \in Seq(S)
       /\ \A i \in DOMAIN z : (i \in DOMAIN s /\ z[i] = s[i]) \/ z[i] = x
  BY <1>10
<1>12. x.out.dets = new
  OBVIOUS
<1> HIDE DEF new
<1>13. OnePerId(new)
  BY <1>7, <1>8, <1>9 DEF OnePerId
<1>14. Recent(z, ca) /\ SameIds(z)
  <2>1. Recent(s, ca) /\ SameIds(s)
    BY DEF MemoryOK
  <2> QED
    BY <1>10, <2>1, RecentFaked, SameIdsFaked
<1> HIDE DEF z
<1>15. Ledger(m, up.tracker, ca, z)
  <2>1. ASSUME NEW n \in Nat, n < tr.next PROVE n < up.tracker.next /\ m[n] = l[n]
    BY <1>2, <1>6, <1>7, <2>1
  <2>2. ASSUME NEW p \in DOMAIN ca, NEW d \in ca[p].dets
        PROVE  d.id \in Nat /\ d.id < up.tracker.next /\ m[d.id] = <<CameraOf[ca[p].clip], d.label>>
    <3>1. d.id \in Nat /\ d.id < tr.next /\ l[d.id] = <<CameraOf[ca[p].clip], d.label>>
      BY <1>1, <2>2 DEF Ledger
    <3> QED
      BY <2>1, <3>1
  <2>3. ASSUME NEW i \in DOMAIN z, NEW d \in z[i].out.dets
        PROVE  d.id \in Nat /\ d.id < up.tracker.next /\ m[d.id] = <<CameraOf[z[i].clip], d.label>>
    <3>1. CASE z[i] = x
      BY <1>6, <1>7, <1>8, <1>12, <2>3, <3>1
    <3>2. CASE i \in DOMAIN s /\ z[i] = s[i]
      <4>1. d.id \in Nat /\ d.id < tr.next /\ l[d.id] = <<CameraOf[z[i].clip], d.label>>
        BY <1>1, <2>3, <3>2 DEF Ledger
      <4> QED
        BY <2>1, <4>1
    <3> QED
      BY <1>11, <3>1, <3>2
  <2> QED
    BY <1>6, <2>2, <2>3 DEF Ledger
<1>16. \A i \in DOMAIN z : OnePerId(z[i].out.dets)
  <2>1. \A i \in DOMAIN s : OnePerId(s[i].out.dets)
    BY DEF MemoryOK
  <2> QED
    BY <1>11, <1>12, <1>13, <2>1
<1>17. (\E T : IsCache(ca, T)) /\ \A p \in DOMAIN ca : EntryOK(ca[p])
  BY DEF MemoryOK
<1> QED
  BY <1>7, <1>11, <1>14, <1>15, <1>16, <1>17 DEF MemoryOK, z

-----------------------------------------------------------------------------
(* The processes *)

\* A process at work has a window in hand.
WorkOK ==
    /\ pending \subseteq DOMAIN Window
    /\ batch \in [Worker -> Seq(DOMAIN Window)]
    /\ pc \in [Worker -> {"idle", "infer", "store", "tracks", "insert"}]
    /\ \A w \in Worker : pc[w] # "idle" => batch[w] # <<>>

LEMMA WorkInit == Init => WorkOK
  BY DEF Init, WorkOK

LEMMA WindowsCounted == Len(Window) \in Nat /\ DOMAIN Window = 1..Len(Window)
  BY FootageAssumption

LEMMA AtMostNat == \A n \in Nat : AtMost(n) \in Nat
  BY CvAssumption DEF AtMost

\* What is taken is a sequence of windows.
LEMMA WorkTake ==
  ASSUME WorkOK, NEW w \in Worker, NEW ranks \in Seq(DOMAIN Window), Take(w, ranks),
         pending' \subseteq pending
  PROVE  WorkOK'
<1>1. /\ batch' = [batch EXCEPT ![w] = ranks]
      /\ pc' = [pc EXCEPT ![w] = IF ranks = <<>> THEN "idle" ELSE "infer"]
  BY DEF Take
<1>2. batch' \in [Worker -> Seq(DOMAIN Window)] /\ pending' \subseteq DOMAIN Window
  BY <1>1 DEF WorkOK
<1>3. pc' \in [Worker -> {"idle", "infer", "store", "tracks", "insert"}]
  BY <1>1 DEF WorkOK
<1>4. \A v \in Worker : pc'[v] # "idle" => batch'[v] # <<>>
  <2> SUFFICES ASSUME NEW v \in Worker, pc'[v] # "idle" PROVE batch'[v] # <<>>
    OBVIOUS
  <2>1. CASE v = w
    BY <1>1, <2>1 DEF WorkOK
  <2>2. CASE v # w
    BY <1>1, <2>2 DEF WorkOK
  <2> QED
    BY <2>1, <2>2
<1> QED
  BY <1>2, <1>3, <1>4 DEF WorkOK

LEMMA WorkStep == WorkOK /\ [Next]_vars => WorkOK'
<1> SUFFICES ASSUME WorkOK, [Next]_vars PROVE WorkOK'
  OBVIOUS
<1>1. ASSUME NEW w \in Worker, Claim(w) PROVE WorkOK'
  <2>1. PICK ranks \in [1..AtMost(Cardinality(pending)) -> pending] :
           Take(w, ranks) /\ pending' = pending \ ToSet(ranks)
    BY <1>1 DEF Claim
  <2>2. Cardinality(pending) \in Nat
    <3>1. IsFiniteSet(1..Len(Window)) /\ pending \in SUBSET (1..Len(Window))
      BY WindowsCounted, FS_Interval DEF WorkOK
    <3>2. IsFiniteSet(pending)
      BY <3>1, FS_Subset
    <3> QED
      BY <3>2, FS_CardinalityType
  <2> DEFINE m == AtMost(Cardinality(pending))
  <2>3. m \in Nat
    BY <2>2, AtMostNat
  <2>4. ranks \in [1..m -> pending]
    BY <2>1
  <2> HIDE DEF m
  <2>5. ranks \in Seq(DOMAIN Window)
    BY <2>3, <2>4 DEF WorkOK
  <2> QED
    BY <2>1, <2>5, WorkTake
<1>2. ASSUME NEW w \in Worker, PollFile(w) PROVE WorkOK'
  <2> DEFINE m == AtMost(Len(Window))
             ranks == [n \in 1..m |-> n]
  <2>1. m \in Nat /\ m <= Len(Window)
    BY WindowsCounted, AtMostNat, CvAssumption DEF AtMost
  <2>2. Take(w, ranks) /\ pending' = pending
    BY <1>2 DEF PollFile
  <2> HIDE DEF m
  <2>3. ranks \in Seq(DOMAIN Window)
    BY <2>1, WindowsCounted
  <2> HIDE DEF ranks
  <2> QED
    BY <2>2, <2>3, WorkTake
<1>3. ASSUME NEW w \in Worker, Infer(w) PROVE WorkOK'
  BY <1>3 DEF Infer, WorkOK
<1>4. ASSUME NEW w \in Worker, WriteDetections(w) PROVE WorkOK'
  BY <1>4 DEF WriteDetections, WorkOK
<1>5. ASSUME NEW w \in Worker, UpdateTrack(w) PROVE WorkOK'
  BY <1>5 DEF UpdateTrack, NextRow, WorkOK
<1>6. ASSUME NEW w \in Worker, InsertTrack(w) PROVE WorkOK'
  BY <1>6 DEF InsertTrack, NextRow, WorkOK
<1>7. ASSUME NEW w \in Worker, Publish(w) PROVE WorkOK'
  <2>1. /\ pc[w] = "tracks" /\ pending' = pending
        /\ batch' = [batch EXCEPT ![w] = Tail(batch[w])]
        /\ pc' = [pc EXCEPT ![w] = IF Len(batch[w]) = 1 THEN "idle" ELSE "infer"]
    BY <1>7 DEF Publish
  <2>2. batch[w] \in Seq(DOMAIN Window) /\ batch[w] # <<>>
    BY <2>1 DEF WorkOK
  <2> DEFINE b == batch[w]
             t == Tail(b)
  <2>3. t \in Seq(DOMAIN Window) /\ Len(t) = Len(b) - 1 /\ Len(b) \in Nat
    BY <2>2, HeadTailProperties, LenProperties
  <2>4. Len(b) # 1 => t # <<>>
    <3>1. Len(<<>>) = 0
      OBVIOUS
    <3> HIDE DEF t, b
    <3> QED
      BY <2>3, <3>1
  <2>5. /\ batch' = [batch EXCEPT ![w] = t]
        /\ pc' = [pc EXCEPT ![w] = IF Len(b) = 1 THEN "idle" ELSE "infer"]
    BY <2>1
  <2> HIDE DEF t, b
  <2>6. batch' \in [Worker -> Seq(DOMAIN Window)]
    BY <2>3, <2>5 DEF WorkOK
  <2>7. pc' \in [Worker -> {"idle", "infer", "store", "tracks", "insert"}]
    BY <2>5 DEF WorkOK
  <2>8. \A v \in Worker : pc'[v] # "idle" => batch'[v] # <<>>
    <3> SUFFICES ASSUME NEW v \in Worker, pc'[v] # "idle" PROVE batch'[v] # <<>>
      OBVIOUS
    <3>1. CASE v = w
      BY <2>4, <2>5, <3>1 DEF WorkOK
    <3>2. CASE v # w
      BY <2>5, <3>2 DEF WorkOK
    <3> QED
      BY <3>1, <3>2
  <2> QED
    BY <2>1, <2>6, <2>7, <2>8 DEF WorkOK
<1>8. ASSUME NEW w \in Worker, Die(w) PROVE WorkOK'
  <2>1. <<>> \in Seq(DOMAIN Window)
    OBVIOUS
  <2> QED
    BY <1>8, <2>1 DEF Die, WorkOK
<1>9. ASSUME NEW c \in Clip, Lose(c) PROVE WorkOK'
  BY <1>9 DEF Lose, WorkOK
<1>10. CASE UNCHANGED vars
  BY <1>10 DEF vars, WorkOK
<1> QED
  BY <1>1, <1>2, <1>3, <1>4, <1>5, <1>6, <1>7, <1>8, <1>9, <1>10 DEF Next

\* The window in work is one of the windows.
LEMMA CurrentTyped ==
  ASSUME WorkOK, NEW w \in Worker, pc[w] # "idle"
  PROVE  /\ Current(w).clip \in Clip /\ Current(w).from \in Nat
         /\ CameraOf[Current(w).clip] \in Camera
<1>1. batch[w] \in Seq(DOMAIN Window) /\ batch[w] # <<>>
  BY DEF WorkOK
<1>2. Head(batch[w]) \in DOMAIN Window
  BY <1>1, HeadTailProperties
<1>3. ASSUME NEW n \in DOMAIN Window PROVE Window[n] \in [clip : Clip, from : Nat, to : Nat]
  <2> DEFINE W == [clip : Clip, from : Nat, to : Nat]
  <2>1. Window \in Seq(W)
    BY FootageAssumption
  <2> HIDE DEF W
  <2>2. n \in 1..Len(Window)
    BY <2>1, LenProperties
  <2>3. Window[n] \in W
    BY <2>1, <2>2, ElementOfSeq
  <2> QED
    BY <2>3 DEF W
<1>4. Window[Head(batch[w])] \in [clip : Clip, from : Nat, to : Nat]
  BY <1>2, <1>3, Zenon
<1> QED
  BY <1>4, FootageAssumption DEF Current

MemoryInv ==
    /\ DOMAIN tracker = Worker /\ DOMAIN cache = Worker /\ DOMAIN seen = Worker
    /\ DOMAIN out = Worker
    /\ \A w \in Worker : MemoryOK(tracker[w], cache[w], seen[w])

LEMMA MemoryStart == Init => MemoryInv
  BY MemoryInit DEF Init, MemoryInv

\* An inference, from the cache, from a pass or a stand-in.
LEMMA InferMemory ==
  ASSUME WorkOK, MemoryInv, NEW w \in Worker, Infer(w)
  PROVE  MemoryInv'
<1> DEFINE c == Current(w).clip
           x == [clip |-> c, out |-> out'[w]]
           tr == tracker[w]
           ca == cache[w]
           s == seen[w]
<1>1. /\ c \in Clip /\ Current(w).from \in Nat /\ MemoryOK(tr, ca, s)
      /\ seen' = [seen EXCEPT ![w] = Append(s, x)]
      /\ Real(w) \/ Fake(w)
  <2>1. pc[w] = "infer" /\ seen' = [seen EXCEPT ![w] = Append(s, x)] /\ (Real(w) \/ Fake(w))
    BY DEF Infer
  <2> QED
    BY <2>1, CurrentTyped DEF MemoryInv
<1>2. x.clip = c /\ x.out = out'[w]
  OBVIOUS
<1>3. Cached(w, c) <=> \E i \in DOMAIN ca : ca[i].clip = c
  BY DEF Cached
<1>4. \A e : e.clip = c => Touched(w, e) = TouchedOf(ca, e)
  BY DEF Touched, TouchedOf, Others, OthersOf, Cached, Position
<1>5. ASSUME NEW tr2, NEW ca2,
             DOMAIN tracker' = Worker, DOMAIN cache' = Worker, DOMAIN out' = Worker,
             tracker'[w] = tr2, cache'[w] = ca2, MemoryOK(tr2, ca2, Append(s, x)),
             \A v \in Worker : v # w => tracker'[v] = tracker[v] /\ cache'[v] = cache[v]
      PROVE  MemoryInv'
  <2>1. \A v \in Worker : MemoryOK(tracker'[v], cache'[v], seen'[v])
    <3> SUFFICES ASSUME NEW v \in Worker PROVE MemoryOK(tracker'[v], cache'[v], seen'[v])
      OBVIOUS
    <3>1. CASE v = w
      <4>1. tracker'[v] = tr2 /\ cache'[v] = ca2 /\ seen'[v] = Append(s, x)
        BY <1>1, <1>5, <3>1 DEF MemoryInv
      <4> QED
        BY <1>5, <4>1
    <3>2. CASE v # w
      <4>1. tracker'[v] = tracker[v] /\ cache'[v] = cache[v] /\ seen'[v] = seen[v]
        BY <1>1, <1>5, <3>2 DEF MemoryInv
      <4> QED
        BY <4>1 DEF MemoryInv
    <3> QED
      BY <3>1, <3>2
  <2> QED
    BY <1>1, <1>5, <2>1 DEF MemoryInv
<1> HIDE DEF c, x, tr, ca, s
<1>6. CASE Real(w) /\ Cached(w, c)
  <2> DEFINE g == Position(w, c)
  <2>1. g \in DOMAIN ca /\ ca[g].clip = c
    BY <1>3, <1>6 DEF Position, ca
  <2> HIDE DEF g
  <2>2. /\ tracker' = tracker
        /\ cache' = [cache EXCEPT ![w] = Touched(w, ca[g])]
        /\ out' = [out EXCEPT ![w] = [faked |-> FALSE, dets |-> Slice(ca[g].dets, Current(w))]]
    BY <1>6 DEF Real, EntryOf, g, c, ca
  <2>3. out'[w] = [faked |-> FALSE, dets |-> Slice(ca[g].dets, Current(w))] /\ DOMAIN out' = Worker
    BY <2>2 DEF MemoryInv
  <2>4. x.out.faked = FALSE /\ x.out.dets \subseteq ca[g].dets
    BY <1>2, <2>3 DEF Slice
  <2>5. MemoryOK(tr, TouchedOf(ca, ca[g]), Append(s, x))
    BY <1>1, <1>2, <2>1, <2>4, MemoryHit
  <2>6. Touched(w, ca[g]) = TouchedOf(ca, ca[g])
    BY <1>4, <2>1
  <2>7. /\ DOMAIN tracker' = Worker /\ DOMAIN cache' = Worker
        /\ tracker'[w] = tr /\ cache'[w] = TouchedOf(ca, ca[g])
        /\ \A v \in Worker : v # w => tracker'[v] = tracker[v] /\ cache'[v] = cache[v]
    BY <2>2, <2>6 DEF MemoryInv, tr
  <2> QED
    BY <1>5, <2>3, <2>5, <2>7
<1>7. CASE Real(w) /\ ~Cached(w, c)
  <2> DEFINE pass == TrackClip(tr, Footage[c], CameraOf[c])
             e == [clip |-> c, dets |-> pass.dets]
  <2>1. /\ tracker' = [tracker EXCEPT ![w] = pass.tracker]
        /\ cache' = [cache EXCEPT ![w] = Touched(w, e)]
        /\ out' = [out EXCEPT ![w] = [faked |-> FALSE, dets |-> Slice(e.dets, Current(w))]]
    BY <1>7 DEF Real, c, tr
  <2>2. e.clip = c /\ e.dets = pass.dets
    OBVIOUS
  <2>3. out'[w] = [faked |-> FALSE, dets |-> Slice(e.dets, Current(w))] /\ DOMAIN out' = Worker
    BY <2>1 DEF MemoryInv
  <2> HIDE DEF pass
  <2>4. x.out.faked = FALSE /\ x.out.dets \subseteq pass.dets
    BY <1>2, <2>2, <2>3 DEF Slice
  <2>5. MemoryOK(pass.tracker, TouchedOf(ca, e), Append(s, x))
    BY <1>1, <1>2, <1>3, <1>7, <2>4, MemoryMiss DEF pass
  <2>6. Touched(w, e) = TouchedOf(ca, e)
    BY <1>4, <2>2
  <2> HIDE DEF e
  <2>7. /\ DOMAIN tracker' = Worker /\ DOMAIN cache' = Worker
        /\ tracker'[w] = pass.tracker /\ cache'[w] = TouchedOf(ca, e)
        /\ \A v \in Worker : v # w => tracker'[v] = tracker[v] /\ cache'[v] = cache[v]
    BY <2>1, <2>6 DEF MemoryInv
  <2> QED
    BY <1>5, <2>3, <2>5, <2>7
<1>8. CASE Fake(w)
  <2> DEFINE up == Update(tr, FakeDets, CameraOf[c], Current(w).from)
             t == Current(w).from
  <2>1. /\ tracker' = [tracker EXCEPT ![w] = up.tracker]
        /\ out' = [out EXCEPT ![w] = [faked |-> TRUE, dets |-> Identified(FakeDets, up.ids, t)]]
        /\ cache' = cache
    BY <1>8 DEF Fake, c, tr
  <2> HIDE DEF up
  <2>2. /\ out'[w] = [faked |-> TRUE, dets |-> Identified(FakeDets, up.ids, t)]
        /\ DOMAIN out' = Worker
    BY <2>1 DEF MemoryInv
  <2>3. x.out.faked = TRUE /\ x.out.dets = Identified(FakeDets, up.ids, t)
    BY <1>2, <2>2
  <2>4. MemoryOK(up.tracker, ca, Append(s, x))
    BY <1>1, <1>2, <2>3, MemoryFaked DEF up
  <2>5. /\ DOMAIN tracker' = Worker /\ DOMAIN cache' = Worker
        /\ tracker'[w] = up.tracker /\ cache'[w] = ca
        /\ \A v \in Worker : v # w => tracker'[v] = tracker[v] /\ cache'[v] = cache[v]
    BY <2>1 DEF MemoryInv, ca
  <2> QED
    BY <1>5, <2>2, <2>4, <2>5
<1> QED
  BY <1>1, <1>6, <1>7, <1>8

LEMMA MemoryStep == WorkOK /\ MemoryInv /\ [Next]_vars => MemoryInv'
<1> SUFFICES ASSUME WorkOK, MemoryInv, [Next]_vars PROVE MemoryInv'
  OBVIOUS
<1>1. ASSUME NEW w \in Worker, Infer(w) PROVE MemoryInv'
  BY <1>1, InferMemory
<1>2. ASSUME NEW w \in Worker, Die(w) PROVE MemoryInv'
  BY <1>2, MemoryInit DEF Die, MemoryInv
<1>3. ASSUME UNCHANGED <<tracker, cache, seen>>, DOMAIN out' = Worker PROVE MemoryInv'
  BY <1>3 DEF MemoryInv
<1>4. ASSUME NEW w \in Worker, Claim(w) \/ PollFile(w) PROVE MemoryInv'
  BY <1>3, <1>4 DEF Claim, PollFile, Take, memory, MemoryInv
<1>5. ASSUME NEW w \in Worker, WriteDetections(w) \/ UpdateTrack(w) \/ InsertTrack(w)
      PROVE  MemoryInv'
  BY <1>3, <1>5 DEF WriteDetections, UpdateTrack, InsertTrack, memory, MemoryInv
<1>6. ASSUME NEW w \in Worker, Publish(w) PROVE MemoryInv'
  BY <1>3, <1>6 DEF Publish, memory, MemoryInv
<1>7. ASSUME NEW c \in Clip, Lose(c) PROVE MemoryInv'
  BY <1>3, <1>7 DEF Lose, memory, MemoryInv
<1>8. CASE UNCHANGED vars
  BY <1>3, <1>8 DEF vars, MemoryInv
<1> QED
  BY <1>1, <1>2, <1>4, <1>5, <1>6, <1>7, <1>8 DEF Next

LEMMA MemoryAlways == Spec => [](WorkOK /\ MemoryInv)
<1>1. Init => WorkOK /\ MemoryInv
  BY WorkInit, MemoryStart
<1>2. WorkOK /\ MemoryInv /\ [Next]_vars => (WorkOK /\ MemoryInv)'
  BY WorkStep, MemoryStep
<1> QED
  BY <1>1, <1>2, PTL DEF Spec

\* spec/18, "detect once per segment": the windows of a clip get the same ids as long as
\* fewer other clips than the cache holds were used in between.
THEOREM IdsStayTheSame == Spec => []SameIdsWhileRecent
<1>1. MemoryInv => SameIdsWhileRecent
  BY DEF MemoryInv, MemoryOK, SameIds, SameIdsWhileRecent
<1> QED
  BY <1>1, MemoryAlways, PTL

\* An id of a process stands for one camera and one label, and for one detection of a frame.
THEOREM IdsAreIdentities == Spec => []IdsIdentify
<1>1. MemoryInv => IdsIdentify
  <2> SUFFICES ASSUME MemoryInv, NEW w \in Worker, NEW i \in DOMAIN seen[w],
                      NEW j \in DOMAIN seen[w], NEW a \in seen[w][i].out.dets,
                      NEW b \in seen[w][j].out.dets, a.id = b.id
               PROVE  /\ CameraOf[seen[w][i].clip] = CameraOf[seen[w][j].clip]
                      /\ a.label = b.label
                      /\ i = j /\ a.time = b.time => a = b
    BY DEF IdsIdentify
  <2>1. MemoryOK(tracker[w], cache[w], seen[w])
    BY DEF MemoryInv
  <2>2. PICK l : Ledger(l, tracker[w], cache[w], seen[w])
    BY <2>1 DEF MemoryOK
  <2>3. /\ l[a.id] = <<CameraOf[seen[w][i].clip], a.label>>
        /\ l[b.id] = <<CameraOf[seen[w][j].clip], b.label>>
    BY <2>2 DEF Ledger
  <2>4. OnePerId(seen[w][i].out.dets)
    BY <2>1 DEF MemoryOK
  <2> QED
    BY <2>3, <2>4 DEF OnePerId
<1> QED
  BY <1>1, MemoryAlways, PTL

\* tracking.py, "a re-appearance after a gap gets a NEW id": within a clip, one id is never
\* out of sight for longer than MaxAge.
THEOREM GapsAreNewIds == Spec => []GapsEndTracks
<1>1. MemoryInv => GapsEndTracks
  <2> SUFFICES ASSUME MemoryInv, NEW w \in Worker, NEW e \in ToSet(cache[w])
               PROVE  GapsAreShort(e.dets)
    BY DEF GapsEndTracks, GapsAreShort
  <2>1. PICK p \in DOMAIN cache[w] : e = cache[w][p]
    BY DEF ToSet
  <2>2. EntryOK(cache[w][p])
    BY DEF MemoryInv, MemoryOK
  <2> QED
    BY <2>1, <2>2 DEF EntryOK
<1> QED
  BY <1>1, MemoryAlways, PTL

-----------------------------------------------------------------------------
(* Rows of tracks *)

Keys == Camera \X (1..MaxId)

\* The processes about to insert a row with the given key.
Inserting(p, b, u, k) ==
    {w \in Worker : p[w] = "insert" /\ <<CameraOf[Window[Head(b[w])].clip], Min(u[w])>> = k}

\* A process inserts only if it saw no row: the rows and those about to insert one are
\* never more than the processes.
RowsInv ==
    /\ rows \in [Keys -> Nat] /\ DOMAIN pc = Worker
    /\ \A k \in Keys : rows[k] + Cardinality(Inserting(pc, batch, unwritten, k)) <= Cardinality(Worker)

LEMMA InsertingCounted ==
  /\ Cardinality(Worker) \in Nat
  /\ \A p, b, u, k : /\ IsFiniteSet(Inserting(p, b, u, k))
                    /\ Cardinality(Inserting(p, b, u, k)) \in Nat
                    /\ Cardinality(Inserting(p, b, u, k)) <= Cardinality(Worker)
<1>1. IsFiniteSet(Worker) /\ Cardinality(Worker) \in Nat
  BY CvAssumption, FS_CardinalityType
<1>2. ASSUME NEW T \in SUBSET Worker
      PROVE  IsFiniteSet(T) /\ Cardinality(T) \in Nat /\ Cardinality(T) <= Cardinality(Worker)
  BY <1>1, FS_Subset, FS_CardinalityType
<1>3. \A p, b, u, k : Inserting(p, b, u, k) \in SUBSET Worker
  BY DEF Inserting
<1> QED
  BY <1>1, <1>2, <1>3

\* If no process starts to insert a row with a key, no more are about to.
LEMMA NoMoreInserting ==
  ASSUME NEW p, NEW b, NEW u, NEW p2, NEW b2, NEW u2, NEW k,
         \A v \in Worker : v \in Inserting(p2, b2, u2, k) => v \in Inserting(p, b, u, k)
  PROVE  Cardinality(Inserting(p2, b2, u2, k)) <= Cardinality(Inserting(p, b, u, k))
<1>1. Inserting(p2, b2, u2, k) \in SUBSET Inserting(p, b, u, k)
  BY DEF Inserting
<1> QED
  BY <1>1, InsertingCounted, FS_Subset

LEMMA RowsStay ==
  ASSUME RowsInv, rows' = rows, DOMAIN pc' = Worker,
         \A v \in Worker : pc'[v] = "insert" =>
            pc[v] = "insert" /\ batch'[v] = batch[v] /\ unwritten'[v] = unwritten[v]
  PROVE  RowsInv'
<1>1. ASSUME NEW k \in Keys
      PROVE  rows'[k] + Cardinality(Inserting(pc', batch', unwritten', k)) <= Cardinality(Worker)
  <2>1. Cardinality(Inserting(pc', batch', unwritten', k)) <= Cardinality(Inserting(pc, batch, unwritten, k))
    <3>1. \A v \in Worker : v \in Inserting(pc', batch', unwritten', k) =>
                           v \in Inserting(pc, batch, unwritten, k)
      BY DEF Inserting
    <3> QED
      BY <3>1, NoMoreInserting
  <2> DEFINE m == Cardinality(Inserting(pc, batch, unwritten, k))
             n == Cardinality(Inserting(pc', batch', unwritten', k))
  <2>2. m \in Nat /\ n \in Nat /\ n <= m /\ Cardinality(Worker) \in Nat
    BY <2>1, InsertingCounted
  <2>3. rows[k] \in Nat /\ rows'[k] = rows[k] /\ rows[k] + m <= Cardinality(Worker)
    BY DEF RowsInv
  <2> HIDE DEF m, n
  <2>4. rows'[k] + n <= Cardinality(Worker)
    BY <2>2, <2>3
  <2> QED
    BY <2>4 DEF n
<1> QED
  BY <1>1 DEF RowsInv

LEMMA RowsUpdate ==
  ASSUME RowsInv, NEW w \in Worker, UpdateTrack(w)
  PROVE  RowsInv'
<1>0. DOMAIN pc' = Worker
  BY DEF RowsInv, UpdateTrack, NextRow
<1>1. CASE rows[Key(w)] > 0
  <2>1. /\ pc' = [pc EXCEPT ![w] = "tracks"] /\ rows' = rows /\ batch' = batch
        /\ unwritten' = [unwritten EXCEPT ![w] = @ \ {Min(@)}]
    BY <1>1 DEF UpdateTrack, NextRow
  <2>2. \A v \in Worker : pc'[v] = "insert" =>
           pc[v] = "insert" /\ batch'[v] = batch[v] /\ unwritten'[v] = unwritten[v]
    BY <2>1 DEF RowsInv
  <2> QED
    BY <1>0, <2>1, <2>2, RowsStay
<1>2. CASE ~(rows[Key(w)] > 0)
  <2>1. /\ pc' = [pc EXCEPT ![w] = "insert"] /\ rows' = rows /\ batch' = batch
        /\ unwritten' = unwritten
    BY <1>2 DEF UpdateTrack
  <2>2. ASSUME NEW k \in Keys
        PROVE  rows'[k] + Cardinality(Inserting(pc', batch', unwritten', k)) <= Cardinality(Worker)
    <3> DEFINE m == Cardinality(Inserting(pc, batch, unwritten, k))
               n == Cardinality(Inserting(pc', batch', unwritten', k))
    <3>1. m \in Nat /\ n \in Nat /\ n <= Cardinality(Worker) /\ Cardinality(Worker) \in Nat
      BY InsertingCounted
    <3>2. rows[k] \in Nat /\ rows'[k] = rows[k] /\ rows[k] + m <= Cardinality(Worker)
      BY <2>1 DEF RowsInv
    <3>3. CASE k = Key(w)
      <4>1. rows[k] = 0
        BY <1>2, <3>2, <3>3
      <4> HIDE DEF m, n
      <4>2. rows'[k] + n <= Cardinality(Worker)
        BY <3>1, <3>2, <4>1
      <4> QED
        BY <4>2 DEF n
    <3>4. CASE k # Key(w)
      <4>1. \A v \in Worker : v \in Inserting(pc', batch', unwritten', k) =>
                             v \in Inserting(pc, batch, unwritten, k)
        <5> SUFFICES ASSUME NEW v \in Worker, v \in Inserting(pc', batch', unwritten', k)
                     PROVE  v \in Inserting(pc, batch, unwritten, k)
          OBVIOUS
        <5>1. v # w
          BY <2>1, <3>4 DEF Inserting, Key, Current
        <5>2. pc'[v] = pc[v]
          BY <2>1, <5>1 DEF RowsInv
        <5> QED
          BY <2>1, <5>2 DEF Inserting
      <4>2. n <= m
        BY <4>1, NoMoreInserting
      <4> HIDE DEF m, n
      <4>3. rows'[k] + n <= Cardinality(Worker)
        BY <3>1, <3>2, <4>2
      <4> QED
        BY <4>3 DEF n
    <3> QED
      BY <3>3, <3>4
  <2> QED
    BY <1>0, <2>1, <2>2 DEF RowsInv
<1> QED
  BY <1>1, <1>2

LEMMA RowsInsert ==
  ASSUME RowsInv, NEW w \in Worker, InsertTrack(w)
  PROVE  RowsInv'
<1>1. /\ pc[w] = "insert" /\ pc' = [pc EXCEPT ![w] = "tracks"] /\ batch' = batch
      /\ rows' = IF Key(w)[1] \in Seeded THEN [rows EXCEPT ![Key(w)] = @ + 1] ELSE rows
      /\ unwritten' = [unwritten EXCEPT ![w] = @ \ {Min(@)}]
  BY DEF InsertTrack, NextRow
<1>2. DOMAIN pc' = Worker /\ pc'[w] # "insert"
  BY <1>1 DEF RowsInv
<1>3. \A k \in Keys, v \in Worker :
         v \in Inserting(pc', batch', unwritten', k) =>
            v # w /\ v \in Inserting(pc, batch, unwritten, k)
  <2> SUFFICES ASSUME NEW k \in Keys, NEW v \in Worker,
                      v \in Inserting(pc', batch', unwritten', k)
               PROVE  v # w /\ v \in Inserting(pc, batch, unwritten, k)
    OBVIOUS
  <2>1. v # w
    BY <1>2 DEF Inserting
  <2>2. pc'[v] = pc[v] /\ unwritten'[v] = unwritten[v]
    BY <1>1, <2>1 DEF RowsInv
  <2> QED
    BY <1>1, <2>1, <2>2 DEF Inserting
<1>4. rows' \in [Keys -> Nat]
  <2>1. ASSUME Key(w) \in Keys PROVE rows[Key(w)] + 1 \in Nat
    BY <2>1 DEF RowsInv
  <2> QED
    BY <1>1, <2>1 DEF RowsInv
<1>5. ASSUME NEW k \in Keys
      PROVE  rows'[k] + Cardinality(Inserting(pc', batch', unwritten', k)) <= Cardinality(Worker)
  <2> DEFINE I == Inserting(pc, batch, unwritten, k)
             J == Inserting(pc', batch', unwritten', k)
  <2>1. /\ Cardinality(I) \in Nat /\ Cardinality(J) \in Nat /\ Cardinality(Worker) \in Nat
        /\ IsFiniteSet(I) /\ IsFiniteSet(J)
    BY InsertingCounted
  <2>2. rows[k] \in Nat /\ rows[k] + Cardinality(I) <= Cardinality(Worker)
    BY DEF RowsInv
  <2>3. J \in SUBSET I /\ w \notin J
    BY <1>3 DEF Inserting
  <2>4. k = Key(w) => w \in I
    BY <1>1 DEF Inserting, Key, Current
  <2>5. rows'[k] = rows[k] \/ (k = Key(w) /\ rows'[k] = rows[k] + 1)
    BY <1>1 DEF RowsInv
  <2> HIDE DEF I, J
  <2>6. Cardinality(J) <= Cardinality(I) /\ (Cardinality(I) = Cardinality(J) => I = J)
    BY <2>1, <2>3, FS_Subset
  <2>7. k = Key(w) => Cardinality(J) + 1 <= Cardinality(I)
    <3>1. k = Key(w) => Cardinality(I) # Cardinality(J)
      BY <2>3, <2>4, <2>6
    <3> QED
      BY <2>1, <2>6, <3>1
  <2>8. rows'[k] + Cardinality(J) <= Cardinality(Worker)
    BY <2>1, <2>2, <2>5, <2>6, <2>7
  <2> QED
    BY <2>8 DEF J
<1> QED
  BY <1>2, <1>4, <1>5 DEF RowsInv

LEMMA RowsInit == Init => RowsInv
<1> SUFFICES ASSUME Init PROVE RowsInv
  OBVIOUS
<1>1. rows = [k \in Keys |-> 0] /\ pc = [w \in Worker |-> "idle"]
  BY DEF Init, Keys
<1>2. ASSUME NEW k \in Keys
      PROVE  rows[k] + Cardinality(Inserting(pc, batch, unwritten, k)) <= Cardinality(Worker)
  <2> DEFINE n == Cardinality(Inserting(pc, batch, unwritten, k))
  <2>1. n \in Nat /\ n <= Cardinality(Worker)
    BY InsertingCounted
  <2>2. rows[k] = 0
    BY <1>1
  <2> HIDE DEF n
  <2>3. rows[k] + n <= Cardinality(Worker)
    BY <2>1, <2>2
  <2> QED
    BY <2>3 DEF n
<1> QED
  BY <1>1, <1>2 DEF RowsInv

LEMMA RowsStep == RowsInv /\ [Next]_vars => RowsInv'
<1> SUFFICES ASSUME RowsInv, [Next]_vars PROVE RowsInv'
  OBVIOUS
<1>1. ASSUME NEW w \in Worker, UpdateTrack(w) PROVE RowsInv'
  BY <1>1, RowsUpdate
<1>2. ASSUME NEW w \in Worker, InsertTrack(w) PROVE RowsInv'
  BY <1>2, RowsInsert
<1>3. ASSUME NEW w \in Worker, NEW s, s # "insert", pc' = [pc EXCEPT ![w] = s], rows' = rows,
             \A v \in Worker : v # w => batch'[v] = batch[v] /\ unwritten'[v] = unwritten[v]
      PROVE  RowsInv'
  <2>1. DOMAIN pc' = Worker
    BY <1>3 DEF RowsInv
  <2>2. \A v \in Worker : pc'[v] = "insert" =>
           pc[v] = "insert" /\ batch'[v] = batch[v] /\ unwritten'[v] = unwritten[v]
    BY <1>3 DEF RowsInv
  <2> QED
    BY <1>3, <2>1, <2>2, RowsStay
<1>4. ASSUME NEW w \in Worker, NEW ranks, Take(w, ranks) PROVE RowsInv'
  <2> DEFINE t == IF ranks = <<>> THEN "idle" ELSE "infer"
  <2>1. /\ pc' = [pc EXCEPT ![w] = t] /\ rows' = rows
        /\ unwritten' = unwritten /\ batch' = [batch EXCEPT ![w] = ranks]
    BY <1>4 DEF Take
  <2>2. t # "insert"
    OBVIOUS
  <2>3. \A v \in Worker : v # w => batch'[v] = batch[v] /\ unwritten'[v] = unwritten[v]
    BY <2>1
  <2> HIDE DEF t
  <2> QED
    BY <1>3, <2>1, <2>2, <2>3
<1>5. ASSUME NEW w \in Worker, Claim(w) \/ PollFile(w) PROVE RowsInv'
  BY <1>4, <1>5 DEF Claim, PollFile
<1>6. ASSUME NEW w \in Worker, Infer(w) PROVE RowsInv'
  <2>1. /\ pc' = [pc EXCEPT ![w] = "store"] /\ rows' = rows
        /\ batch' = batch /\ unwritten' = unwritten
    BY <1>6 DEF Infer
  <2> QED
    BY <1>3, <2>1
<1>7. ASSUME NEW w \in Worker, WriteDetections(w) PROVE RowsInv'
  <2>1. /\ pc' = [pc EXCEPT ![w] = "tracks"] /\ rows' = rows /\ batch' = batch
        /\ \A v \in Worker : v # w => unwritten'[v] = unwritten[v]
    BY <1>7 DEF WriteDetections
  <2> QED
    BY <1>3, <2>1
<1>8. ASSUME NEW w \in Worker, Publish(w) PROVE RowsInv'
  <2> DEFINE t == IF Len(batch[w]) = 1 THEN "idle" ELSE "infer"
  <2>1. /\ pc' = [pc EXCEPT ![w] = t] /\ rows' = rows /\ unwritten' = unwritten
        /\ \A v \in Worker : v # w => batch'[v] = batch[v]
    BY <1>8 DEF Publish
  <2>2. t # "insert"
    OBVIOUS
  <2> HIDE DEF t
  <2> QED
    BY <1>3, <2>1, <2>2
<1>9. ASSUME NEW w \in Worker, Die(w) PROVE RowsInv'
  <2>1. /\ pc' = [pc EXCEPT ![w] = "idle"] /\ rows' = rows
        /\ \A v \in Worker : v # w => batch'[v] = batch[v] /\ unwritten'[v] = unwritten[v]
    BY <1>9 DEF Die
  <2> QED
    BY <1>3, <2>1
<1>10. ASSUME NEW c \in Clip, Lose(c) PROVE RowsInv'
  BY <1>10, RowsStay DEF Lose, RowsInv
<1>11. CASE UNCHANGED vars
  BY <1>11, RowsStay DEF vars, RowsInv
<1> QED
  BY <1>1, <1>2, <1>5, <1>6, <1>7, <1>8, <1>9, <1>10, <1>11 DEF Next

\* Without a unique key in `tracks`, a track gets at most one row from each of the processes
\* that race for it.
THEOREM RowsAreBounded == Spec => []RowsPerTrack
<1>1. RowsInv => RowsPerTrack
  <2> SUFFICES ASSUME RowsInv, NEW k \in Keys PROVE rows[k] <= Cardinality(Worker)
    BY DEF RowsInv, RowsPerTrack
  <2> DEFINE n == Cardinality(Inserting(pc, batch, unwritten, k))
  <2>1. n \in Nat /\ Cardinality(Worker) \in Nat
    BY InsertingCounted
  <2>2. rows[k] \in Nat /\ rows[k] + n <= Cardinality(Worker)
    BY DEF RowsInv
  <2> HIDE DEF n
  <2> QED
    BY <2>1, <2>2
<1> QED
  BY <1>1, RowsInit, RowsStep, PTL DEF Spec

=============================================================================
