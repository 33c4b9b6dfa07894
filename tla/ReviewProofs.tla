---------------------------- MODULE ReviewProofs ----------------------------
(***************************************************************************)
(* Proofs about IncidentReview for any reviewers and builders and any      *)
(* number of reviews, builds, observations and deaths.                     *)
(***************************************************************************)
EXTENDS IncidentReview, TLAPS

-----------------------------------------------------------------------------
(* Type correctness *)

Content == Nat \union {Nil, Torn}
Verdict == Nat \union {Nil}
PackageType == [headline : Verdict, sha : Content]
Record == [reviewer : Reviewer, decision : Decision, model : Verdict]
Summary == [package : PackageType \union {Nil}, audit : Seq(Record)]
Reading == [at : {"read"}, decision : Decision, seen : Summary]
Work == [at : {"gathered", "encoding", "closed", "done"}, no : Nat, sha : Content,
         alone : BOOLEAN, headline : Verdict]

TypeOK ==
    /\ status \in {"open", "confirmed", "dismissed"}
    /\ evidence \in BOOLEAN
    /\ summary \in Summary
    /\ observed \in Nat
    /\ sources \in BOOLEAN
    /\ clip \in Content
    /\ complete \in SUBSET Nat
    /\ review \in [Reviewer -> {Idle} \union Reading]
    /\ build \in [Builder -> {Idle} \union Work]
    /\ started \in [reviews : Nat, builds : Nat]
    /\ faults \in Nat

LEMMA TypeInit == Init => TypeOK
<1> SUFFICES ASSUME Init PROVE TypeOK
  OBVIOUS
<1>1. summary \in Summary
  <2>1. <<>> \in Seq(Record)
    OBVIOUS
  <2> QED
    BY <2>1 DEF Init, Text, Summary
<1> QED
  BY <1>1 DEF Init, TypeOK, Content

LEMMA ReviewAt ==
  ASSUME TypeOK, NEW r \in Reviewer
  PROVE  /\ review[r].at = "read" => review[r] \in Reading
         /\ review[r].at # "read" => review[r] = Idle
  BY DEF TypeOK, Idle, Reading

LEMMA BuildAt ==
  ASSUME TypeOK, NEW b \in Builder
  PROVE  /\ build[b].at # "idle" => build[b] \in Work
         /\ build[b].at = "idle" => build[b] = Idle
  BY DEF TypeOK, Idle, Work

LEMMA DecidedType ==
  ASSUME TypeOK, NEW r \in Reviewer, review[r].at = "read"
  PROVE  /\ Decided(r) \in Record
         /\ PackageSeen(r) \in PackageType
         /\ review[r].seen \in Summary
         /\ review[r].decision \in Decision
<1>1. review[r] \in Reading
  BY ReviewAt
<1>2. review[r].seen \in Summary /\ review[r].decision \in Decision
  BY <1>1 DEF Reading
<1>3. review[r].seen.package \in PackageType \union {Nil}
  BY <1>2 DEF Summary
<1>4. ModelVersion(review[r].seen.package) \in Verdict
  BY <1>3 DEF ModelVersion, PackageType, Verdict
<1>5. EmptyPackage \in PackageType
  BY DEF EmptyPackage, PackageType, Verdict, Content
<1> QED
  BY <1>2, <1>3, <1>4, <1>5 DEF Decided, Record, PackageSeen

\* A verdict replaces status and log; the log it writes ends in its own record.
LEMMA VerdictWritten ==
  ASSUME TypeOK, NEW r \in Reviewer, WriteVerdict(r)
  PROVE  /\ status' = StatusOf(review[r].decision)
         /\ status' \in {"confirmed", "dismissed"}
         /\ summary' \in Summary
         /\ summary'.package = PackageSeen(r)
         /\ summary'.audit = Append(review[r].seen.audit, Decided(r))
         /\ review' = [review EXCEPT ![r] = Idle]
<1>1. review[r].at = "read"
  BY DEF WriteVerdict
<1>2. /\ Decided(r) \in Record /\ PackageSeen(r) \in PackageType
      /\ review[r].seen.audit \in Seq(Record)
  BY <1>1, DecidedType DEF Summary
<1>3. Append(review[r].seen.audit, Decided(r)) \in Seq(Record)
  BY <1>2
<1>4. summary' = [package |-> PackageSeen(r), audit |-> Append(review[r].seen.audit, Decided(r))]
  BY DEF WriteVerdict
<1>5. summary' \in Summary
  <2> HIDE DEF PackageSeen, Decided
  <2> QED
    BY <1>2, <1>3, <1>4 DEF Summary
<1>6. /\ summary'.package = PackageSeen(r)
      /\ summary'.audit = Append(review[r].seen.audit, Decided(r))
  BY <1>4
<1>7. status' = StatusOf(review[r].decision) /\ review' = [review EXCEPT ![r] = Idle]
  BY DEF WriteVerdict
<1>8. status' \in {"confirmed", "dismissed"}
  BY <1>7 DEF StatusOf
<1> QED
  BY <1>5, <1>6, <1>7, <1>8

LEMMA PackageWritten ==
  ASSUME TypeOK, NEW b \in Builder, WriteBack(b)
  PROVE  summary' \in Summary /\ summary'.package = Package(b) /\ summary'.audit = <<>>
<1>1. build[b] \in Work
  BY BuildAt DEF WriteBack
<1>2. Package(b) \in PackageType
  BY <1>1 DEF Package, PackageType, Work
<1>3. <<>> \in Seq(Record)
  OBVIOUS
<1>4. summary' = [package |-> Package(b), audit |-> <<>>]
  BY DEF WriteBack
<1> QED
  BY <1>2, <1>3, <1>4 DEF Summary

LEMMA TypeNext == TypeOK /\ [Next]_vars => TypeOK'
<1> SUFFICES ASSUME TypeOK, [Next]_vars PROVE TypeOK'
  OBVIOUS
<1>1. CASE Observe
  BY <1>1 DEF Observe, TypeOK, row, file
<1>2. CASE LoseSources
  BY <1>2 DEF LoseSources, TypeOK, row, file
<1>3. ASSUME NEW r \in Reviewer, NEW d \in Decision, ReadRow(r, d) PROVE TypeOK'
  <2>1. [at |-> "read", decision |-> d, seen |-> summary] \in Reading
    BY DEF TypeOK, Reading
  <2>2. review' \in [Reviewer -> {Idle} \union Reading]
    BY <1>3, <2>1 DEF ReadRow, TypeOK
  <2>3. started' \in [reviews : Nat, builds : Nat]
    BY <1>3 DEF ReadRow, TypeOK
  <2> QED
    BY <1>3, <2>2, <2>3 DEF ReadRow, TypeOK, row, world, file
<1>4. ASSUME NEW r \in Reviewer, WriteVerdict(r) PROVE TypeOK'
  <2>1. review' \in [Reviewer -> {Idle} \union Reading]
    BY <1>4, VerdictWritten DEF TypeOK
  <2>2. summary' \in Summary /\ status' \in {"confirmed", "dismissed"}
    BY <1>4, VerdictWritten
  <2> QED
    BY <1>4, <2>1, <2>2 DEF WriteVerdict, TypeOK, world, file
<1>5. ASSUME NEW b \in Builder, Building(b) PROVE TypeOK'
  <2>1. CASE Gather(b)
    <3>1. /\ started.builds \in Nat /\ started' \in [reviews : Nat, builds : Nat]
      BY <2>1 DEF Gather, TypeOK
    <3>2. [at |-> "gathered", no |-> started.builds + 1, sha |-> Nil, alone |-> TRUE,
           headline |-> IF observed = 0 THEN Nil ELSE observed] \in Work
      BY <3>1 DEF TypeOK, Work, Content, Verdict
    <3>3. build' \in [Builder -> {Idle} \union Work]
      BY <2>1, <3>2 DEF Gather, TypeOK
    <3> QED
      BY <2>1, <3>1, <3>3 DEF Gather, TypeOK, row, world, file
  <2>2. CASE NoCandidates(b)
    <3>1. build[b] \in Work
      BY <2>2, BuildAt DEF NoCandidates
    <3>2. build' \in [Builder -> {Idle} \union Work]
      BY <2>2, <3>1 DEF NoCandidates, TypeOK, Work
    <3> QED
      BY <2>2, <3>2 DEF NoCandidates, TypeOK, row, world, file
  <2>3. CASE OpenClip(b)
    <3>1. build[b] \in Work
      BY <2>3, BuildAt DEF OpenClip
    <3>2. \A c \in Builder : Encoding({c}) => build[c] \in Work
      BY BuildAt DEF Encoding
    <3>3. ASSUME NEW w \in Work, NEW x \in BOOLEAN
          PROVE  [w EXCEPT !.at = "encoding", !.alone = x] \in Work /\ [w EXCEPT !.alone = FALSE] \in Work
      BY DEF Work
    <3>4. Encoding(Builder) \in BOOLEAN
      BY DEF Encoding
    <3>5. build' \in [Builder -> {Idle} \union Work]
      BY <2>3, <3>1, <3>2, <3>3, <3>4 DEF OpenClip, TypeOK
    <3> QED
      BY <2>3, <3>5 DEF OpenClip, TypeOK, Content, row, world
  <2>4. CASE CloseClip(b)
    <3>1. build[b] \in Work
      BY <2>4, BuildAt DEF CloseClip
    <3>2. build' \in [Builder -> {Idle} \union Work]
      BY <2>4, <3>1 DEF CloseClip, TypeOK, Work
    <3>3. clip' \in Content /\ complete' \in SUBSET Nat
      BY <2>4, <3>1 DEF CloseClip, TypeOK, Work, Content, file
    <3> QED
      BY <2>4, <3>2, <3>3 DEF CloseClip, TypeOK, row, world
  <2>5. CASE StitchFails(b)
    <3>1. build[b] \in Work
      BY <2>5, BuildAt DEF StitchFails
    <3>2. build' \in [Builder -> {Idle} \union Work]
      BY <2>5, <3>1 DEF StitchFails, TypeOK, Work
    <3> QED
      BY <2>5, <3>2 DEF StitchFails, TypeOK, Content, row, world
  <2>6. CASE HashClip(b)
    <3>1. build[b] \in Work
      BY <2>6, BuildAt DEF HashClip
    <3>2. build' \in [Builder -> {Idle} \union Work]
      BY <2>6, <3>1 DEF HashClip, TypeOK, Work
    <3> QED
      BY <2>6, <3>2 DEF HashClip, TypeOK, row, world, file
  <2>7. CASE WriteBack(b)
    <3>1. build' \in [Builder -> {Idle} \union Work] /\ evidence' \in BOOLEAN
      BY <2>7 DEF WriteBack, TypeOK
    <3>2. summary' \in Summary
      BY <2>7, PackageWritten
    <3> QED
      BY <2>7, <3>1, <3>2 DEF WriteBack, TypeOK, world, file
  <2>8. CASE AbandonBuild(b)
    <3>1. build' \in [Builder -> {Idle} \union Work] /\ faults' \in Nat
      BY <2>8 DEF AbandonBuild, TypeOK
    <3> QED
      BY <2>8, <3>1 DEF AbandonBuild, TypeOK, row, world, file
  <2> QED
    BY <1>5, <2>1, <2>2, <2>3, <2>4, <2>5, <2>6, <2>7, <2>8 DEF Building
<1>6. CASE UNCHANGED vars
  BY <1>6 DEF vars, TypeOK
<1> QED
  BY <1>1, <1>2, <1>3, <1>4, <1>5, <1>6 DEF Next, Reviewing

\* Every reachable state of row, file, reviews and builds is well-typed.
THEOREM TypeCorrect == Spec => []TypeOK
  BY TypeInit, TypeNext, PTL DEF Spec

-----------------------------------------------------------------------------
(* The row *)

\* Only a verdict or a write-back changes the row.
LEMMA RowChanges ==
  ASSUME TypeOK, [Next]_vars
  PROVE  \/ UNCHANGED <<status, summary>>
         \/ \E r \in Reviewer : WriteVerdict(r)
         \/ UNCHANGED status /\ \E b \in Builder : WriteBack(b)
  BY DEF Next, vars, Observe, LoseSources, Reviewing, ReadRow, Building, Gather, NoCandidates,
     OpenClip, CloseClip, StitchFails, HashClip, WriteBack, AbandonBuild, row

LEMMA LastAppended ==
  ASSUME NEW S, NEW s \in Seq(S), NEW x \in S
  PROVE  /\ Append(s, x)[Len(Append(s, x))] = x
         /\ \A i \in DOMAIN s : i \in DOMAIN Append(s, x) /\ Append(s, x)[i] = s[i]
  OBVIOUS

LEMMA ExplainedNext == TypeOK /\ StatusIsExplained /\ [Next]_vars => StatusIsExplained'
<1> SUFFICES ASSUME TypeOK, StatusIsExplained, [Next]_vars PROVE StatusIsExplained'
  OBVIOUS
<1>1. CASE UNCHANGED <<status, summary>>
  BY <1>1 DEF StatusIsExplained
<1>2. ASSUME NEW r \in Reviewer, WriteVerdict(r) PROVE StatusIsExplained'
  <2>1. review[r].at = "read"
    BY <1>2 DEF WriteVerdict
  <2>2. Decided(r) \in Record /\ review[r].seen.audit \in Seq(Record)
    BY <2>1, DecidedType DEF Summary
  <2>3. summary'.audit[Len(summary'.audit)] = Decided(r)
    BY <1>2, <2>2, VerdictWritten, LastAppended
  <2>4. Decided(r).decision = review[r].decision
    BY DEF Decided
  <2> QED
    BY <1>2, <2>3, <2>4, VerdictWritten DEF StatusIsExplained
<1>3. ASSUME NEW b \in Builder, WriteBack(b) PROVE StatusIsExplained'
  BY <1>3, PackageWritten DEF StatusIsExplained
<1> QED
  BY <1>1, <1>2, <1>3, RowChanges

\* When the row has an audit log its last record is the verdict that the status shows, however
\* many reviews and builds overlap.
THEOREM StatusExplained == Spec => []StatusIsExplained
<1>1. Init => StatusIsExplained
  BY DEF Init, Text, StatusIsExplained
<1> QED
  BY <1>1, TypeInit, TypeNext, ExplainedNext, PTL DEF Spec

\* No step of a builder or a reviewer makes a reviewed incident open again.
THEOREM VerdictStays == Spec => ReviewedStaysReviewed
<1>1. TypeOK /\ [Next]_vars => [status # "open" => status' # "open"]_status
  <2> SUFFICES ASSUME TypeOK, [Next]_vars PROVE [status # "open" => status' # "open"]_status
    OBVIOUS
  <2>1. ASSUME NEW r \in Reviewer, WriteVerdict(r) PROVE status' # "open"
    BY <2>1, VerdictWritten
  <2> QED
    BY <2>1, RowChanges
<1> QED
  BY <1>1, TypeInit, TypeNext, PTL DEF Spec, ReviewedStaysReviewed

\* A record goes only with a write of a verdict that had read another log, or of a build.
THEOREM StaleWritersOnly == Spec => LostToStaleWritersOnly
<1> DEFINE Loss(i) ==
      \/ i \in DOMAIN summary'.audit /\ summary'.audit[i] = summary.audit[i]
      \/ \E r \in Reviewer :
            /\ review[r].at = "read" /\ review'[r] = Idle
            /\ review[r].seen.audit # summary.audit
      \/ \E b \in Builder : build[b].at = "done" /\ build'[b] = Idle
<1>1. TypeOK /\ [Next]_vars => [\A i \in DOMAIN summary.audit : Loss(i)]_summary
  <2> SUFFICES ASSUME TypeOK, [Next]_vars, summary' # summary, NEW i \in DOMAIN summary.audit
               PROVE  Loss(i)
    OBVIOUS
  <2>1. ASSUME NEW r \in Reviewer, WriteVerdict(r) PROVE Loss(i)
    <3>1. review[r].at = "read" /\ review'[r] = Idle
      BY <2>1 DEF WriteVerdict, TypeOK
    <3>2. CASE review[r].seen.audit = summary.audit
      <4>1. Decided(r) \in Record /\ review[r].seen.audit \in Seq(Record)
        BY <3>1, DecidedType DEF Summary
      <4>2. summary'.audit = Append(summary.audit, Decided(r))
        BY <2>1, <3>2, VerdictWritten
      <4> QED
        BY <3>2, <4>1, <4>2, LastAppended
    <3> QED
      BY <3>1, <3>2
  <2>2. ASSUME NEW b \in Builder, WriteBack(b) PROVE Loss(i)
    <3>1. build[b].at = "done" /\ build'[b] = Idle
      BY <2>2 DEF WriteBack, TypeOK
    <3> QED
      BY <3>1
  <2> QED
    BY <2>1, <2>2, RowChanges
<1> QED
  BY <1>1, TypeInit, TypeNext, PTL DEF Spec, LostToStaleWritersOnly

-----------------------------------------------------------------------------
(* The clip, with one build at a time *)

Finished(sha, clips) == sha = Nil \/ sha \in clips

\* What was hashed, or will be, is a finished clip: nobody else writes the file meanwhile.
ClipInv ==
    /\ summary.package # Nil => Finished(summary.package.sha, complete)
    /\ \A r \in Reviewer :
          review[r].at = "read" /\ review[r].seen.package # Nil
              => Finished(review[r].seen.package.sha, complete)
    /\ \A b \in Builder :
          /\ build[b].at \in {"gathered", "encoding", "closed"} => build[b].sha = Nil
          /\ build[b].at = "encoding" => build[b].alone
          /\ build[b].at = "closed" => clip \in complete
          /\ build[b].at = "done" => Finished(build[b].sha, complete)

OneBuilder == \A b, c \in Builder : b = c

LEMMA ClipNext ==
  ASSUME OneBuilder
  PROVE  TypeOK /\ ClipInv /\ [Next]_vars => ClipInv'
<1> SUFFICES ASSUME TypeOK, ClipInv, [Next]_vars PROVE ClipInv'
  OBVIOUS
<1>0. complete \subseteq complete' /\ \A sha : Finished(sha, complete) => Finished(sha, complete')
  <2>1. complete \subseteq complete'
    BY DEF Next, vars, Observe, LoseSources, Reviewing, ReadRow, WriteVerdict, Building, Gather,
       NoCandidates, OpenClip, CloseClip, StitchFails, HashClip, WriteBack, AbandonBuild, file
  <2> QED
    BY <2>1 DEF Finished
<1>1. CASE UNCHANGED <<summary, review, build, clip>>
  BY <1>0, <1>1 DEF ClipInv, Finished
<1>2. ASSUME NEW r \in Reviewer, NEW d \in Decision, ReadRow(r, d) PROVE ClipInv'
  <2>1. UNCHANGED <<summary, build, clip, complete>>
    BY <1>2 DEF ReadRow, row, file
  <2>2. \A v \in Reviewer :
           review'[v] = IF v = r THEN [at |-> "read", decision |-> d, seen |-> summary]
                                 ELSE review[v]
    BY <1>2 DEF ReadRow, TypeOK
  <2> QED
    BY <1>0, <2>1, <2>2 DEF ClipInv, Finished
<1>3. ASSUME NEW r \in Reviewer, WriteVerdict(r) PROVE ClipInv'
  <2>1. UNCHANGED <<build, clip, complete>> /\ review[r].at = "read"
    BY <1>3 DEF WriteVerdict, file
  <2>2. summary'.package = PackageSeen(r)
    BY <1>3, VerdictWritten
  <2>3. Finished(PackageSeen(r).sha, complete)
    BY <2>1 DEF ClipInv, PackageSeen, EmptyPackage, Finished
  <2>4. \A v \in Reviewer : review'[v] = IF v = r THEN Idle ELSE review[v]
    BY <1>3 DEF WriteVerdict, TypeOK
  <2>5. Idle.at # "read"
    BY DEF Idle
  <2> QED
    BY <2>1, <2>2, <2>3, <2>4, <2>5 DEF ClipInv, Finished
<1>4. ASSUME NEW b \in Builder, Building(b) PROVE ClipInv'
  <2>0. \A c \in Builder : c = b
    BY OneBuilder DEF OneBuilder
  <2>i. Idle.at = "idle"
    BY DEF Idle
  <2>r. UNCHANGED review
    BY <1>4 DEF Building, Gather, NoCandidates, OpenClip, CloseClip, StitchFails, HashClip,
       WriteBack, AbandonBuild
  <2>w. build[b].at # "idle" => build[b] \in Work
    BY BuildAt
  <2> DEFINE Mine == /\ build'[b].at \in {"gathered", "encoding", "closed"} => build'[b].sha = Nil
                     /\ build'[b].at = "encoding" => build'[b].alone
                     /\ build'[b].at = "closed" => clip' \in complete'
                     /\ build'[b].at = "done" => Finished(build'[b].sha, complete')
  <2>m. Mine /\ UNCHANGED summary => ClipInv'
    BY <1>0, <2>0, <2>r DEF ClipInv
  <2>n. /\ build[b].at \in {"gathered", "encoding", "closed"} => build[b].sha = Nil
        /\ build[b].at = "encoding" => build[b].alone
        /\ build[b].at = "closed" => clip \in complete
        /\ build[b].at = "done" => Finished(build[b].sha, complete)
    BY DEF ClipInv
  <2>1. CASE Gather(b)
    <3>1. /\ UNCHANGED summary
          /\ build'[b].at = "gathered" /\ build'[b].sha = Nil
      BY <2>1 DEF Gather, TypeOK, row
    <3> QED
      BY <2>m, <3>1
  <2>2. CASE NoCandidates(b)
    <3>1. build[b] \in Work /\ build[b].at = "gathered" /\ UNCHANGED summary
      BY <2>2, <2>w DEF NoCandidates, row
    <3>2. build'[b].at = "done" /\ build'[b].sha = build[b].sha
      BY <2>2, <3>1 DEF NoCandidates, TypeOK, Work
    <3> QED
      BY <2>m, <2>n, <3>1, <3>2 DEF Finished
  <2>3. CASE OpenClip(b)
    <3>1. build[b] \in Work /\ build[b].at = "gathered" /\ UNCHANGED summary
      BY <2>3, <2>w DEF OpenClip, row
    <3>2. ~Encoding(Builder)
      BY <2>0, <3>1 DEF Encoding
    <3>3. build'[b] = [build[b] EXCEPT !.at = "encoding", !.alone = TRUE]
      BY <2>3, <3>2 DEF OpenClip
    <3>4. build'[b].at = "encoding" /\ build'[b].sha = build[b].sha /\ build'[b].alone
      BY <3>1, <3>3 DEF Work
    <3> QED
      BY <2>m, <2>n, <3>1, <3>4
  <2>4. CASE CloseClip(b)
    <3>1. build[b] \in Work /\ build[b].at = "encoding" /\ UNCHANGED summary
      BY <2>4, <2>w DEF CloseClip, row
    <3>2. clip' \in complete'
      BY <2>4, <2>n, <3>1 DEF CloseClip
    <3>3. build'[b].at = "closed" /\ build'[b].sha = build[b].sha
      BY <2>4, <3>1 DEF CloseClip, TypeOK, Work
    <3> QED
      BY <2>m, <2>n, <3>1, <3>2, <3>3
  <2>5. CASE StitchFails(b)
    <3>1. build[b] \in Work /\ build[b].at = "encoding" /\ UNCHANGED summary
      BY <2>5, <2>w DEF StitchFails, row
    <3>2. build'[b].at = "done" /\ build'[b].sha = build[b].sha
      BY <2>5, <3>1 DEF StitchFails, TypeOK, Work
    <3> QED
      BY <2>m, <2>n, <3>1, <3>2 DEF Finished
  <2>6. CASE HashClip(b)
    <3>1. build[b] \in Work /\ build[b].at = "closed" /\ UNCHANGED <<summary, clip, complete>>
      BY <2>6, <2>w DEF HashClip, row, file
    <3>2. CASE build' = [build EXCEPT ![b].at = "done", ![b].sha = clip]
      <4>1. build'[b].at = "done" /\ build'[b].sha = clip
        BY <3>1, <3>2 DEF TypeOK, Work
      <4> QED
        BY <2>m, <2>n, <3>1, <4>1 DEF Finished
    <3>3. CASE build' = [build EXCEPT ![b] = Idle]
      <4>1. build'[b].at = "idle"
        BY <2>i, <3>3 DEF TypeOK
      <4> QED
        BY <2>m, <3>1, <4>1
    <3> QED
      BY <2>6, <3>2, <3>3 DEF HashClip
  <2>7. CASE WriteBack(b)
    <3>1. build[b].at = "done" /\ UNCHANGED <<clip, complete>>
      BY <2>7 DEF WriteBack, file
    <3>2. build'[b].at = "idle"
      BY <2>7, <2>i DEF WriteBack, TypeOK
    <3>3. summary'.package = Package(b) /\ Package(b).sha = build[b].sha
      BY <2>7, PackageWritten DEF Package
    <3> QED
      BY <1>0, <2>0, <2>n, <2>r, <3>1, <3>2, <3>3 DEF ClipInv, Finished
  <2>8. CASE AbandonBuild(b)
    <3>1. build'[b].at = "idle" /\ UNCHANGED summary
      BY <2>8, <2>i DEF AbandonBuild, TypeOK, row
    <3> QED
      BY <2>m, <3>1
  <2> QED
    BY <1>4, <2>1, <2>2, <2>3, <2>4, <2>5, <2>6, <2>7, <2>8 DEF Building
<1> QED
  BY <1>1, <1>2, <1>3, <1>4
     DEF Next, vars, Observe, LoseSources, Reviewing, row, file

\* With one build at a time the hash in the package is that of a finished clip, also when a
\* verdict has put an older package back.
THEOREM HashIsOfFinishedClip ==
  ASSUME OneBuilder
  PROVE  Spec => []HashOfFinishedClip
<1>1. Init => ClipInv
  BY DEF Init, ClipInv, Text, Idle
<1>2. ClipInv => HashOfFinishedClip
  BY DEF ClipInv, HashOfFinishedClip, Finished
<1> QED
  BY <1>1, <1>2, TypeInit, TypeNext, ClipNext, PTL DEF Spec

=============================================================================
