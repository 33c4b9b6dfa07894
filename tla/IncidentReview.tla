--------------------------- MODULE IncidentReview ---------------------------
(***************************************************************************)
(* One incident between the evidence builder and its reviewers             *)
(* (services/evidence_builder/builder.py, services/review_ui/app.py).      *)
(*                                                                         *)
(* The incident row keeps the status, the evidence path and the summary:   *)
(* first the rule engine's text, later a JSON package that also carries    *)
(* the audit log.  A review reads the row, and in a second statement       *)
(* writes status and summary; a build reads the incident's rows, writes    *)
(* the clip file <incident>.mp4 in place, hashes it, and writes evidence   *)
(* path and summary.  Nothing locks the row or the file.                   *)
(***************************************************************************)
EXTENDS Integers, Sequences, FiniteSets

CONSTANTS
    Reviewer,       \* concurrent review requests
    Builder,        \* concurrent evidence builds
    MaxReviews,     \* bound: reviews started
    MaxBuilds,      \* bound: builds started
    MaxObs,         \* bound: VLM observations written
    MaxFaults,      \* bound: builder deaths and rejected write-backs
    Nil,            \* JSON null, an absent value or file
    Torn            \* content of a file being written, or written by two builds

ASSUME BoundAssumption ==
    /\ MaxReviews \in Nat /\ MaxBuilds \in Nat /\ MaxObs \in Nat /\ MaxFaults \in Nat

VARIABLES
    status,     \* incidents.status
    evidence,   \* incidents.evidence_path: TRUE when it names the clip
    summary,    \* incidents.summary: package (Nil for plain text) and audit log
    observed,   \* VLM observations of the incident's events so far
    sources,    \* do the source clips still exist on disk?
    clip,       \* content of <incident>.mp4: the build that wrote it, or Nil
    complete,   \* contents that were ever a finished clip (history)
    review,     \* review[r]: progress of reviewer r's POST
    build,      \* build[b]: progress of builder b
    started,    \* reviews and builds started so far
    faults      \* builder deaths and rejected write-backs so far

vars == <<status, evidence, summary, observed, sources, clip, complete, review, build, started, faults>>
row == <<status, evidence, summary>>
world == <<observed, sources>>
file == <<clip, complete>>

Decision == {"approve", "reject"}
StatusOf(d) == IF d = "approve" THEN "confirmed" ELSE "dismissed"

\* What of the package the properties tell apart: the observation in
\* headline_verdict, and chain_of_custody.evidence_sha256, a hash named by the
\* bytes it was taken of.  EmptyPackage is review's `package or {}`.
EmptyPackage == [headline |-> Nil, sha |-> Nil]
Text == [package |-> Nil, audit |-> <<>>]

Idle == [at |-> "idle"]

Init ==
    /\ status = "open"
    /\ evidence = FALSE
    /\ summary = Text
    /\ observed = 0
    /\ sources = TRUE
    /\ clip = Nil
    /\ complete = {}
    /\ review = [r \in Reviewer |-> Idle]
    /\ build = [b \in Builder |-> Idle]
    /\ started = [reviews |-> 0, builds |-> 0]
    /\ faults = 0

-----------------------------------------------------------------------------
(* The rest of the platform *)

\* The VLM worker inserts an observation of one of the incident's events.
Observe ==
    /\ observed < MaxObs
    /\ observed' = observed + 1
    /\ UNCHANGED <<row, sources, file, review, build, started, faults>>

\* The source clips go (retention, a file-system sweep).
LoseSources ==
    /\ sources
    /\ sources' = FALSE
    /\ UNCHANGED <<row, observed, file, review, build, started, faults>>

-----------------------------------------------------------------------------
(* POST /incidents/{id}/review *)

\* SELECT id, status, summary; _parse_summary keeps package and audit log.
ReadRow(r, d) ==
    /\ review[r].at = "idle"
    /\ started.reviews < MaxReviews
    /\ started' = [started EXCEPT !.reviews = @ + 1]
    /\ review' = [review EXCEPT ![r] = [at |-> "read", decision |-> d, seen |-> summary]]
    /\ UNCHANGED <<row, world, file, build, faults>>

\* _model_version of the package the request read.
ModelVersion(p) == IF p = Nil THEN Nil ELSE p.headline

Decided(r) ==
    [reviewer |-> r, decision |-> review[r].decision,
     model |-> ModelVersion(review[r].seen.package)]

PackageSeen(r) ==
    IF review[r].seen.package = Nil THEN EmptyPackage ELSE review[r].seen.package

\* Mutants of WriteVerdict: the log starts anew; only an open incident changes status.
WriteVerdictNewLog(r) ==
    /\ review[r].at = "read"
    /\ status' = StatusOf(review[r].decision)
    /\ summary' = [package |-> PackageSeen(r), audit |-> <<Decided(r)>>]
    /\ review' = [review EXCEPT ![r] = Idle]
    /\ UNCHANGED <<evidence, world, file, build, started, faults>>
WriteVerdictOnce(r) ==
    /\ review[r].at = "read"
    /\ status' = IF status = "open" THEN StatusOf(review[r].decision) ELSE status
    /\ summary' = [package |-> PackageSeen(r), audit |-> Append(review[r].seen.audit, Decided(r))]
    /\ review' = [review EXCEPT ![r] = Idle]
    /\ UNCHANGED <<evidence, world, file, build, started, faults>>

\* UPDATE incidents SET status, summary: the record is appended to the log that
\* was read, and the package that was read goes back with it.
WriteVerdict(r) ==
    /\ review[r].at = "read"
    /\ status' = StatusOf(review[r].decision)
    /\ summary' = [package |-> PackageSeen(r), audit |-> Append(review[r].seen.audit, Decided(r))]
    /\ review' = [review EXCEPT ![r] = Idle]
    /\ UNCHANGED <<evidence, world, file, build, started, faults>>

-----------------------------------------------------------------------------
(* build_evidence *)

\* _gather_from_db: the incident without its summary, its events, observations
\* and segments.
Gather(b) ==
    /\ build[b].at = "idle"
    /\ started.builds < MaxBuilds
    /\ started' = [started EXCEPT !.builds = @ + 1]
    /\ build' = [build EXCEPT ![b] =
          [at |-> "gathered", no |-> started.builds + 1, sha |-> Nil, alone |-> TRUE,
           headline |-> IF observed = 0 THEN Nil ELSE observed]]
    /\ UNCHANGED <<row, world, file, review, faults>>

\* stitch_clip finds no source clip on disk: manifest-only, the file is not touched.
NoCandidates(b) ==
    /\ build[b].at = "gathered"
    /\ ~sources
    /\ build' = [build EXCEPT ![b].at = "done"]
    /\ UNCHANGED <<row, world, file, review, started, faults>>

Encoding(B) == \E c \in B : build[c].at = "encoding"

\* stitch_clip opens the one output path of the incident for writing: a
\* build that has it open already now shares the file.
OpenClip(b) ==
    /\ build[b].at = "gathered"
    /\ sources
    /\ clip' = Torn
    /\ build' = [c \in Builder |->
          IF c = b THEN [build[b] EXCEPT !.at = "encoding", !.alone = ~Encoding(Builder)]
          ELSE IF Encoding({c}) THEN [build[c] EXCEPT !.alone = FALSE]
          ELSE build[c]]
    /\ UNCHANGED <<row, world, complete, review, started, faults>>

\* The container is closed: it is this build's clip if no other build wrote it too.
CloseClip(b) ==
    /\ build[b].at = "encoding"
    /\ IF build[b].alone
       THEN clip' = build[b].no /\ complete' = complete \union {build[b].no}
       ELSE UNCHANGED file
    /\ build' = [build EXCEPT ![b].at = "closed"]
    /\ UNCHANGED <<row, world, review, started, faults>>

\* A decode or encode error: ok=False, a partial file stays on disk, no hash; or
\* no frame fell into the window and the file is removed.
StitchFails(b) ==
    /\ build[b].at = "encoding"
    /\ clip' \in {Torn, Nil}
    /\ build' = [build EXCEPT ![b].at = "done"]
    /\ UNCHANGED <<row, world, complete, review, started, faults>>

\* Mutant of HashClip: the file is hashed before the container is closed.
HashClipEarly(b) ==
    /\ build[b].at = "encoding"
    /\ build' = [build EXCEPT ![b].at = "done", ![b].sha = clip]
    /\ UNCHANGED <<row, world, file, review, started, faults>>

\* sha256_file(out_path): the bytes the path holds now.  If another build removed
\* the file, the package is manifest-only, or the hash raises and the build ends.
HashClip(b) ==
    /\ build[b].at = "closed"
    /\ \/ build' = [build EXCEPT ![b].at = "done", ![b].sha = clip]
       \/ clip = Nil /\ build' = [build EXCEPT ![b] = Idle]
    /\ UNCHANGED <<row, world, file, review, started, faults>>

\* build_package: no key audit_log among the keys it sets.
Package(b) == [headline |-> build[b].headline, sha |-> build[b].sha]

\* Mutant of WriteBack: it saves the incident it gathered, status included.
WriteBackReopens(b) ==
    /\ build[b].at = "done"
    /\ evidence' = (build[b].sha # Nil)
    /\ summary' = [package |-> Package(b), audit |-> <<>>]
    /\ status' = "open"
    /\ build' = [build EXCEPT ![b] = Idle]
    /\ UNCHANGED <<world, file, review, started, faults>>

\* _write_back: evidence_path and the new package; the package has no audit_log.
WriteBack(b) ==
    /\ build[b].at = "done"
    /\ evidence' = (build[b].sha # Nil)
    /\ summary' = [package |-> Package(b), audit |-> <<>>]
    /\ build' = [build EXCEPT ![b] = Idle]
    /\ UNCHANGED <<status, world, file, review, started, faults>>

\* The UPDATE is rejected and rolled back (persisted=False), or the process dies.
AbandonBuild(b) ==
    /\ build[b].at # "idle"
    /\ faults < MaxFaults
    /\ faults' = faults + 1
    /\ build' = [build EXCEPT ![b] = Idle]
    /\ UNCHANGED <<row, world, file, review, started>>

-----------------------------------------------------------------------------
Reviewing(r) == WriteVerdict(r) \/ \E d \in Decision : ReadRow(r, d)

Building(b) ==
    \/ Gather(b) \/ NoCandidates(b) \/ OpenClip(b) \/ CloseClip(b)
    \/ StitchFails(b) \/ HashClip(b) \/ WriteBack(b) \/ AbandonBuild(b)

Next ==
    \/ Observe \/ LoseSources
    \/ \E r \in Reviewer : Reviewing(r)
    \/ \E b \in Builder : Building(b)

Spec == Init /\ [][Next]_vars

-----------------------------------------------------------------------------
(* Safety *)

\* The status is explained by the log: when the row has an audit log, its last
\* record is the verdict the status shows, whatever reviews and builds overlap.
StatusIsExplained ==
    summary.audit # <<>> =>
        StatusOf(summary.audit[Len(summary.audit)].decision) = status

\* A build never takes a verdict back: a reviewed incident is not open again,
\* although the builder read its status before the review.
ReviewedStaysReviewed == [][status # "open" => status' # "open"]_status

\* With one build at a time, the hash in the package is that of a finished clip,
\* never of a file still being written.
HashOfFinishedClip ==
    summary.package # Nil /\ summary.package.sha # Nil => summary.package.sha \in complete

\* A verdict's record is lost only to a write that had not seen it: a verdict
\* whose read is older, or a build.
LostToStaleWritersOnly ==
    [][\A i \in DOMAIN summary.audit :
          \/ i \in DOMAIN summary'.audit /\ summary'.audit[i] = summary.audit[i]
          \/ \E r \in Reviewer :
                /\ review[r].at = "read" /\ review'[r] = Idle
                /\ review[r].seen.audit # summary.audit
          \/ \E b \in Builder : build[b].at = "done" /\ build'[b] = Idle]_summary

-----------------------------------------------------------------------------
(* What the repository says, which the code does not do *)

\* app.py: the audit log is "append-only (immutable history)".
AuditIsAppendOnly ==
    [][/\ Len(summary.audit) <= Len(summary'.audit)
       /\ SubSeq(summary'.audit, 1, Len(summary.audit)) = summary.audit]_summary

=============================================================================
