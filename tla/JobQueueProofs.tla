--------------------------- MODULE JobQueueProofs ---------------------------
(***************************************************************************)
(* Proofs about JobQueue for any number of jobs, workers and streams, any  *)
(* claim limit and any number of process deaths.                           *)
(***************************************************************************)
EXTENDS JobQueue, TLAPS

-----------------------------------------------------------------------------
(* Type correctness *)

\* A worker is in its handler or in the except clause.
Busy(w) == pc[w] \in {"handling", "raised"}

\* What a worker acks or fails is a job of its own batch: kept beside TypeOK, since
\* every closing statement below rests on it.
CurrentInBatch == \A w \in Worker : Busy(w) => current[w] \in batch[w]

TypeInv == TypeOK /\ CurrentInBatch

LEMMA TypeInvInit == Init => TypeInv
  BY BoundAssumption DEF Init, TypeInv, TypeOK, CurrentInBatch, Busy, Status, Where

LEMMA TypeInvNext == TypeInv /\ [Next]_vars => TypeInv'
<1> SUFFICES ASSUME TypeInv, [Next]_vars PROVE TypeInv'
  OBVIOUS
<1> USE DEF TypeInv, TypeOK, CurrentInBatch, Busy, Status, Where
<1>1. ASSUME NEW j \in Job, Publish(j) PROVE TypeInv'
  BY <1>1 DEF Publish
<1>2. ASSUME NEW w \in Worker, ConsumeSelect(w) PROVE TypeInv'
  BY <1>2 DEF ConsumeSelect, Claimable
<1>3. ASSUME NEW w \in Worker, ConsumeCommit(w) PROVE TypeInv'
  BY <1>3 DEF ConsumeCommit, Unlock
<1>4. ASSUME NEW w \in Worker, Begin(w) PROVE TypeInv'
  BY <1>4 DEF Begin
<1>6. ASSUME NEW w \in Worker, Raise(w) PROVE TypeInv'
  BY <1>6 DEF Raise
<1>7. ASSUME NEW w \in Worker, Ack(w) PROVE TypeInv'
  BY <1>7 DEF Ack, Advance
<1>8. ASSUME NEW w \in Worker, Fail(w) PROVE TypeInv'
  BY <1>8 DEF Fail, Advance
<1>9. ASSUME NEW w \in Worker, Crash(w) PROVE TypeInv'
  BY <1>9, BoundAssumption DEF Crash, Dies, Unlock
<1>10. ASSUME NEW w \in Worker, Restart(w) PROVE TypeInv'
  BY <1>10 DEF Restart
<1>11. ASSUME UNCHANGED vars PROVE TypeInv'
  BY <1>11 DEF vars
<1>12. ASSUME NEW w \in Worker, ConsumeEmpty(w) PROVE TypeInv'
  BY <1>11, <1>12 DEF ConsumeEmpty
<1> QED
  BY <1>1, <1>2, <1>3, <1>4, <1>6, <1>7, <1>8, <1>9, <1>10, <1>11, <1>12
     DEF Next, Work

\* The rows, locks, batches and counters of every reachable state have the
\* declared types, and a worker handles a job of its own batch.
THEOREM TypeCorrect == Spec => []TypeOK
<1>1. TypeInv => TypeOK
  BY DEF TypeInv
<1> QED
  BY TypeInvInit, TypeInvNext, <1>1, PTL DEF Spec

-----------------------------------------------------------------------------
(* Safety *)

\* A worker that polls, or is dead, has nothing in hand: StrandedOnlyByCrash rests
\* on a claim never overwriting a batch that is still open.
EmptyHands == \A w \in Worker : pc[w] \in {"idle", "down"} => batch[w] = {}

\* No handler was entered for a job that is not claimed yet, or that waits in the
\* batch of its worker.
Untouched ==
    \A j \in Job :
        /\ status[j] \in {"absent", "pending"} => runs[j] = 0
        /\ \A w \in Worker : j \in batch[w] /\ ~(Busy(w) /\ current[w] = j) => runs[j] = 0

\* The inductive invariant.  The table agrees with the workers only as long as the
\* batches are disjoint, and they stay disjoint because the table tells which rows
\* are free: the two are proved together.
Inv ==
    /\ TypeInv
    /\ ExclusiveClaim
    /\ TableAgreesWithWorkers
    /\ EmptyHands
    /\ Untouched
    /\ HandledAtMostOnce
    /\ StrandedOnlyByCrash

LEMMA InvInit == Init => Inv
<1> SUFFICES ASSUME Init PROVE Inv
  OBVIOUS
<1>1. TypeInv
  BY TypeInvInit
<1> QED
  BY <1>1, WorkerAssumption
     DEF Init, Inv, ExclusiveClaim, TableAgreesWithWorkers, EmptyHands, Untouched,
         HandledAtMostOnce, StrandedOnlyByCrash, Busy

\* The rows a claim can return are in nobody's batch.
LEMMA ClaimableIsFree ==
    ASSUME Inv, NEW w \in Worker, NEW j \in Claimable(w), NEW v \in Worker
    PROVE  j \notin batch[v]
  BY WorkerAssumption DEF Inv, TableAgreesWithWorkers, Claimable

LEMMA InvNext == Inv /\ [Next]_vars => Inv'
<1> SUFFICES ASSUME Inv, [Next]_vars PROVE Inv'
  OBVIOUS
<1>t. TypeInv /\ TypeInv'
  BY TypeInvNext DEF Inv
<1> USE DEF ExclusiveClaim, TableAgreesWithWorkers, EmptyHands, Untouched, Busy,
            HandledAtMostOnce, StrandedOnlyByCrash, Held
<1>1. ASSUME NEW j \in Job, Publish(j) PROVE Inv'
  BY <1>1, <1>t DEF Inv, Publish, TypeInv, TypeOK
<1>2. ASSUME NEW w \in Worker, ConsumeSelect(w) PROVE Inv'
  BY <1>2, <1>t, ClaimableIsFree, WorkerAssumption DEF Inv, ConsumeSelect, Claimable, TypeInv, TypeOK
<1>3. ASSUME NEW w \in Worker, ConsumeCommit(w) PROVE Inv'
  BY <1>3, <1>t, WorkerAssumption DEF Inv, ConsumeCommit, Unlock, TypeInv, TypeOK
<1>4. ASSUME NEW w \in Worker, Begin(w) PROVE Inv'
  BY <1>4, <1>t DEF Inv, Begin, TypeInv, TypeOK
<1>6. ASSUME NEW w \in Worker, Raise(w) PROVE Inv'
  BY <1>6, <1>t DEF Inv, Raise, TypeInv, TypeOK
<1>7. ASSUME NEW w \in Worker, Ack(w) PROVE Inv'
  BY <1>7, <1>t DEF Inv, Ack, Advance, TypeInv, TypeOK, CurrentInBatch
<1>8. ASSUME NEW w \in Worker, Fail(w) PROVE Inv'
  BY <1>8, <1>t DEF Inv, Fail, Advance, TypeInv, TypeOK, CurrentInBatch
<1>9. ASSUME NEW w \in Worker, Crash(w) PROVE Inv'
  BY <1>9, <1>t, WorkerAssumption, BoundAssumption DEF Inv, Crash, Dies, Unlock, TypeInv, TypeOK
<1>10. ASSUME NEW w \in Worker, Restart(w) PROVE Inv'
  BY <1>10, <1>t DEF Inv, Restart, TypeInv, TypeOK
<1>11. ASSUME UNCHANGED vars PROVE Inv'
  BY <1>11, <1>t DEF Inv, vars
<1>12. ASSUME NEW w \in Worker, ConsumeEmpty(w) PROVE Inv'
  BY <1>11, <1>12 DEF ConsumeEmpty
<1> QED
  BY <1>1, <1>2, <1>3, <1>4, <1>6, <1>7, <1>8, <1>9, <1>10, <1>11, <1>12
     DEF Next, Work

THEOREM Invariance == Spec => []Inv
  BY InvInit, InvNext, PTL DEF Spec

\* No two workers ever hold one job.
THEOREM Exclusive == Spec => []ExclusiveClaim
<1>1. Inv => ExclusiveClaim
  BY DEF Inv
<1> QED
  BY Invariance, <1>1, PTL

\* A handler is entered at most once for a job, whatever dies when.
THEOREM AtMostOnce == Spec => []HandledAtMostOnce
<1>1. Inv => HandledAtMostOnce
  BY DEF Inv
<1> QED
  BY Invariance, <1>1, PTL

\* Without a death no row is left 'processing' by everybody.
THEOREM StrandedByCrash == Spec => []StrandedOnlyByCrash
<1>1. Inv => StrandedOnlyByCrash
  BY DEF Inv
<1> QED
  BY Invariance, <1>1, PTL

\* The status and the lock of a row tell what the workers have in hand.
THEOREM TableAgreement == Spec => []TableAgreesWithWorkers
<1>1. Inv => TableAgreesWithWorkers
  BY DEF Inv
<1> QED
  BY Invariance, <1>1, PTL

-----------------------------------------------------------------------------
(* JobQueue implements JobLifecycle *)

Holds(w, j) == pc[w] # "selected" /\ j \in batch[w]

\* What the refinement mapping makes of the invariant: a job that somebody holds is
\* owned by that worker, any other job by nobody.
MappingFacts ==
    \A j \in Job :
        /\ \A w \in Worker : Holds(w, j) => OwnerOf(j) = w /\ PhaseOf(j) = "owned"
        /\ ~Held(j) =>
              /\ OwnerOf(j) = NoWorker
              /\ status[j] = "absent" => PhaseOf(j) = "new"
              /\ status[j] = "pending" => PhaseOf(j) = "queued"
              /\ status[j] = "processing" => PhaseOf(j) = "stranded"
              /\ status[j] \in {"done", "failed"} => PhaseOf(j) = "closed"

LEMMA MappingHolds == Inv => MappingFacts
<1> SUFFICES ASSUME Inv, NEW j \in Job
             PROVE  /\ \A w \in Worker : Holds(w, j) => OwnerOf(j) = w /\ PhaseOf(j) = "owned"
                    /\ ~Held(j) =>
                          /\ OwnerOf(j) = NoWorker
                          /\ status[j] = "absent" => PhaseOf(j) = "new"
                          /\ status[j] = "pending" => PhaseOf(j) = "queued"
                          /\ status[j] = "processing" => PhaseOf(j) = "stranded"
                          /\ status[j] \in {"done", "failed"} => PhaseOf(j) = "closed"
  BY DEF MappingFacts
<1>1. ASSUME NEW w \in Worker, Holds(w, j) PROVE OwnerOf(j) = w /\ PhaseOf(j) = "owned"
  <2>1. Held(j) /\ status[j] = "processing"
    BY <1>1 DEF Holds, Held, Inv, TableAgreesWithWorkers
  <2>2. ASSUME NEW v \in Worker, pc[v] # "selected", j \in batch[v] PROVE v = w
    BY <1>1, <2>2 DEF Holds, Inv, ExclusiveClaim
  <2>3. OwnerOf(j) = w
    BY <1>1, <2>1, <2>2 DEF Holds, OwnerOf
  <2> QED
    BY <2>1, <2>3 DEF PhaseOf
<1>2. ASSUME ~Held(j)
      PROVE  /\ OwnerOf(j) = NoWorker
             /\ status[j] = "absent" => PhaseOf(j) = "new"
             /\ status[j] = "pending" => PhaseOf(j) = "queued"
             /\ status[j] = "processing" => PhaseOf(j) = "stranded"
             /\ status[j] \in {"done", "failed"} => PhaseOf(j) = "closed"
  BY <1>2 DEF OwnerOf, PhaseOf
<1> QED
  BY <1>1, <1>2

LEMMA InitRefines == Init => Lifecycle!Init
<1> SUFFICES ASSUME Init PROVE \A j \in Job : PhaseOf(j) = "new" /\ OwnerOf(j) = NoWorker
  BY DEF Lifecycle!Init
<1> QED
  BY InvInit, MappingHolds DEF MappingFacts, Init, Held

\* The mapped state of a job, from what the tables and the workers say of it.
LEMMA MappingStep == Inv /\ Inv' => MappingFacts /\ MappingFacts'
  BY MappingHolds, PTL

\* A step that leaves the mapped state of every job alone is a stutter.
LEMMA Stutters ==
    ASSUME \A j \in Job : PhaseOf(j)' = PhaseOf(j) /\ OwnerOf(j)' = OwnerOf(j)
    PROVE  UNCHANGED Lifecycle!vars
  BY DEF Lifecycle!vars

LEMMA StepRefines == Inv /\ Inv' /\ [Next]_vars => [Lifecycle!Next]_(Lifecycle!vars)
<1> SUFFICES ASSUME Inv, Inv', [Next]_vars PROVE [Lifecycle!Next]_(Lifecycle!vars)
  OBVIOUS
<1>m. MappingFacts /\ MappingFacts' /\ TypeOK /\ TypeOK'
  BY MappingStep DEF Inv, TypeInv
<1>1. ASSUME NEW j \in Job, Publish(j) PROVE Lifecycle!Publish(j)
  <2>1. ~Held(j)
    BY <1>1 DEF Publish, Inv, TableAgreesWithWorkers, Held
  <2>2. \A k \in Job : Held(k)' = Held(k)
    BY <1>1 DEF Publish, Held
  <2>3. PhaseOf(j) = "new" /\ PhaseOf(j)' = "queued"
    BY <1>1, <1>m, <2>1, <2>2 DEF MappingFacts, Publish, TypeOK
  <2>4. \A k \in Job : k # j => PhaseOf(k)' = PhaseOf(k)
    BY <1>1, <2>2 DEF Publish, PhaseOf, TypeOK
  <2>5. \A k \in Job : OwnerOf(k)' = OwnerOf(k)
    BY <1>1, <2>2 DEF Publish, OwnerOf, Held
  <2> QED
    BY <2>3, <2>4, <2>5 DEF Lifecycle!Publish
<1>2. ASSUME NEW w \in Worker, ConsumeSelect(w) PROVE UNCHANGED Lifecycle!vars
  <2>1. \A k \in Job : Held(k)' <=> Held(k)
    BY <1>2, <1>m DEF ConsumeSelect, Held, Inv, EmptyHands, TypeOK
  <2>2. \A k \in Job, v \in Worker : Holds(v, k)' <=> Holds(v, k)
    BY <1>2, <1>m DEF ConsumeSelect, Holds, Inv, EmptyHands, TypeOK
  <2>3. UNCHANGED status
    BY <1>2 DEF ConsumeSelect
  <2> QED
    BY <2>1, <2>2, <2>3, <1>m, Stutters DEF MappingFacts, PhaseOf, Held, Holds
<1>3. ASSUME NEW w \in Worker, ConsumeCommit(w) PROVE Lifecycle!Claim(w, batch[w])
  <2>1. \A k \in batch[w] : k \in Job /\ status[k] = "pending" /\ ~Held(k)
    BY <1>3, <1>m DEF ConsumeCommit, Held, Inv, TableAgreesWithWorkers, ExclusiveClaim, TypeOK
  <2>2. \A k \in batch[w] : Holds(w, k)'
    BY <1>3, <1>m DEF ConsumeCommit, Holds, TypeOK
  <2>3. \A k \in Job : k \notin batch[w] =>
            (Held(k)' <=> Held(k)) /\ status'[k] = status[k] /\ \A v \in Worker : Holds(v, k)' <=> Holds(v, k)
    BY <1>3, <1>m DEF ConsumeCommit, Held, Holds, TypeOK
  <2>4. \A k \in batch[w] : PhaseOf(k) = "queued" /\ PhaseOf(k)' = "owned" /\ OwnerOf(k)' = w
    BY <2>1, <2>2, <1>m DEF MappingFacts
  <2>5. \A k \in Job : k \notin batch[w] => PhaseOf(k)' = PhaseOf(k) /\ OwnerOf(k)' = OwnerOf(k)
    BY <2>3, <1>m DEF MappingFacts, PhaseOf, Held, Holds
  <2> QED
    BY <2>1, <2>4, <2>5 DEF Lifecycle!Claim
<1>4. ASSUME NEW w \in Worker, Begin(w) \/ Raise(w) PROVE UNCHANGED Lifecycle!vars
  <2>1. /\ UNCHANGED status
        /\ \A k \in Job, v \in Worker : Holds(v, k)' <=> Holds(v, k)
    BY <1>4, <1>m DEF Begin, Raise, Holds, TypeOK
  <2> QED
    BY <2>1, <1>m, Stutters DEF MappingFacts, PhaseOf, Held, Holds
<1>5. ASSUME NEW w \in Worker, Ack(w) \/ Fail(w) PROVE Lifecycle!Close(w, current[w])
  <2>1. Busy(w) /\ Advance(w)
    BY <1>5 DEF Ack, Fail, Busy
  <2>2. current[w] \in batch[w] /\ current[w] \in Job /\ pc[w] # "selected"
    BY <2>1, <1>m DEF Inv, TypeInv, CurrentInBatch, Busy, TypeOK
  <2>3. PICK j \in Job : j = current[w]
    BY <2>2
  <2>4. status'[j] \in {"done", "failed"} /\ \A k \in Job : k # j => status'[k] = status[k]
    BY <1>5, <2>3, <1>m DEF Ack, Fail, TypeOK
  <2>5. \A k \in Job : k # j => \A v \in Worker : Holds(v, k)' <=> Holds(v, k)
    BY <2>1, <2>2, <2>3, <1>m DEF Advance, Holds, Busy, TypeOK
  <2>6. Holds(w, j)
    BY <2>2, <2>3 DEF Holds
  <2>7. ~Held(j)'
    BY <2>4, <1>m DEF Held, Inv, TableAgreesWithWorkers
  <2>8. PhaseOf(j) = "owned" /\ OwnerOf(j) = w /\ PhaseOf(j)' = "closed" /\ OwnerOf(j)' = NoWorker
    BY <2>4, <2>6, <2>7, <1>m DEF MappingFacts
  <2>9. \A k \in Job : k # j => PhaseOf(k)' = PhaseOf(k) /\ OwnerOf(k)' = OwnerOf(k)
    BY <2>4, <2>5, <1>m DEF MappingFacts, PhaseOf, Held, Holds
  <2> QED
    BY <2>3, <2>8, <2>9 DEF Lifecycle!Close
<1>6. ASSUME NEW w \in Worker, Crash(w) PROVE Lifecycle!Abandon(w)
  <2>1. /\ UNCHANGED status
        /\ \A k \in Job : ~Holds(w, k)'
        /\ \A k \in Job, v \in Worker : v # w => (Holds(v, k)' <=> Holds(v, k))
    BY <1>6, <1>m DEF Crash, Dies, Holds, TypeOK
  <2>2. ASSUME NEW k \in Job, Holds(w, k)
        PROVE  OwnerOf(k) = w /\ PhaseOf(k)' = "stranded" /\ OwnerOf(k)' = NoWorker
    <3>1. status[k] = "processing"
      BY <2>2 DEF Holds, Inv, TableAgreesWithWorkers
    <3>2. ~Held(k)'
      BY <2>1, <2>2 DEF Held, Holds, Inv, ExclusiveClaim
    <3> QED
      BY <2>1, <2>2, <3>1, <3>2, <1>m DEF MappingFacts
  <2>3. ASSUME NEW k \in Job, ~Holds(w, k)
        PROVE  OwnerOf(k) # w /\ PhaseOf(k)' = PhaseOf(k) /\ OwnerOf(k)' = OwnerOf(k)
    BY <2>1, <2>3, <1>m, WorkerAssumption DEF MappingFacts, PhaseOf, Held, Holds
  <2> QED
    BY <2>2, <2>3 DEF Lifecycle!Abandon
<1>7. ASSUME NEW w \in Worker, Restart(w) PROVE UNCHANGED Lifecycle!vars
  <2>1. /\ UNCHANGED status
        /\ \A k \in Job, v \in Worker : Holds(v, k)' <=> Holds(v, k)
    BY <1>7, <1>m DEF Restart, Holds, TypeOK, Inv, EmptyHands
  <2> QED
    BY <2>1, <1>m, Stutters DEF MappingFacts, PhaseOf, Held, Holds
<1>8. ASSUME UNCHANGED vars PROVE UNCHANGED Lifecycle!vars
  BY <1>8, Stutters DEF vars, PhaseOf, OwnerOf, Held
<1>9. ASSUME NEW w \in Worker, ConsumeEmpty(w) PROVE UNCHANGED Lifecycle!vars
  BY <1>8, <1>9 DEF ConsumeEmpty
<1>10. batch \in [Worker -> SUBSET Job] /\ \A w \in Worker : Ack(w) \/ Fail(w) => current[w] \in Job
  BY <1>m DEF Inv, TypeInv, CurrentInBatch, Busy, TypeOK, Ack, Fail
<1> QED
  BY <1>1, <1>2, <1>3, <1>4, <1>5, <1>6, <1>7, <1>8, <1>9, <1>10
     DEF Next, Work, Lifecycle!Next

\* The table, the locks and the worker loops implement the abstract life of a job:
\* one claim, one owner, and no way back from closed or stranded.
THEOREM Refinement == Spec => ImplementsLifecycle
<1>1. Spec => []Inv
  BY Invariance
<1> QED
  BY <1>1, InitRefines, StepRefines, PTL DEF Spec, ImplementsLifecycle, Lifecycle!Spec

=============================================================================
