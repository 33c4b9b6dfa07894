------------------------------- MODULE Insight -------------------------------
(***************************************************************************)
(* The VLM workers with the embedding indexers that read what they write   *)
(* (ai_workers/embedding_worker/indexer.py, worker.py): one index run      *)
(* embeds the newest events and then the newest observations, replacing    *)
(* each row of `embeddings` by a DELETE and an INSERT in one transaction.  *)
(***************************************************************************)
EXTENDS VlmWorker

CONSTANTS
    Indexer,        \* processes of `embedding_worker index`
    IndexLimit,     \* index_run(limit=...)
    MaxRuns         \* bound: index runs in all

ASSUME IndexAssumption == IndexLimit \in Nat \ {0} /\ MaxRuns \in Nat

VARIABLES
    phase,          \* phase[i]: "idle", "events" or "observations"
    todo,           \* todo[i]: fetched entities not embedded yet
    doomed,         \* doomed[i]: the rows its DELETE hit, while the transaction is open
    open,           \* open[i]: whether it is
    embeddings,     \* committed rows, [entity, run]
    indexRuns       \* index runs so far

indexVars == <<phase, todo, doomed, open, embeddings, indexRuns>>
vars == <<vlmVars, indexVars>>

Init ==
    /\ VlmInit
    /\ phase = [i \in Indexer |-> "idle"]
    /\ todo = [i \in Indexer |-> <<>>]
    /\ doomed = [i \in Indexer |-> {}]
    /\ open = [i \in Indexer |-> FALSE]
    /\ embeddings = {}
    /\ indexRuns = [i \in Indexer |-> 0]

Started == FoldSet(LAMBDA i, n : n + indexRuns[i], 0, Indexer)

First(s) == SubSeq(s, 1, IF Len(s) < IndexLimit THEN Len(s) ELSE IndexLimit)

\* Event ids, the newest first.
NewestEvents == SetToSortSeq(Event \ gone, >)

\* index_events fetches the newest events there are.
IndexEvents(i) ==
    /\ phase[i] = "idle" /\ Started < MaxRuns
    /\ indexRuns' = [indexRuns EXCEPT ![i] = @ + 1]
    /\ phase' = [phase EXCEPT ![i] = "events"]
    /\ todo' = [todo EXCEPT ![i] = First([n \in DOMAIN NewestEvents |->
                    <<"event", NewestEvents[n]>>])]
    /\ UNCHANGED <<vlmVars, doomed, open, embeddings>>

NewestObservations == SetToSortSeq(DOMAIN observations \ expired, >)

\* index_vlm_observations does so after the last event.
IndexObservations(i) ==
    /\ phase[i] = "events" /\ todo[i] = <<>>
    /\ phase' = [phase EXCEPT ![i] = "observations"]
    /\ todo' = [todo EXCEPT ![i] = First([n \in DOMAIN NewestObservations |->
                    <<"vlm_observation", NewestObservations[n]>>])]
    /\ UNCHANGED <<vlmVars, doomed, open, embeddings, indexRuns>>

Finish(i) ==
    /\ phase[i] = "observations" /\ todo[i] = <<>>
    /\ phase' = [phase EXCEPT ![i] = "idle"]
    /\ UNCHANGED <<vlmVars, todo, doomed, open, embeddings, indexRuns>>

\* Mutant of RowsOf: nothing is deleted before the insert.
RowsOfNone(entity) == {}

\* The rows of the logical key that a statement starting now can see.
RowsOf(entity) == {r \in embeddings : r.entity = entity}

\* upsert_embedding: DELETE
Delete(i) ==
    /\ todo[i] # <<>> /\ ~open[i]
    /\ doomed' = [doomed EXCEPT ![i] = RowsOf(Head(todo[i]))]
    /\ open' = [open EXCEPT ![i] = TRUE]
    /\ UNCHANGED <<vlmVars, phase, todo, embeddings, indexRuns>>

\* INSERT and commit, or roll back.  A row that somebody else deleted meanwhile is
\* skipped by the DELETE, and one inserted meanwhile was never seen by it.
Insert(i) ==
    /\ open[i]
    /\ \/ /\ embeddings' = (embeddings \ doomed[i]) \union
                               {[entity |-> Head(todo[i]), run |-> <<i, indexRuns[i]>>]}
          /\ UNCHANGED faults
       \/ /\ faults < MaxFaults /\ faults' = faults + 1
          /\ UNCHANGED embeddings
    /\ todo' = [todo EXCEPT ![i] = Tail(@)]
    /\ doomed' = [doomed EXCEPT ![i] = {}]
    /\ open' = [open EXCEPT ![i] = FALSE]
    /\ UNCHANGED <<pending, batch, pc, out, memory, tables, verified, world, polls, failed,
                   phase, indexRuns>>

IndexNext ==
    \E i \in Indexer :
        IndexEvents(i) \/ IndexObservations(i) \/ Finish(i) \/ Delete(i) \/ Insert(i)

Next == IndexNext \/ (VlmNext /\ UNCHANGED indexVars)

Spec == Init /\ [][Next]_vars

-----------------------------------------------------------------------------

\* indexer.py calls the upsert idempotent.  Under READ COMMITTED and without a unique key
\* two rows of an entity are left only by two processes that index at a time: a process
\* removes its own earlier row, so there are never more rows than processes.
EmbeddingsPerEntity ==
    \A r, s \in embeddings : r.entity = s.entity /\ r # s => r.run[1] # s.run[1]

=============================================================================
