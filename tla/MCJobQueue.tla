----------------------------- MODULE MCJobQueue -----------------------------
(***************************************************************************)
(* Small instances of JobQueue: four job ranks on two streams, two workers *)
(* on the first stream and one on the second.                              *)
(***************************************************************************)
EXTENDS JobQueue

CONSTANTS w1, w2, v, events, needsVlm

\* Ranks 1, 3 and 4 are event.created rows, rank 2 is a
\* forwarded event.needs_vlm row.
McStreamOf == [j \in Job |-> IF j = 2 THEN needsVlm ELSE events]
McReads == [w \in Worker |-> IF w = v THEN needsVlm ELSE events]

=============================================================================
