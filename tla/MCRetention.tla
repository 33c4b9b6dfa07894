---------------------------- MODULE MCRetention ----------------------------
(* Small instances of Retention: the policy's limits of 14, 14, 30 and 180  *)
(* days, in the same order, scaled to a few ticks.                          *)
EXTENDS AuditTrail

CONSTANTS c1, c2, i1, i2, r1, r2

McDays == [video_segments |-> 1, ai_windows |-> 1, detections |-> 2, events |-> 3]

=============================================================================
