-------------------------- MODULE MCIncidentReview --------------------------
(* Small instances of IncidentReview. *)
EXTENDS IncidentReview

CONSTANTS a, b, x, y

=============================================================================
