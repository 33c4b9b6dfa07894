---------------------------- MODULE MCSegmenter ----------------------------
(***************************************************************************)
(* A small instance of Sources and Segmenter: the configured 30/5/5/2      *)
(* geometry scaled so that clips are shorter but windows and strides keep  *)
(* their relation.  The assumption compares Windows with the loop of       *)
(* window_bounds as it is written, for all short clips.                    *)
(***************************************************************************)
EXTENDS Sources, Sequences

\* Five ticks to the second.  A source of 5 frames per second, and one whose gaps have
\* brought the average down to 2.5; a source of 2.5, whose file is numbered at 2 and
\* plays slower; and one of 5/3, numbered at 2 too, whose file plays faster.
McClocks ==
    {[source |-> 1, rate |-> 1], [source |-> 1, rate |-> 2],
     [source |-> 2, rate |-> 2], [source |-> 3, rate |-> 3]}

RECURSIVE Loop(_, _, _)
Loop(start, d, out) ==
    IF start >= d THEN out
    ELSE LET end == IF start + WinSec < d THEN start + WinSec ELSE d
             more == Append(out, [from |-> start, to |-> end])
         IN  IF end >= d THEN more ELSE Loop(start + StrideSec, d, more)

WindowBounds(d) ==
    LET out == Loop(0, d, <<>>)
        tail == d - WinSec
    IN  IF d <= 0 THEN <<>>
        ELSE IF tail > 0 /\ (out = <<>> \/ out[Len(out)].from < tail) /\ out[Len(out)].to < d
        THEN Append(out, [from |-> tail, to |-> d]) ELSE out

ASSUME WindowsAsWritten ==
    \A d \in 0..(3 * ClipSec) :
        Windows(d) = {WindowBounds(d)[i] : i \in DOMAIN WindowBounds(d)}

=============================================================================
