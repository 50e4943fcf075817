------------------------------ MODULE Timeline ------------------------------
(***************************************************************************)
(* What the holder of a chess.Game sees of its history: the moves played,  *)
(* and the moves undone, which come back in their order until a new move   *)
(* takes their place.                                                      *)
(***************************************************************************)
EXTENDS Integers, Sequences

CONSTANT Step

VARIABLES past, future

timeline == <<past, future>>

TimelineInit == past = << >> /\ future = << >>

TakeStep ==
    /\ \E s \in Step : past' = Append(past, s)
    /\ future' = << >>

\* The last step moves over to the front of the future, and back again.
GoBack ==
    /\ past # << >>
    /\ past' = SubSeq(past, 1, Len(past) - 1)
    /\ future' = <<past[Len(past)]>> \o future

GoForward ==
    /\ future # << >>
    /\ past' = Append(past, Head(future))
    /\ future' = Tail(future)

TimelineNext == TakeStep \/ GoBack \/ GoForward

TimelineSpec == TimelineInit /\ [][TimelineNext]_timeline
=============================================================================
