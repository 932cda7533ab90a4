------------------------------ MODULE MCGoose -------------------------------
(* Small instances of Goose for TLC.                                       *)
EXTENDS Goose

(* The state announced last reaches the subscriber, and the silence of a   *)
(* publisher that ended is reported (publisher.go:214-287,                 *)
(* subscriber.go:65-71).                                                   *)
HeardOrMissed == Reaches /\ SilenceNoticed
=============================================================================
