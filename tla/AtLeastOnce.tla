----------------------------- MODULE AtLeastOnce -----------------------------
(***************************************************************************)
(* What a consumer group promises of its topic: the committed offset only  *)
(* moves forward and only over messages whose handling has finished, and a *)
(* finished message stays finished however often it is delivered again.    *)
(***************************************************************************)
EXTENDS Naturals

VARIABLES
  size,       \* messages in the topic
  finished,   \* those that reached an outcome
  committed   \* how many the group has committed

vars == <<size, finished, committed>>

Init == size = 0 /\ finished = {} /\ committed = 0

Publish == size' = size + 1 /\ UNCHANGED <<finished, committed>>

Finish(n) ==
  /\ n \in 1..size
  /\ finished' = finished \cup {n}
  /\ UNCHANGED <<size, committed>>

Commit(n) ==
  /\ committed < n
  /\ 1..n \subseteq finished
  /\ committed' = n
  /\ UNCHANGED <<size, finished>>

Next == Publish \/ \E n \in 1..size : Finish(n) \/ Commit(n)

Spec == Init /\ [][Next]_vars
=============================================================================
