----------------------------- MODULE MCProducers -----------------------------
(* The poller as in MCPoller, a list of two pages and one paper replayed. *)
EXTENDS Producers

CONSTANTS p1

List == <<<<1, 2>>, <<3>>>>
=============================================================================
