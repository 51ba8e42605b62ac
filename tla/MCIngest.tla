------------------------------- MODULE MCIngest ------------------------------
(* Small instances of the pipeline: one instance per group, or a second one *)
(* of one group when rebalances are explored.                               *)
EXTENDS Ingest

OnePerGroup == {<<"fetcher", 1>>, <<"fast", 1>>, <<"full", 1>>}
TwoFast == OnePerGroup \cup {<<"fast", 2>>}
=============================================================================
