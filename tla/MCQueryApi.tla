----------------------------- MODULE MCQueryApi ------------------------------
(* Small instances of the parts: two requests of each kind at a time, two or *)
(* three papers, every short input of the rankings.                          *)
EXTENDS QueryApi

CONSTANTS p1, p2

Nearest == {<<p1, p2>>, <<p2, p1>>}

Filters == {<<"all", p1>>, <<"all", p2>>, <<"one", p1>>}

Reasons ==
  {[kind |-> "builds_on", from |-> 1], [kind |-> "follow_up", from |-> 2],
   [kind |-> "similar", from |-> 1]}
=============================================================================
