------------------------------- MODULE QueryApi ------------------------------
(***************************************************************************)
(* The query API: the design page, the reading trail, the citations of its *)
(* papers, the graph of a web, watches, the semantic cache and the rankings*)
(* of search and suggestions, in one process over one database.            *)
(*                                                                         *)
(* Each part writes tables or keys of its own, of papers and chunks the API*)
(* only reads, and the graph, the one part that reads what others write,   *)
(* has their changes as steps of its own.  So interleaving two parts shows *)
(* no state that each does not reach alone: a behaviour is one part at     *)
(* work, the others at rest.                                               *)
(***************************************************************************)
EXTENDS Designs, Trail, Citations, Explore, Watches, SemanticCache, Ranking

VARIABLE part  \* the part at work

Part == {"designs", "trail", "citations", "explore", "watches", "cache", "ranking"}

ApiInit ==
  /\ part \in Part
  /\ Init /\ TrailInit /\ CitationsInit /\ ExploreInit /\ WatchesInit /\ CacheInit /\ RankingInit

Others(p) ==
  /\ UNCHANGED part
  /\ p # "designs" => UNCHANGED vars
  /\ p # "trail" => UNCHANGED trailVars
  /\ p # "citations" => UNCHANGED citationVars
  /\ p # "explore" => UNCHANGED exploreVars
  /\ p # "watches" => UNCHANGED watchVars
  /\ p # "cache" => UNCHANGED cacheVars
  /\ p # "ranking" => UNCHANGED rankingVars

ApiNext ==
  \/ part = "designs" /\ Next /\ Others("designs")
  \/ part = "trail" /\ TrailNext /\ Others("trail")
  \/ part = "citations" /\ CitationsNext /\ Others("citations")
  \/ part = "explore" /\ ExploreNext /\ Others("explore")
  \/ part = "watches" /\ WatchesNext /\ Others("watches")
  \/ part = "cache" /\ CacheNext /\ Others("cache")
  \/ part = "ranking" /\ RankingNext /\ Others("ranking")

apiVars ==
  <<part, vars, trailVars, citationVars, exploreVars, watchVars, cacheVars, rankingVars>>

ApiSpec == ApiInit /\ [][ApiNext]_apiVars /\ (part = "designs" => PageFairness)

-----------------------------------------------------------------------------
\* Every part keeps the types of its tables and requests, and a row of the trail
\* its web (the foreign key): no order of statements leaves a paper in a web that
\* is gone.
ApiTypesOK ==
  /\ TrailTypeOK /\ RowsHaveWebs
  /\ CitationsTypeOK /\ ExploreTypeOK /\ WatchesTypeOK /\ CacheTypeOK /\ RankingTypeOK

\* A design page that is looked at shows the design of the latest version or a
\* failure again and again: no claim is left running for ever, whatever crashed.
DesignsSettle == part = "designs" => PageSettles
=============================================================================
