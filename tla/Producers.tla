------------------------------ MODULE Producers ------------------------------
(***************************************************************************)
(* The three programs that produce to papers.new: the poller, the backfill *)
(* and the replay of dead letters.                                         *)
(*                                                                         *)
(* They share the topic and, the first two, the seen set.  A member that   *)
(* another program has sent and marked is one the poller passes over as it *)
(* does its own; Backfill has the poller's sends as an action of its own;  *)
(* the replay reads neither.  So a behaviour is one program at work.       *)
(***************************************************************************)
EXTENDS Poller, Backfill, Replay

VARIABLE producer  \* the program at work

ProducersInit ==
  /\ producer \in {"poller", "backfill", "replay"}
  /\ Init /\ BackfillInit /\ ReplayInit

ProducersNext ==
  /\ UNCHANGED producer
  /\ \/ producer = "poller" /\ Next /\ UNCHANGED <<backfillVars, replayVars>>
     \/ producer = "backfill" /\ BackfillNext /\ UNCHANGED <<vars, replayVars>>
     \/ producer = "replay" /\ ReplayNext /\ UNCHANGED <<vars, backfillVars>>

producersVars == <<producer, vars, backfillVars, replayVars>>

ProducersSpec == ProducersInit /\ [][ProducersNext]_producersVars

-----------------------------------------------------------------------------
\* The programs keep the types of their queues, sets and walks.
ProducerTypesOK == TypeOK /\ BackfillTypeOK /\ ReplayTypeOK
=============================================================================
