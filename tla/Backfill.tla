------------------------------ MODULE Backfill ------------------------------
(***************************************************************************)
(* scripts/backfill.py: harvests the pages of an OAI-PMH list, produces the*)
(* wanted records Redis has not seen to papers.new and marks them seen.    *)
(* Kafka's client buffers what it is given and delivers it later; the poll-*)
(* er, which runs beside it, sends and marks the same papers.              *)
(*                                                                         *)
(* A record is the first version of one paper; a run that ended may be     *)
(* started again, from its first page.  --dry-run is left out.             *)
(***************************************************************************)
EXTENDS Naturals, Sequences, SequencesExt

CONSTANTS
  OaiPages,     \* the list: a sequence of pages, sequences of records
  Wanted,       \* records of ARXIV_CATEGORIES that make a paper
  MaxRequests   \* requests for a page that is answered 503

ASSUME BackfillAssumption ==
  /\ OaiPages # <<>>
  /\ OaiPages \in Seq(Seq(Wanted \cup UNION {ToSet(OaiPages[i]) : i \in DOMAIN OaiPages}))
  /\ MaxRequests \in Nat \ {0}

VARIABLES
  harvest,  \* the run: "down", "ask", "record", "produced" or "done", its page,
            \* the request for it, the records still to be handled and --max-pages,
            \* 0 when not given
  buffer,   \* records in the client's buffer, lost with the process
  onTopic,  \* records on papers.new
  marked,   \* the seen set in Redis
  undelivered,  \* history: records lost from the buffer
  cut           \* history: the run took a 503 for the last page, or --max-pages was reached

backfillVars == <<harvest, buffer, onTopic, marked, undelivered, cut>>

Records == UNION {ToSet(OaiPages[i]) : i \in DOMAIN OaiPages}
Down == [at |-> "down", page |-> 1, request |-> 1, rest |-> <<>>, limit |-> 0]
AskFor(page, limit) ==
  [at |-> "ask", page |-> page, request |-> 1, rest |-> <<>>, limit |-> limit]

BackfillTypeOK ==
  /\ harvest \in [at : {"down", "ask", "record", "produced", "done"}, page : 1..Len(OaiPages),
                  request : 1..MaxRequests, rest : Seq(Records),
                  limit : 0..Len(OaiPages)]
  /\ buffer \cup onTopic \cup marked \cup undelivered \subseteq Records
  /\ cut \in BOOLEAN

BackfillInit ==
  /\ harvest = Down
  /\ buffer = {} /\ onTopic = {} /\ marked = {} /\ undelivered = {}
  /\ cut = FALSE

RecordsUnchanged == UNCHANGED <<buffer, onTopic, marked, undelivered>>

-----------------------------------------------------------------------------
StartHarvest ==
  /\ harvest.at \in {"down", "done"} /\ buffer = {}
  /\ \E limit \in 0..Len(OaiPages) : harvest' = AskFor(1, limit)
  /\ cut' = FALSE
  /\ RecordsUnchanged

\* 503 Retry-After: asked again, four times in all.
Busy503 ==
  /\ harvest.at = "ask" /\ harvest.request < MaxRequests
  /\ harvest' = [harvest EXCEPT !.request = @ + 1]
  /\ RecordsUnchanged /\ UNCHANGED cut

\* The body of the last 503 is parsed as a page; if it is well-formed it holds no
\* record and no token, and the harvest ends like a complete one.
TakeBusyForLastPage ==
  /\ harvest.at = "ask" /\ harvest.request = MaxRequests
  /\ harvest' = [harvest EXCEPT !.at = "done"]
  /\ cut' = TRUE
  /\ RecordsUnchanged

ReceivePage ==
  /\ harvest.at = "ask"
  /\ harvest' = [harvest EXCEPT !.at = "record", !.rest = OaiPages[harvest.page]]
  /\ RecordsUnchanged /\ UNCHANGED cut

\* Not a paper, none of the categories, or seen.
PassRecord ==
  /\ harvest.at = "record" /\ harvest.rest # <<>>
  /\ Head(harvest.rest) \in Wanted => Head(harvest.rest) \in marked
  /\ harvest' = [harvest EXCEPT !.rest = Tail(@)]
  /\ RecordsUnchanged /\ UNCHANGED cut

\* Mutant: the record is marked before it is produced.
MarkFirst ==
  /\ harvest.at = "record" /\ harvest.rest # <<>>
  /\ Head(harvest.rest) \in Wanted \ marked
  /\ marked' = marked \cup {Head(harvest.rest)}
  /\ harvest' = [harvest EXCEPT !.at = "produced"]
  /\ UNCHANGED <<buffer, onTopic, undelivered, cut>>

Produce ==
  /\ harvest.at = "record" /\ harvest.rest # <<>>
  /\ Head(harvest.rest) \in Wanted \ marked
  /\ buffer' = buffer \cup {Head(harvest.rest)}
  /\ harvest' = [harvest EXCEPT !.at = "produced"]
  /\ UNCHANGED <<onTopic, marked, undelivered, cut>>

\* SADD, whether or not the message has been delivered.
MarkProduced ==
  /\ harvest.at = "produced"
  /\ marked' = marked \cup {Head(harvest.rest)}
  /\ harvest' = [harvest EXCEPT !.at = "record", !.rest = Tail(@)]
  /\ UNCHANGED <<buffer, onTopic, undelivered, cut>>

\* The end of a page waits 30 s for the deliveries, and goes on whether or not
\* they were made: to the next page, or out.
EndHarvestPage ==
  /\ harvest.at = "record" /\ harvest.rest = <<>>
  /\ IF harvest.page = Len(OaiPages)
     THEN harvest' = [harvest EXCEPT !.at = "done"] /\ UNCHANGED cut
     ELSE IF harvest.page = harvest.limit
     THEN harvest' = [harvest EXCEPT !.at = "done"] /\ cut' = TRUE
     ELSE harvest' = AskFor(harvest.page + 1, harvest.limit) /\ UNCHANGED cut
  /\ RecordsUnchanged

\* An HTTP error, a body that does not parse, an OAI or Redis error, or a crash.
HarvestDies ==
  /\ harvest.at \notin {"down", "done"}
  /\ harvest' = Down
  /\ undelivered' = undelivered \cup buffer
  /\ buffer' = {}
  /\ UNCHANGED <<onTopic, marked, cut>>

\* The process ends with what it still holds.
Exit ==
  /\ harvest.at = "done" /\ buffer # {}
  /\ undelivered' = undelivered \cup buffer
  /\ buffer' = {}
  /\ UNCHANGED <<harvest, onTopic, marked, cut>>

Deliver(m) ==
  /\ m \in buffer
  /\ buffer' = buffer \ {m}
  /\ onTopic' = onTopic \cup {m}
  /\ UNCHANGED <<harvest, marked, undelivered, cut>>

\* The client gives up (message.timeout.ms); no delivery report is looked at.
DeliveryFails(m) ==
  /\ m \in buffer
  /\ buffer' = buffer \ {m}
  /\ undelivered' = undelivered \cup {m}
  /\ UNCHANGED <<harvest, onTopic, marked, cut>>

\* The poller marks a paper once the broker has acknowledged it.
PollerSends(m) ==
  /\ m \in Wanted \ marked
  /\ onTopic' = onTopic \cup {m}
  /\ marked' = marked \cup {m}
  /\ UNCHANGED <<harvest, buffer, undelivered, cut>>

BackfillNext ==
  \/ StartHarvest \/ Busy503 \/ TakeBusyForLastPage \/ ReceivePage
  \/ PassRecord \/ Produce \/ MarkProduced \/ EndHarvestPage
  \/ HarvestDies \/ Exit
  \/ \E m \in Records : Deliver(m) \/ DeliveryFails(m) \/ PollerSends(m)

BackfillSpec == BackfillInit /\ [][BackfillNext]_backfillVars

-----------------------------------------------------------------------------
\* A paper marked as seen, which no producer sends again, is on papers.new, on
\* its way, or was lost from the client's buffer; and a run that ended without
\* taking a 503 for the last page has seen every wanted record of the list.
BackfillLosesNothingElse ==
  /\ marked \subseteq onTopic \cup buffer \cup undelivered
  /\ harvest.at = "done" /\ ~cut => Wanted \cap Records \subseteq marked
=============================================================================
