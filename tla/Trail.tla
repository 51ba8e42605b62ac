-------------------------------- MODULE Trail --------------------------------
(***************************************************************************)
(* The reading trail: papers the reader has read, each in one web.  Reads  *)
(* (the dwell beacon and "Add to path"), removals, moves and deletions of  *)
(* webs are requests, and a request is one READ COMMITTED transaction:     *)
(* the pool's connections do not autocommit, so the block around a handler *)
(* commits at its end.  A step is a statement; it sees what is committed,  *)
(* and waits for rows that other transactions have changed.                *)
(*                                                                         *)
(* Names, dates and the search behind a read are left out, and with them   *)
(* renaming a web.                                                         *)
(***************************************************************************)
EXTENDS Naturals

CONSTANTS
  Paper,    \* the papers of the index
  NoPaper,
  Reader,   \* requests served at a time
  Near,     \* <<n, p>> : p is among the nearest papers of n
  MaxWebs   \* bound on the webs ever created

ASSUME NoPaperAssumption == NoPaper \notin Paper
ASSUME MaxWebsAssumption == MaxWebs \in Nat

VARIABLES
  trail,    \* committed rows: the web of every paper, NoWeb if it has none
  webs,     \* committed webs
  nextWeb,  \* the sequence of web ids
  rd,       \* requests: what they do, how far they are, what they hold
  orphans,  \* history: webs whose last paper left without them
  late      \* history: papers that joined a web another request had found empty

trailVars == <<trail, webs, nextWeb, rd, orphans, late>>

Web == 1..MaxWebs
NoWeb == 0
Resting == [op |-> "none", at |-> "idle", paper |-> NoPaper, web |-> NoWeb,
            made |-> FALSE, rows |-> {}, hold |-> "none"]
TrailRequest ==
  [op : {"none", "read", "remove", "move", "delete"},
   at : {"idle", "look", "assign", "create", "insert", "delete", "check",
         "update", "link", "doomed", "cascade", "commit"},
   paper : Paper \cup {NoPaper}, web : Web \cup {NoWeb}, made : BOOLEAN,
   rows : SUBSET Paper,                 \* rows of trail changed and locked
   hold : {"none", "share", "drop"}]    \* lock on the row of its web

TrailTypeOK ==
  /\ trail \in [Paper -> Web \cup {NoWeb}]
  /\ webs \subseteq Web
  /\ nextWeb \in 1..(MaxWebs + 1)
  /\ rd \in [Reader -> TrailRequest]
  /\ orphans \subseteq Web
  /\ late \subseteq Paper

TrailInit ==
  /\ trail = [p \in Paper |-> NoWeb]
  /\ webs = {}
  /\ nextWeb = 1
  /\ rd = [r \in Reader |-> Resting]
  /\ orphans = {}
  /\ late = {}

-----------------------------------------------------------------------------
Committed(w) == {p \in Paper : trail[p] = w}

\* The next statement of r needs a row that q has changed or locked.
WaitsFor(r, q) ==
  /\ r # q
  /\ \/ rd[r].at \in {"insert", "delete", "update"} /\ rd[r].paper \in rd[q].rows
     \/ rd[r].at = "cascade" /\ Committed(rd[r].web) \cap rd[q].rows # {}
     \/ rd[r].at = "link" /\ rd[q].web = rd[r].web /\ rd[q].hold = "drop"
     \/ rd[r].at = "doomed" /\ rd[q].web = rd[r].web /\ rd[q].hold # "none"

At(r, step) ==
  /\ rd[r].at = step
  /\ \A q \in Reader : ~WaitsFor(r, q)

Go(r, step) == rd' = [rd EXCEPT ![r].at = step]
Give(r) == rd' = [rd EXCEPT ![r] = Resting]
TablesUnchanged == UNCHANGED <<trail, webs, nextWeb, orphans, late>>

BeginTrail(r, op, p, w, step) ==
  /\ rd[r] = Resting
  /\ rd' = [rd EXCEPT ![r] = [Resting EXCEPT !.op = op, !.at = step, !.paper = p, !.web = w]]
  /\ TablesUnchanged

BeginRead(r, p) == BeginTrail(r, "read", p, NoWeb, "look")
BeginRemove(r, p) == BeginTrail(r, "remove", p, NoWeb, "delete")
BeginMove(r, p, w) == BeginTrail(r, "move", p, w, "check")
BeginDeleteWeb(r, w) == BeginTrail(r, "delete", NoPaper, w, "doomed")

\* A paper on the trail is not read again.
FindEntry(r) ==
  /\ At(r, "look")
  /\ IF trail[rd[r].paper] # NoWeb THEN Give(r) ELSE Go(r, "assign")
  /\ TablesUnchanged

\* The web named by the page, else that of the paper the reader came from, else
\* the closest web with a paper that has this one among its nearest, else none.
Assigned(p, hint, via) ==
  LET near == {trail[n] : n \in {n \in Paper : <<n, p>> \in Near}} \ {NoWeb}
  IN  IF hint \in webs THEN {hint}
      ELSE IF via \in Paper /\ trail[via] # NoWeb THEN {trail[via]}
      ELSE IF near # {} THEN near ELSE {NoWeb}

\* Mutant: the web is marked as updated before the paper's row is inserted.
AssignAndTouch(r) ==
  /\ At(r, "assign")
  /\ \E hint \in Web \cup {NoWeb}, via \in Paper \cup {NoPaper} :
       \E w \in Assigned(rd[r].paper, hint, via) :
         rd' = IF w = NoWeb THEN [rd EXCEPT ![r].at = "create"]
               ELSE [rd EXCEPT ![r].web = w, ![r].hold = "share", ![r].at = "insert"]
  /\ TablesUnchanged

Assign(r) ==
  /\ At(r, "assign")
  /\ \E hint \in Web \cup {NoWeb}, via \in Paper \cup {NoPaper} :
       \E w \in Assigned(rd[r].paper, hint, via) :
         rd' = [rd EXCEPT ![r].web = w, ![r].at = IF w = NoWeb THEN "create" ELSE "insert"]
  /\ TablesUnchanged

\* The new web is nobody else's to see before the request commits.
CreateWeb(r) ==
  /\ At(r, "create")
  /\ nextWeb <= MaxWebs
  /\ nextWeb' = nextWeb + 1
  /\ rd' = [rd EXCEPT ![r].web = nextWeb, ![r].made = TRUE, ![r].at = "insert"]
  /\ UNCHANGED <<trail, webs, orphans, late>>

\* ON CONFLICT DO NOTHING: a paper that has joined meanwhile stays where it is,
\* and the answer names this request's web, if that still exists.
Insert(r) ==
  /\ At(r, "insert")
  /\ IF trail[rd[r].paper] = NoWeb
       THEN rd' = [rd EXCEPT ![r].rows = {rd[r].paper}, ![r].at = "link"]
       ELSE IF rd[r].made \/ rd[r].web \in webs THEN Go(r, "commit") ELSE Give(r)
  /\ TablesUnchanged

\* Mutant: no foreign key.
LinkBlindly(r) ==
  /\ At(r, "link")
  /\ Go(r, "commit")
  /\ TablesUnchanged

\* The foreign key: the web must exist, and is kept until the commit.
Link(r) ==
  /\ At(r, "link")
  /\ IF rd[r].made \/ rd[r].web \in webs
       THEN rd' = [rd EXCEPT ![r].hold = "share", ![r].at = "commit"]
       ELSE Give(r)
  /\ TablesUnchanged

DeleteRow(r) ==
  /\ At(r, "delete")
  /\ LET p == rd[r].paper
     IN  IF trail[p] = NoWeb THEN Give(r)
         ELSE rd' = [rd EXCEPT ![r].web = trail[p], ![r].rows = {p}, ![r].at = "check"]
  /\ TablesUnchanged

\* Mutant: the web goes with any of its papers.
DropAnyway(r) ==
  /\ At(r, "check") /\ rd[r].op = "remove"
  /\ Go(r, "doomed")
  /\ TablesUnchanged

\* Mutant: a web is never dropped.
NeverDrop(r) ==
  /\ At(r, "check") /\ rd[r].op = "remove"
  /\ Go(r, "commit")
  /\ TablesUnchanged

\* NOT EXISTS in the statement that drops the web: it sees the committed rows
\* and this request's own deletion, not what others are about to commit.
SeesOthers(r) ==
  LET others == Committed(rd[r].web) \ {rd[r].paper}
  IN  /\ At(r, "check") /\ rd[r].op = "remove"
      /\ Go(r, IF others = {} THEN "doomed" ELSE "commit")
      /\ orphans' = IF others # {} /\ \A p \in others : \E q \in Reader : p \in rd[q].rows
                      THEN orphans \cup {rd[r].web} ELSE orphans
      /\ UNCHANGED <<trail, webs, nextWeb, late>>

\* Having waited for the row, the statement deletes the web it had chosen.
DropWeb(r) ==
  /\ At(r, "doomed")
  /\ IF rd[r].web \in webs
       THEN rd' = [rd EXCEPT ![r].hold = "drop", ![r].at = "cascade"]
       ELSE Go(r, "commit")
  /\ TablesUnchanged

Cascade(r) ==
  /\ At(r, "cascade")
  /\ rd' = [rd EXCEPT ![r].rows = @ \cup Committed(rd[r].web), ![r].at = "commit"]
  /\ TablesUnchanged

\* move answers 404 when the web or the paper's row is not there.
CheckMove(r) ==
  /\ At(r, "check") /\ rd[r].op = "move"
  /\ IF rd[r].web \in webs /\ trail[rd[r].paper] # NoWeb THEN Go(r, "update") ELSE Give(r)
  /\ TablesUnchanged

\* The foreign key is only looked at when the web changes.
UpdateRow(r) ==
  /\ At(r, "update")
  /\ LET p == rd[r].paper
     IN  IF trail[p] = NoWeb THEN Give(r)
         ELSE rd' = [rd EXCEPT ![r].rows = {p},
                               ![r].at = IF trail[p] = rd[r].web THEN "commit" ELSE "link"]
  /\ TablesUnchanged

Joins(r) == rd[r].op \in {"read", "move"}

Commit(r) ==
  LET w == rd[r].web
      p == rd[r].paper
  IN  /\ At(r, "commit")
      /\ trail' = [x \in Paper |-> IF x \notin rd[r].rows THEN trail[x]
                                   ELSE IF Joins(r) THEN w ELSE NoWeb]
      /\ webs' = IF rd[r].hold = "drop" THEN webs \ {w}
                 ELSE IF rd[r].made THEN webs \cup {w} ELSE webs
      /\ orphans' = IF ~Joins(r) THEN orphans
                    ELSE IF rd[r].rows = {} THEN orphans \cup {w}
                    ELSE (orphans \cup ({trail[p]} \ {NoWeb})) \ {w}
      /\ late' = (late \ {x \in rd[r].rows : ~Joins(r) \/ trail[x] # w}) \cup
                  {x \in rd[r].rows : Joins(r) /\ \E q \in Reader : rd[q].at = "doomed" /\ rd[q].web = w}
      /\ Give(r)
      /\ UNCHANGED nextWeb

\* An error, a lost connection or the deadlock detector ends the transaction.
RollBack(r) ==
  /\ rd[r] # Resting
  /\ Give(r)
  /\ TablesUnchanged

TrailNext ==
  \E r \in Reader :
    \/ \E p \in Paper : BeginRead(r, p) \/ BeginRemove(r, p)
    \/ \E p \in Paper, w \in Web : BeginMove(r, p, w)
    \/ \E w \in Web : BeginDeleteWeb(r, w)
    \/ FindEntry(r) \/ Assign(r) \/ CreateWeb(r) \/ Insert(r) \/ Link(r)
    \/ DeleteRow(r) \/ SeesOthers(r) \/ DropWeb(r) \/ Cascade(r)
    \/ CheckMove(r) \/ UpdateRow(r)
    \/ Commit(r) \/ RollBack(r)

TrailSpec == TrailInit /\ [][TrailNext]_trailVars

-----------------------------------------------------------------------------
\* Every row names a web that exists (trail.web_id REFERENCES webs): no order of
\* inserts, moves and dropped webs leaves a paper in a web that is gone.
RowsHaveWebs == \A p \in Paper : trail[p] # NoWeb => trail[p] \in webs

\* A paper leaves the trail only by a request to remove it or to delete its web,
\* except for one that joined while remove_from_trail was dropping the web: that
\* statement had found the web empty, and takes the newcomer with it.
RowsLeaveOnlyWhenAsked ==
  [][\A p \in Paper :
       trail[p] # NoWeb /\ trail'[p] = NoWeb =>
         \E r \in Reader :
           /\ rd[r].at = "commit" /\ rd'[r] = Resting
           /\ \/ rd[r].op = "remove" /\ rd[r].paper = p
              \/ rd[r].op = "delete" /\ rd[r].web = trail[p]
              \/ rd[r].op = "remove" /\ rd[r].web = trail[p] /\ p \in late]_trailVars

\* A web without papers is one whose last paper was moved away, one created for
\* a paper that another request put on the trail first, or one whose last papers
\* were removed by requests that each still saw the other's.
EmptyWebExplained == \A w \in webs : Committed(w) = {} => w \in orphans

\* Two requests wait for each other only if one of them deletes a web: it holds
\* the web and wants its rows, where the removal of its last paper holds that
\* row and wants the web.
RingsNeedDeletion ==
  \A r, q \in Reader : WaitsFor(r, q) /\ WaitsFor(q, r) => "delete" \in {rd[r].op, rd[q].op}
=============================================================================
