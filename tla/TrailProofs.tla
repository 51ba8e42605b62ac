----------------------------- MODULE TrailProofs -----------------------------
(***************************************************************************)
(* Proofs about Trail.  The invariant says what a request holds at each    *)
(* step (ShapeOf), what its locks keep true of the tables (Kept), that the *)
(* locks of two requests exclude one another (Apart), and that some paper  *)
(* keeps every web that is not called an orphan (Keeper).                  *)
(***************************************************************************)
EXTENDS Trail, TLAPS

\* The request has found its web empty and is about to drop it.
Doomed(r) ==
  /\ rd[r].op = "remove"
  /\ rd[r].at \in {"doomed", "cascade"} \/ (rd[r].at = "commit" /\ rd[r].hold = "drop")

\* The request removes p and leaves its web.
Removes(r, p) ==
  rd[r].op = "remove" /\ rd[r].at = "commit" /\ rd[r].hold = "none" /\ rd[r].paper = p

\* What a request does and holds at each of its steps.
ShapeOf(x) ==
  /\ x.at = "idle" => x.op = "none"
  /\ x.at \in {"look", "assign", "create", "insert"} => x.op = "read"
  /\ x.at = "delete" => x.op = "remove"
  /\ x.at = "update" => x.op = "move"
  /\ x.at = "check" => x.op \in {"remove", "move"}
  /\ x.at = "link" => x.op \in {"read", "move"}
  /\ x.at \in {"doomed", "cascade"} => x.op \in {"remove", "delete"}
  /\ x.at = "commit" => x.op # "none"
  /\ x.at # "idle" /\ x.op # "delete" => x.paper \in Paper
  /\ x.op \in {"move", "delete"} \/ x.at = "insert" \/ (x.op = "read" /\ x.at \in {"link", "commit"}) => x.web \in Web
  /\ x.made => x.op = "read" /\ x.at \in {"insert", "link", "commit"}
  /\ x.hold = "share" => x.at = "commit" /\ x.op \in {"read", "move"} /\ x.rows = {x.paper}
  /\ x.hold = "drop" => x.at \in {"cascade", "commit"} /\ x.op \in {"remove", "delete"}
  /\ x.at = "cascade" => x.hold = "drop"
  /\ x.at \in {"idle", "look", "assign", "create", "insert", "delete", "update"} => x.rows = {}
  /\ x.at = "check" /\ x.op = "move" => x.rows = {}
  /\ x.at = "link" => x.rows = {x.paper}
  /\ x.op = "move" /\ x.at = "commit" => x.rows = {x.paper}
  /\ x.op = "read" /\ x.at = "commit" /\ x.hold = "none" => x.rows = {}
  /\ x.op = "remove" /\ x.at \in {"check", "doomed", "cascade"} => x.rows = {x.paper}
  /\ x.op = "remove" /\ x.at = "commit" => x.paper \in x.rows
  /\ x.op = "remove" /\ x.at = "commit" /\ x.hold = "none" => x.rows = {x.paper}
  /\ x.op = "delete" /\ x.hold = "none" => x.rows = {}
  /\ x.op = "delete" /\ x.at = "cascade" => x.rows = {}

\* No row is locked by two requests, no web is dropped while another holds it,
\* and of two requests that remove a paper of one web the later sees the earlier's.
Apart(r, q) ==
  /\ rd[r].rows \cap rd[q].rows = {}
  /\ rd[r].web = rd[q].web =>
       /\ rd[r].hold = "drop" => rd[q].hold = "none"
       /\ rd[q].hold = "drop" => rd[r].hold = "none"
       /\ ~(Doomed(r) /\ Doomed(q))

\* What a request has read under its locks is still so.
Kept(r) ==
  /\ rd[r].op \in {"remove", "delete"} => \A p \in rd[r].rows : trail[p] = rd[r].web
  /\ rd[r].at = "link" => trail[rd[r].paper] # rd[r].web
  /\ rd[r].op = "move" /\ rd[r].at = "commit" /\ rd[r].hold = "none" => trail[rd[r].paper] = rd[r].web
  /\ rd[r].hold = "share" => rd[r].made \/ rd[r].web \in webs
  /\ rd[r].at = "commit" /\ rd[r].hold = "drop" => Committed(rd[r].web) \subseteq rd[r].rows
  /\ Doomed(r) => Committed(rd[r].web) \ {rd[r].paper} \subseteq late
  /\ rd[r].op = "remove" /\ rd[r].at \in {"check", "doomed", "cascade", "commit"} => rd[r].web \in Web

\* A web that is no orphan has a paper which no removal under way takes.
Keeper == \A w \in webs \ orphans : \E p \in Committed(w) : \A q \in Reader : ~Removes(q, p)

Requests ==
  \A r \in Reader : ShapeOf(rd[r]) /\ Kept(r) /\ \A q \in Reader \ {r} : Apart(r, q)

TrailInv == TrailTypeOK /\ Requests /\ RowsHaveWebs /\ Keeper

-----------------------------------------------------------------------------
\* Nothing is asked or held when the service starts.
LEMMA TrailStarts == TrailInit => TrailInv
<1> SUFFICES ASSUME TrailInit PROVE TrailInv
    OBVIOUS
<1>0. NoWeb \notin Web /\ 1 \in 1..(MaxWebs + 1)
    BY MaxWebsAssumption DEF NoWeb, Web
<1>1. Resting \in TrailRequest
    BY DEF Resting, TrailRequest
<1>2. TrailTypeOK
    BY <1>0, <1>1 DEF TrailInit, TrailTypeOK
<1>3. \A r \in Reader : rd[r] = Resting
    BY DEF TrailInit
<1>4. Requests
    BY <1>3 DEF Requests, Resting, ShapeOf, Kept, Apart, Doomed
<1>5. RowsHaveWebs /\ Keeper
    BY DEF TrailInit, RowsHaveWebs, Keeper
<1> QED BY <1>2, <1>4, <1>5 DEF TrailInv

\* A step of one request that leaves the tables alone need only be looked at from
\* its own side.
LEMMA PrivateStep ==
  ASSUME TrailInv, NEW r \in Reader,
         UNCHANGED <<trail, webs, late>>, TrailTypeOK',
         \A q \in Reader \ {r} : rd'[q] = rd[q],
         ShapeOf(rd'[r]), Kept(r)', \A q \in Reader \ {r} : Apart(r, q)',
         Keeper'
  PROVE  TrailInv'
<1>1. ASSUME NEW q \in Reader, q # r PROVE ShapeOf(rd'[q]) /\ Kept(q)'
    BY <1>1 DEF TrailInv, Requests, ShapeOf, Kept, Doomed, Committed
<1>2. ASSUME NEW q \in Reader, NEW s \in Reader \ {q} PROVE Apart(q, s)'
    <2>1. CASE q = r
        BY <2>1
    <2>2. CASE s = r
        <3>1. Apart(r, q)'
            BY <2>2
        <3> QED BY <2>2, <3>1 DEF Apart
    <2>3. CASE q # r /\ s # r
        <3>1. Apart(q, s)
            BY DEF TrailInv, Requests
        <3> QED BY <2>3, <3>1 DEF Apart, Doomed
    <2> QED BY <2>1, <2>2, <2>3
<1>3. Requests'
    BY <1>1, <1>2 DEF Requests
<1>4. RowsHaveWebs'
    BY DEF TrailInv, RowsHaveWebs
<1> QED BY <1>3, <1>4 DEF TrailInv

\* Nor does it take the paper of a web unless it is a removal.
LEMMA KeeperStays ==
  ASSUME TrailInv, NEW r \in Reader,
         UNCHANGED <<trail, webs, orphans>>,
         \A q \in Reader \ {r} : rd'[q] = rd[q],
         \A p : ~Removes(r, p)'
  PROVE  Keeper'
<1> SUFFICES ASSUME NEW w \in webs \ orphans
             PROVE  \E p \in Committed(w)' : \A q \in Reader : ~Removes(q, p)'
    BY DEF Keeper
<1>1. PICK p \in Committed(w) : \A q \in Reader : ~Removes(q, p)
    BY DEF TrailInv, Keeper
<1>2. \A q \in Reader : ~Removes(q, p)'
    BY <1>1 DEF Removes
<1> QED BY <1>1, <1>2 DEF Committed

\* The two together, for a step that gives one request another record.
LEMMA StepOfOne ==
  ASSUME TrailInv, NEW r \in Reader, NEW x \in TrailRequest,
         rd' = [rd EXCEPT ![r] = x], UNCHANGED <<trail, webs, orphans, late>>,
         nextWeb' \in 1..(MaxWebs + 1),
         ShapeOf(x), Kept(r)', \A q \in Reader \ {r} : Apart(r, q)',
         x.op = "remove" /\ x.at = "commit" => x.hold # "none"
  PROVE  TrailInv'
<1>1. rd \in [Reader -> TrailRequest]
    BY DEF TrailInv, TrailTypeOK
<1>2. rd' \in [Reader -> TrailRequest] /\ rd'[r] = x /\ \A q \in Reader \ {r} : rd'[q] = rd[q]
    BY <1>1
<1>3. TrailTypeOK'
    BY <1>2 DEF TrailInv, TrailTypeOK
<1>4. \A p : ~Removes(r, p)'
    BY <1>2 DEF Removes
<1>5. Keeper'
    BY <1>2, <1>4, KeeperStays
<1> QED BY <1>2, <1>3, <1>5, PrivateStep

\* A request is over, or failed: what it held is free again.
LEMMA GiveKeeps ==
  ASSUME TrailInv, NEW r \in Reader, Give(r), TablesUnchanged
  PROVE  TrailInv'
<1>1. rd' = [rd EXCEPT ![r] = Resting] /\ UNCHANGED <<trail, webs, nextWeb, orphans, late>>
    BY DEF Give, TablesUnchanged
<1>2. Resting \in TrailRequest
    BY DEF Resting, TrailRequest
<1>3. rd'[r] = Resting /\ nextWeb' \in 1..(MaxWebs + 1)
    BY <1>1 DEF TrailInv, TrailTypeOK
<1>4. ShapeOf(Resting)
    BY DEF ShapeOf, Resting
<1>5. Kept(r)' /\ \A q \in Reader \ {r} : Apart(r, q)'
    BY <1>3 DEF Kept, Apart, Doomed, Resting
<1>6. ~(Resting.op = "remove")
    BY DEF Resting
<1> QED BY <1>1, <1>2, <1>3, <1>4, <1>5, <1>6, StepOfOne

\* A request goes on to another step and locks nothing by it.
LEMMA GoKeeps ==
  ASSUME TrailInv, NEW r \in Reader, NEW step, Go(r, step), TablesUnchanged,
         [rd[r] EXCEPT !.at = step] \in TrailRequest,
         ShapeOf([rd[r] EXCEPT !.at = step]),
         rd[r].hold = "none",
         step # "link",
         rd[r].op # "remove",
         step = "commit" => rd[r].op # "move"
  PROVE  TrailInv'
<1> DEFINE x == [rd[r] EXCEPT !.at = step]
<1>1. rd' = [rd EXCEPT ![r] = x] /\ UNCHANGED <<trail, webs, nextWeb, orphans, late>>
    BY DEF Go, TablesUnchanged
<1>2. rd[r] \in TrailRequest /\ nextWeb' \in 1..(MaxWebs + 1) /\ rd'[r] = x
    BY <1>1 DEF TrailInv, TrailTypeOK
<1>3. /\ x.op = rd[r].op /\ x.at = step /\ x.paper = rd[r].paper /\ x.web = rd[r].web
      /\ x.made = rd[r].made /\ x.rows = rd[r].rows /\ x.hold = rd[r].hold
    BY <1>2 DEF TrailRequest
<1> HIDE DEF x
<1>4. Kept(r) /\ ShapeOf(rd[r]) /\ \A q \in Reader \ {r} : Apart(r, q)
    BY DEF TrailInv, Requests
<1>5. Kept(r)'
    BY <1>1, <1>2, <1>3, <1>4 DEF Kept, Doomed, Committed, ShapeOf
<1>6. \A q \in Reader \ {r} : Apart(r, q)'
    BY <1>1, <1>2, <1>3, <1>4 DEF Apart, Doomed
<1> QED BY <1>1, <1>2, <1>3, <1>5, <1>6, StepOfOne DEF x

-----------------------------------------------------------------------------
\* A new request holds nothing.
LEMMA BeginKeeps ==
  ASSUME TrailInv, NEW r \in Reader, NEW op, NEW p \in Paper \cup {NoPaper}, NEW w \in Web \cup {NoWeb}, NEW step,
         BeginTrail(r, op, p, w, step),
         \/ op = "read" /\ step = "look" /\ p \in Paper
         \/ op = "remove" /\ step = "delete" /\ p \in Paper
         \/ op = "move" /\ step = "check" /\ p \in Paper /\ w \in Web
         \/ op = "delete" /\ step = "doomed" /\ w \in Web
  PROVE  TrailInv'
<1> DEFINE x == [Resting EXCEPT !.op = op, !.at = step, !.paper = p, !.web = w]
<1>1. rd' = [rd EXCEPT ![r] = x] /\ UNCHANGED <<trail, webs, nextWeb, orphans, late>>
    BY DEF BeginTrail, TablesUnchanged
<1>2. /\ x.op = op /\ x.at = step /\ x.paper = p /\ x.web = w
      /\ x.made = FALSE /\ x.rows = {} /\ x.hold = "none" /\ x \in TrailRequest
    BY DEF Resting, TrailRequest
<1> HIDE DEF x
<1>3. rd'[r] = x /\ nextWeb' \in 1..(MaxWebs + 1)
    BY <1>1 DEF TrailInv, TrailTypeOK
<1>4. ShapeOf(x)
    BY <1>2 DEF ShapeOf
<1>5. Kept(r)' /\ \A q \in Reader \ {r} : Apart(r, q)'
    BY <1>2, <1>3 DEF Kept, Apart, Doomed
<1> QED BY <1>1, <1>2, <1>3, <1>4, <1>5, StepOfOne

\* A paper that is on the trail is not read again; the others go on.
LEMMA FindEntryKeeps == ASSUME TrailInv, NEW r \in Reader, FindEntry(r) PROVE TrailInv'
<1>1. TablesUnchanged /\ rd[r].at = "look"
    BY DEF FindEntry, At
<1>2. CASE Give(r)
    BY <1>1, <1>2, GiveKeeps
<1>3. CASE Go(r, "assign")
    <2>1. rd[r] \in TrailRequest /\ ShapeOf(rd[r])
        BY DEF TrailInv, TrailTypeOK, Requests
    <2>2. rd[r].op = "read" /\ rd[r].hold = "none"
        BY <2>1, <1>1 DEF ShapeOf, TrailRequest
    <2>3. [rd[r] EXCEPT !.at = "assign"] \in TrailRequest
        BY <2>1 DEF TrailRequest
    <2>4. ShapeOf([rd[r] EXCEPT !.at = "assign"])
        BY <1>1, <2>1 DEF ShapeOf, TrailRequest
    <2> QED BY <1>1, <1>3, <2>2, <2>3, <2>4, GoKeeps
<1> QED BY <1>2, <1>3 DEF FindEntry

\* The web a read is assigned is one of the table, or none.
LEMMA AssignKeeps == ASSUME TrailInv, NEW r \in Reader, Assign(r) PROVE TrailInv'
<1>1. PICK hint \in Web \cup {NoWeb}, via \in Paper \cup {NoPaper} : \E w \in Assigned(rd[r].paper, hint, via) :
        rd' = [rd EXCEPT ![r].web = w, ![r].at = IF w = NoWeb THEN "create" ELSE "insert"]
    BY DEF Assign
<1>2. PICK w \in Assigned(rd[r].paper, hint, via) :
        rd' = [rd EXCEPT ![r].web = w, ![r].at = IF w = NoWeb THEN "create" ELSE "insert"]
    BY <1>1
<1>3. rd[r] \in TrailRequest /\ ShapeOf(rd[r]) /\ webs \subseteq Web /\ trail \in [Paper -> Web \cup {NoWeb}]
    BY DEF TrailInv, TrailTypeOK, Requests
<1>4. w \in Web \cup {NoWeb}
    BY <1>3 DEF Assigned
<1> DEFINE x == [rd[r] EXCEPT !.web = w, !.at = IF w = NoWeb THEN "create" ELSE "insert"]
<1>5. rd' = [rd EXCEPT ![r] = x] /\ UNCHANGED <<trail, webs, nextWeb, orphans, late>> /\ rd[r].at = "assign"
    BY <1>2 DEF Assign, At, TablesUnchanged
<1>6. /\ x.op = rd[r].op /\ x.at = (IF w = NoWeb THEN "create" ELSE "insert") /\ x.paper = rd[r].paper
      /\ x.web = w /\ x.made = rd[r].made /\ x.rows = rd[r].rows /\ x.hold = rd[r].hold
    BY <1>3 DEF TrailRequest
<1>7. x \in TrailRequest
    BY <1>3, <1>4 DEF TrailRequest
<1> HIDE DEF x
<1>8. rd'[r] = x /\ nextWeb' \in 1..(MaxWebs + 1)
    BY <1>5 DEF TrailInv, TrailTypeOK
<1>9. x.op = "read" /\ x.hold = "none" /\ x.rows = {} /\ x.made = FALSE
    BY <1>3, <1>5, <1>6 DEF ShapeOf, TrailRequest
<1>10. ShapeOf(x)
    BY <1>3, <1>4, <1>5, <1>6, <1>9 DEF ShapeOf
<1>11. Kept(r)' /\ \A q \in Reader \ {r} : Apart(r, q)'
    BY <1>6, <1>8, <1>9 DEF Kept, Apart, Doomed
<1> QED BY <1>5, <1>7, <1>8, <1>9, <1>10, <1>11, StepOfOne

\* A new web is nobody else's, and its id is a fresh one.
LEMMA CreateWebKeeps == ASSUME TrailInv, NEW r \in Reader, CreateWeb(r) PROVE TrailInv'
<1> DEFINE x == [rd[r] EXCEPT !.web = nextWeb, !.made = TRUE, !.at = "insert"]
<1>1. /\ rd' = [rd EXCEPT ![r] = x] /\ UNCHANGED <<trail, webs, orphans, late>>
      /\ rd[r].at = "create" /\ nextWeb <= MaxWebs /\ nextWeb' = nextWeb + 1
    BY DEF CreateWeb, At
<1>2. rd[r] \in TrailRequest /\ ShapeOf(rd[r]) /\ nextWeb \in 1..(MaxWebs + 1)
    BY DEF TrailInv, TrailTypeOK, Requests
<1>3. nextWeb \in Web /\ nextWeb' \in 1..(MaxWebs + 1)
    BY <1>1, <1>2, MaxWebsAssumption DEF Web
<1>4. /\ x.op = rd[r].op /\ x.at = "insert" /\ x.paper = rd[r].paper
      /\ x.web = nextWeb /\ x.made = TRUE /\ x.rows = rd[r].rows /\ x.hold = rd[r].hold
    BY <1>2 DEF TrailRequest
<1>5. x \in TrailRequest
    BY <1>2, <1>3 DEF TrailRequest
<1> HIDE DEF x
<1>6. rd'[r] = x
    BY <1>1 DEF TrailInv, TrailTypeOK
<1>7. x.op = "read" /\ x.hold = "none" /\ x.rows = {}
    BY <1>2, <1>1, <1>4 DEF ShapeOf, TrailRequest
<1>8. ShapeOf(x)
    BY <1>1, <1>2, <1>3, <1>4, <1>7 DEF ShapeOf
<1>9. Kept(r)' /\ \A q \in Reader \ {r} : Apart(r, q)'
    BY <1>4, <1>6, <1>7 DEF Kept, Apart, Doomed
<1> QED BY <1>1, <1>3, <1>5, <1>6, <1>7, <1>8, <1>9, StepOfOne

\* The row is locked; nobody else has it.
LEMMA InsertKeeps == ASSUME TrailInv, NEW r \in Reader, Insert(r) PROVE TrailInv'
<1>1. TablesUnchanged /\ rd[r].at = "insert" /\ \A q \in Reader : ~WaitsFor(r, q)
    BY DEF Insert, At
<1>2. rd[r] \in TrailRequest /\ ShapeOf(rd[r]) /\ \A q \in Reader \ {r} : Apart(r, q)
    BY DEF TrailInv, TrailTypeOK, Requests
<1>3. rd[r].op = "read" /\ rd[r].hold = "none" /\ rd[r].rows = {} /\ rd[r].paper \in Paper /\ rd[r].web \in Web
    BY <1>1, <1>2 DEF ShapeOf, TrailRequest
<1>4. CASE Give(r)
    BY <1>1, <1>4, GiveKeeps
<1>5. CASE Go(r, "commit")
    <2>1. [rd[r] EXCEPT !.at = "commit"] \in TrailRequest
        BY <1>2 DEF TrailRequest
    <2>2. ShapeOf([rd[r] EXCEPT !.at = "commit"])
        BY <1>1, <1>2, <1>3 DEF ShapeOf, TrailRequest
    <2> QED BY <1>1, <1>3, <1>5, <2>1, <2>2, GoKeeps
<1>6. CASE /\ trail[rd[r].paper] = NoWeb
           /\ rd' = [rd EXCEPT ![r].rows = {rd[r].paper}, ![r].at = "link"]
    <2> DEFINE x == [rd[r] EXCEPT !.rows = {rd[r].paper}, !.at = "link"]
    <2>1. rd' = [rd EXCEPT ![r] = x] /\ UNCHANGED <<trail, webs, nextWeb, orphans, late>>
        BY <1>1, <1>6 DEF TablesUnchanged
    <2>2. /\ x.op = "read" /\ x.at = "link" /\ x.paper = rd[r].paper /\ x.paper \in Paper /\ x.web \in Web
          /\ x.web = rd[r].web /\ x.made = rd[r].made /\ x.rows = {rd[r].paper} /\ x.hold = "none"
        BY <1>2, <1>3 DEF TrailRequest
    <2>3. x \in TrailRequest
        BY <1>2, <1>3 DEF TrailRequest
    <2> HIDE DEF x
    <2>4. rd'[r] = x /\ nextWeb' \in 1..(MaxWebs + 1) /\ \A q \in Reader \ {r} : rd'[q] = rd[q]
        BY <2>1 DEF TrailInv, TrailTypeOK
    <2>5. ShapeOf(x)
        BY <2>2 DEF ShapeOf
    <2>6. NoWeb \notin Web
        BY DEF NoWeb, Web
    <2>7. Kept(r)'
        BY <1>6, <2>1, <2>2, <2>4, <2>6 DEF Kept, Doomed
    <2>8. \A q \in Reader \ {r} : rd[r].paper \notin rd[q].rows
        BY <1>1 DEF WaitsFor
    <2>9. \A q \in Reader \ {r} : Apart(r, q)'
        BY <1>2, <1>3, <2>2, <2>4, <2>8 DEF Apart, Doomed
    <2> QED BY <2>1, <2>2, <2>3, <2>4, <2>5, <2>7, <2>9, StepOfOne
<1> QED BY <1>4, <1>5, <1>6 DEF Insert

\* The foreign key: the web is there and stays until the commit.
LEMMA LinkKeeps == ASSUME TrailInv, NEW r \in Reader, Link(r) PROVE TrailInv'
<1>1. TablesUnchanged /\ rd[r].at = "link" /\ \A q \in Reader : ~WaitsFor(r, q)
    BY DEF Link, At
<1>2. rd[r] \in TrailRequest /\ ShapeOf(rd[r]) /\ \A q \in Reader \ {r} : Apart(r, q)
    BY DEF TrailInv, TrailTypeOK, Requests
<1>3. CASE Give(r)
    BY <1>1, <1>3, GiveKeeps
<1>4. CASE /\ rd[r].made \/ rd[r].web \in webs
           /\ rd' = [rd EXCEPT ![r].hold = "share", ![r].at = "commit"]
    <2> DEFINE x == [rd[r] EXCEPT !.hold = "share", !.at = "commit"]
    <2>1. rd' = [rd EXCEPT ![r] = x] /\ UNCHANGED <<trail, webs, nextWeb, orphans, late>>
        BY <1>1, <1>4 DEF TablesUnchanged
    <2>2. /\ x.op = rd[r].op /\ x.at = "commit" /\ x.paper = rd[r].paper /\ x.web = rd[r].web
          /\ x.made = rd[r].made /\ x.rows = rd[r].rows /\ x.hold = "share" /\ x \in TrailRequest
        BY <1>2 DEF TrailRequest
    <2> HIDE DEF x
    <2>3. rd'[r] = x /\ nextWeb' \in 1..(MaxWebs + 1) /\ \A q \in Reader \ {r} : rd'[q] = rd[q]
        BY <2>1 DEF TrailInv, TrailTypeOK
    <2>4. rd[r].op \in {"read", "move"} /\ ShapeOf(x)
        BY <1>1, <1>2, <2>2 DEF ShapeOf
    <2>5. Kept(r)'
        BY <1>4, <2>1, <2>2, <2>3, <2>4 DEF Kept, Doomed
    <2>6. \A q \in Reader \ {r} : rd[q].web = rd[r].web => rd[q].hold # "drop"
        BY <1>1 DEF WaitsFor
    <2>7. \A q \in Reader \ {r} : Apart(r, q)'
        BY <1>2, <2>2, <2>3, <2>4, <2>6 DEF Apart, Doomed
    <2> QED BY <2>1, <2>2, <2>3, <2>4, <2>5, <2>7, StepOfOne
<1> QED BY <1>3, <1>4 DEF Link

\* The row of a removal is locked by nobody else, and names the web it leaves.
LEMMA DeleteRowKeeps == ASSUME TrailInv, NEW r \in Reader, DeleteRow(r) PROVE TrailInv'
<1>1. TablesUnchanged /\ rd[r].at = "delete" /\ \A q \in Reader : ~WaitsFor(r, q)
    BY DEF DeleteRow, At
<1>2. rd[r] \in TrailRequest /\ ShapeOf(rd[r]) /\ \A q \in Reader \ {r} : Apart(r, q)
    BY DEF TrailInv, TrailTypeOK, Requests
<1>3. rd[r].op = "remove" /\ rd[r].hold = "none" /\ rd[r].paper \in Paper /\ rd[r].made = FALSE
    BY <1>1, <1>2 DEF ShapeOf, TrailRequest
<1>4. CASE Give(r)
    BY <1>1, <1>4, GiveKeeps
<1>5. CASE /\ trail[rd[r].paper] # NoWeb
           /\ rd' = [rd EXCEPT ![r].web = trail[rd[r].paper], ![r].rows = {rd[r].paper}, ![r].at = "check"]
    <2> DEFINE x == [rd[r] EXCEPT !.web = trail[rd[r].paper], !.rows = {rd[r].paper}, !.at = "check"]
    <2>1. rd' = [rd EXCEPT ![r] = x] /\ UNCHANGED <<trail, webs, nextWeb, orphans, late>>
        BY <1>1, <1>5 DEF TablesUnchanged
    <2>2. trail[rd[r].paper] \in Web
        BY <1>3, <1>5 DEF TrailInv, TrailTypeOK
    <2>3. /\ x.op = "remove" /\ x.at = "check" /\ x.paper = rd[r].paper /\ x.web = trail[rd[r].paper]
          /\ x.made = FALSE /\ x.rows = {rd[r].paper} /\ x.hold = "none" /\ x \in TrailRequest
        BY <1>2, <1>3, <2>2 DEF TrailRequest
    <2> HIDE DEF x
    <2>4. rd'[r] = x /\ nextWeb' \in 1..(MaxWebs + 1) /\ \A q \in Reader \ {r} : rd'[q] = rd[q]
        BY <2>1 DEF TrailInv, TrailTypeOK
    <2>5. ShapeOf(x)
        BY <1>3, <2>3 DEF ShapeOf
    <2>6. Kept(r)'
        BY <2>1, <2>2, <2>3, <2>4 DEF Kept, Doomed
    <2>7. \A q \in Reader \ {r} : rd[r].paper \notin rd[q].rows
        BY <1>1 DEF WaitsFor
    <2>8. \A q \in Reader \ {r} : Apart(r, q)'
        BY <2>3, <2>4, <2>7 DEF Apart, Doomed
    <2> QED BY <2>1, <2>3, <2>4, <2>5, <2>6, <2>8, StepOfOne
<1> QED BY <1>4, <1>5 DEF DeleteRow

\* A removal that finds no other paper will drop the web; of the requests that
\* remove its papers it is the only one.  One that leaves the web either leaves a
\* paper nobody is removing, or the web is an orphan.
LEMMA SeesOthersKeeps == ASSUME TrailInv, NEW r \in Reader, SeesOthers(r) PROVE TrailInv'
<1> DEFINE others == Committed(rd[r].web) \ {rd[r].paper}
           step == IF others = {} THEN "doomed" ELSE "commit"
           x == [rd[r] EXCEPT !.at = step]
<1>1. /\ rd[r].at = "check" /\ rd[r].op = "remove" /\ rd' = [rd EXCEPT ![r] = x]
      /\ UNCHANGED <<trail, webs, nextWeb, late>>
    BY DEF SeesOthers, At, Go
<1>2. rd[r] \in TrailRequest /\ ShapeOf(rd[r]) /\ Kept(r) /\ \A q \in Reader \ {r} : Apart(r, q)
    BY DEF TrailInv, TrailTypeOK, Requests
<1>3. rd[r].hold = "none" /\ rd[r].rows = {rd[r].paper} /\ rd[r].paper \in Paper /\ rd[r].web \in Web /\ rd[r].made = FALSE
    BY <1>1, <1>2 DEF ShapeOf, Kept, TrailRequest
<1>4. /\ x.op = "remove" /\ x.at = step /\ x.paper = rd[r].paper /\ x.web = rd[r].web
      /\ x.made = FALSE /\ x.rows = {rd[r].paper} /\ x.hold = "none" /\ x \in TrailRequest
    BY <1>1, <1>2, <1>3 DEF TrailRequest
<1> HIDE DEF x
<1>5. rd'[r] = x /\ nextWeb' \in 1..(MaxWebs + 1) /\ \A q \in Reader \ {r} : rd'[q] = rd[q]
    BY <1>1 DEF TrailInv, TrailTypeOK
<1>6. ShapeOf(x)
    BY <1>3, <1>4 DEF ShapeOf
<1>7. Kept(r)'
    BY <1>1, <1>2, <1>3, <1>4, <1>5 DEF Kept, Doomed, Committed
<1>8. ASSUME NEW q \in Reader \ {r}, Doomed(q), rd[q].web = rd[r].web, others = {} PROVE FALSE
    <2>1. ShapeOf(rd[q]) /\ Kept(q) /\ Apart(r, q)
        BY DEF TrailInv, Requests
    <2>2. rd[q].paper \in rd[q].rows /\ rd[q].paper \in Paper
        BY <1>8, <2>1 DEF ShapeOf, Doomed
    <2>3. trail[rd[q].paper] = rd[r].web
        BY <1>8, <2>1, <2>2 DEF Kept, Doomed
    <2>4. rd[q].paper # rd[r].paper
        BY <1>3, <2>1, <2>2 DEF Apart
    <2> QED BY <1>8, <2>2, <2>3, <2>4 DEF Committed
<1>9. \A q \in Reader \ {r} : Apart(r, q)'
    BY <1>2, <1>3, <1>4, <1>5, <1>8 DEF Apart, Doomed
<1>10. CASE others = {}
    <2>1. orphans' = orphans
        BY <1>10 DEF SeesOthers
    <2> QED BY <1>1, <1>4, <1>5, <1>6, <1>7, <1>9, <1>10, <2>1, StepOfOne
<1>11. CASE others # {}
    <2>1. orphans' = IF \A p \in others : \E q \in Reader : p \in rd[q].rows
                       THEN orphans \cup {rd[r].web} ELSE orphans
        BY <1>11 DEF SeesOthers
    <2>2. TrailTypeOK'
        BY <1>1, <1>3, <1>4, <1>5, <2>1 DEF TrailInv, TrailTypeOK
    <2>3. ASSUME NEW w \in webs' \ orphans'
          PROVE  \E p \in Committed(w)' : \A q \in Reader : ~Removes(q, p)'
        <3>1. w \in webs \ orphans
            BY <1>1, <2>1, <2>3
        <3>2. PICK p \in Committed(w) : \A q \in Reader : ~Removes(q, p)
            BY <3>1 DEF TrailInv, Keeper
        <3>3. CASE p # rd[r].paper
            <4>1. \A q \in Reader : ~Removes(q, p)'
                BY <1>4, <1>5, <3>2, <3>3 DEF Removes
            <4> QED BY <1>1, <3>2, <4>1 DEF Committed
        <3>4. CASE p = rd[r].paper
            <4>1. w = rd[r].web
                BY <1>1, <1>2, <1>3, <3>2, <3>4 DEF Kept, Committed
            <4>2. PICK p2 \in others : \A q \in Reader : p2 \notin rd[q].rows
                BY <2>1, <2>3, <4>1
            <4>3. ASSUME NEW q \in Reader, Removes(q, p2)' PROVE FALSE
                <5>1. q # r
                    BY <1>4, <1>5, <4>2, <4>3 DEF Removes
                <5>2. ShapeOf(rd[q]) /\ Removes(q, p2)
                    BY <1>5, <4>3, <5>1 DEF Removes, TrailInv, Requests
                <5>3. p2 \in rd[q].rows
                    BY <5>2 DEF ShapeOf, Removes
                <5> QED BY <4>2, <5>3
            <4>4. p2 \in Committed(w)'
                BY <1>1, <4>1, <4>2 DEF Committed
            <4> QED BY <4>3, <4>4
        <3> QED BY <3>3, <3>4
    <2>4. Keeper'
        BY <2>3 DEF Keeper
    <2> QED BY <1>1, <1>5, <1>6, <1>7, <1>9, <2>2, <2>4, PrivateStep
<1> QED BY <1>10, <1>11

\* The row of a web is deleted only while no other request holds it.
LEMMA DropWebKeeps == ASSUME TrailInv, NEW r \in Reader, DropWeb(r) PROVE TrailInv'
<1>1. TablesUnchanged /\ rd[r].at = "doomed" /\ \A q \in Reader : ~WaitsFor(r, q)
    BY DEF DropWeb, At
<1>2. rd[r] \in TrailRequest /\ ShapeOf(rd[r]) /\ Kept(r) /\ \A q \in Reader \ {r} : Apart(r, q)
    BY DEF TrailInv, TrailTypeOK, Requests
<1>3. rd[r].op \in {"remove", "delete"} /\ rd[r].hold = "none" /\ rd[r].made = FALSE
    BY <1>1, <1>2 DEF ShapeOf, TrailRequest
<1>4. CASE rd[r].web \in webs
    <2> DEFINE x == [rd[r] EXCEPT !.hold = "drop", !.at = "cascade"]
    <2>1. rd' = [rd EXCEPT ![r] = x] /\ UNCHANGED <<trail, webs, nextWeb, orphans, late>>
        BY <1>1, <1>4 DEF DropWeb, TablesUnchanged
    <2>2. /\ x.op = rd[r].op /\ x.at = "cascade" /\ x.paper = rd[r].paper /\ x.web = rd[r].web
          /\ x.made = rd[r].made /\ x.rows = rd[r].rows /\ x.hold = "drop" /\ x \in TrailRequest
        BY <1>2 DEF TrailRequest
    <2> HIDE DEF x
    <2>3. rd'[r] = x /\ nextWeb' \in 1..(MaxWebs + 1) /\ \A q \in Reader \ {r} : rd'[q] = rd[q]
        BY <2>1 DEF TrailInv, TrailTypeOK
    <2>4. ShapeOf(x)
        BY <1>1, <1>2, <1>3, <2>2 DEF ShapeOf
    <2>5. Kept(r)'
        BY <1>1, <1>2, <1>3, <2>1, <2>2, <2>3 DEF Kept, Doomed, Committed
    <2>6. \A q \in Reader \ {r} : rd[q].web = rd[r].web => rd[q].hold = "none"
        BY <1>1 DEF WaitsFor
    <2>7. \A q \in Reader \ {r} : Apart(r, q)'
        BY <1>1, <1>2, <2>2, <2>3, <2>6 DEF Apart, Doomed
    <2> QED BY <2>1, <2>2, <2>3, <2>4, <2>5, <2>7, StepOfOne
<1>5. CASE rd[r].web \notin webs
    <2>1. rd[r].op = "delete"
        <3>1. ASSUME rd[r].op = "remove" PROVE FALSE
            <4>1. rd[r].paper \in rd[r].rows /\ rd[r].paper \in Paper /\ rd[r].web \in Web
                BY <1>1, <1>2, <3>1 DEF ShapeOf, Kept
            <4>2. trail[rd[r].paper] = rd[r].web /\ rd[r].web # NoWeb
                BY <1>2, <3>1, <4>1 DEF Kept, Web, NoWeb
            <4> QED BY <1>5, <4>1, <4>2 DEF TrailInv, RowsHaveWebs
        <3> QED BY <1>3, <3>1
    <2>2. Go(r, "commit")
        BY <1>5 DEF DropWeb
    <2>3. [rd[r] EXCEPT !.at = "commit"] \in TrailRequest
        BY <1>2 DEF TrailRequest
    <2>4. ShapeOf([rd[r] EXCEPT !.at = "commit"])
        BY <1>1, <1>2, <1>3, <2>1 DEF ShapeOf, TrailRequest
    <2> QED BY <1>1, <1>3, <2>1, <2>2, <2>3, <2>4, GoKeeps
<1> QED BY <1>4, <1>5

\* The cascade takes the rows of the web, which nobody has locked.
LEMMA CascadeKeeps == ASSUME TrailInv, NEW r \in Reader, Cascade(r) PROVE TrailInv'
<1> DEFINE x == [rd[r] EXCEPT !.rows = @ \cup Committed(rd[r].web), !.at = "commit"]
<1>1. /\ rd' = [rd EXCEPT ![r] = x] /\ UNCHANGED <<trail, webs, nextWeb, orphans, late>>
      /\ rd[r].at = "cascade" /\ \A q \in Reader : ~WaitsFor(r, q)
    BY DEF Cascade, At, TablesUnchanged
<1>2. rd[r] \in TrailRequest /\ ShapeOf(rd[r]) /\ Kept(r) /\ \A q \in Reader \ {r} : Apart(r, q)
    BY DEF TrailInv, TrailTypeOK, Requests
<1>3. rd[r].op \in {"remove", "delete"} /\ rd[r].hold = "drop" /\ rd[r].made = FALSE
    BY <1>1, <1>2 DEF ShapeOf, TrailRequest
<1>4. Committed(rd[r].web) \subseteq Paper
    BY DEF Committed
<1>5. /\ x.op = rd[r].op /\ x.at = "commit" /\ x.paper = rd[r].paper /\ x.web = rd[r].web
      /\ x.made = rd[r].made /\ x.rows = rd[r].rows \cup Committed(rd[r].web) /\ x.hold = "drop" /\ x \in TrailRequest
    BY <1>2, <1>3, <1>4 DEF TrailRequest
<1> HIDE DEF x
<1>6. rd'[r] = x /\ nextWeb' \in 1..(MaxWebs + 1) /\ \A q \in Reader \ {r} : rd'[q] = rd[q]
    BY <1>1 DEF TrailInv, TrailTypeOK
<1>7. ShapeOf(x)
    BY <1>1, <1>2, <1>3, <1>5 DEF ShapeOf
<1>8. Kept(r)'
    BY <1>1, <1>2, <1>3, <1>5, <1>6 DEF Kept, Doomed, Committed
<1>9. \A q \in Reader \ {r} : Committed(rd[r].web) \cap rd[q].rows = {}
    BY <1>1 DEF WaitsFor
<1>10. \A q \in Reader \ {r} : Apart(r, q)'
    BY <1>1, <1>2, <1>3, <1>5, <1>6, <1>9 DEF Apart, Doomed
<1> QED BY <1>1, <1>5, <1>6, <1>7, <1>8, <1>10, StepOfOne

\* A move has found its web and its paper, and holds neither yet.
LEMMA CheckMoveKeeps == ASSUME TrailInv, NEW r \in Reader, CheckMove(r) PROVE TrailInv'
<1>1. TablesUnchanged /\ rd[r].at = "check" /\ rd[r].op = "move"
    BY DEF CheckMove, At
<1>2. rd[r] \in TrailRequest /\ ShapeOf(rd[r])
    BY DEF TrailInv, TrailTypeOK, Requests
<1>3. CASE Give(r)
    BY <1>1, <1>3, GiveKeeps
<1>4. CASE Go(r, "update")
    <2>1. [rd[r] EXCEPT !.at = "update"] \in TrailRequest
        BY <1>2 DEF TrailRequest
    <2>2. ShapeOf([rd[r] EXCEPT !.at = "update"]) /\ rd[r].hold = "none"
        BY <1>1, <1>2 DEF ShapeOf, TrailRequest
    <2> QED BY <1>1, <1>4, <2>1, <2>2, GoKeeps
<1> QED BY <1>3, <1>4 DEF CheckMove

\* A move within the web needs no foreign key; any other goes on to link.
LEMMA UpdateRowKeeps == ASSUME TrailInv, NEW r \in Reader, UpdateRow(r) PROVE TrailInv'
<1> DEFINE p == rd[r].paper
           step == IF trail[p] = rd[r].web THEN "commit" ELSE "link"
           x == [rd[r] EXCEPT !.rows = {p}, !.at = step]
<1>1. TablesUnchanged /\ rd[r].at = "update" /\ \A q \in Reader : ~WaitsFor(r, q)
    BY DEF UpdateRow, At
<1>2. rd[r] \in TrailRequest /\ ShapeOf(rd[r]) /\ \A q \in Reader \ {r} : Apart(r, q)
    BY DEF TrailInv, TrailTypeOK, Requests
<1>3. rd[r].op = "move" /\ rd[r].hold = "none" /\ p \in Paper /\ rd[r].made = FALSE /\ rd[r].web \in Web
    BY <1>1, <1>2 DEF ShapeOf, TrailRequest
<1>4. CASE Give(r)
    BY <1>1, <1>4, GiveKeeps
<1>5. CASE trail[p] # NoWeb /\ rd' = [rd EXCEPT ![r] = x]
    <2>1. UNCHANGED <<trail, webs, nextWeb, orphans, late>>
        BY <1>1 DEF TablesUnchanged
    <2>2. /\ x.op = "move" /\ x.at = step /\ x.paper = rd[r].paper /\ x.web = rd[r].web
          /\ x.made = FALSE /\ x.rows = {p} /\ x.hold = "none" /\ x \in TrailRequest
        BY <1>2, <1>3 DEF TrailRequest
    <2> HIDE DEF x
    <2>3. rd'[r] = x /\ nextWeb' \in 1..(MaxWebs + 1) /\ \A q \in Reader \ {r} : rd'[q] = rd[q]
        BY <1>5, <2>1 DEF TrailInv, TrailTypeOK
    <2>4. ShapeOf(x)
        BY <1>3, <2>2 DEF ShapeOf
    <2>5. Kept(r)'
        BY <2>1, <2>2, <2>3 DEF Kept, Doomed
    <2>6. \A q \in Reader \ {r} : p \notin rd[q].rows
        BY <1>1 DEF WaitsFor
    <2>7. \A q \in Reader \ {r} : Apart(r, q)'
        BY <1>2, <1>3, <2>2, <2>3, <2>6 DEF Apart, Doomed
    <2> QED BY <1>5, <2>1, <2>2, <2>3, <2>4, <2>5, <2>7, StepOfOne
<1> QED BY <1>4, <1>5 DEF UpdateRow

-----------------------------------------------------------------------------
(* The commit of r, the one step that changes the tables.                    *)

\* What holds when r commits, and what the commit does to the rows and to r.
LEMMA CommitFacts ==
  ASSUME TrailInv, NEW r \in Reader, Commit(r)
  PROVE  /\ rd[r].at = "commit" /\ rd[r] \in TrailRequest /\ ShapeOf(rd[r]) /\ Kept(r)
         /\ rd'[r] = Resting /\ rd' \in [Reader -> TrailRequest]
         /\ \A q \in Reader \ {r} : rd'[q] = rd[q] /\ Apart(r, q)
         /\ \A x \in Paper : trail'[x] = IF x \notin rd[r].rows THEN trail[x]
                                         ELSE IF Joins(r) THEN rd[r].web ELSE NoWeb
         /\ rd[r].rows \subseteq Paper
         /\ Joins(r) => rd[r].web \in Web /\ rd[r].rows \subseteq {rd[r].paper} /\ rd[r].hold # "drop"
         /\ ~Joins(r) => rd[r].op \in {"remove", "delete"} /\ ~rd[r].made /\ rd[r].hold # "share"
         /\ NoWeb \notin Web
<1>1. rd[r].at = "commit" /\ rd[r] \in TrailRequest /\ ShapeOf(rd[r]) /\ Kept(r) /\ \A q \in Reader \ {r} : Apart(r, q)
    BY DEF Commit, At, TrailInv, TrailTypeOK, Requests
<1>2. Resting \in TrailRequest
    BY DEF Resting, TrailRequest
<1>3. rd'[r] = Resting /\ rd' \in [Reader -> TrailRequest] /\ \A q \in Reader \ {r} : rd'[q] = rd[q]
    BY <1>2 DEF Commit, Give, TrailInv, TrailTypeOK
<1>4. \A x \in Paper : trail'[x] = IF x \notin rd[r].rows THEN trail[x]
                                   ELSE IF Joins(r) THEN rd[r].web ELSE NoWeb
    BY DEF Commit
<1>5. rd[r].rows \subseteq Paper /\ NoWeb \notin Web
    BY <1>1 DEF TrailRequest, NoWeb, Web
<1>6. Joins(r) => rd[r].web \in Web /\ rd[r].rows \subseteq {rd[r].paper} /\ rd[r].hold # "drop"
    BY <1>1 DEF Joins, ShapeOf, TrailRequest
<1>7. ~Joins(r) => rd[r].op \in {"remove", "delete"} /\ ~rd[r].made /\ rd[r].hold # "share"
    BY <1>1 DEF Joins, ShapeOf, TrailRequest
<1> QED BY <1>1, <1>3, <1>4, <1>5, <1>6, <1>7

\* The commit keeps the types.
LEMMA CommitTypes == ASSUME TrailInv, NEW r \in Reader, Commit(r) PROVE TrailTypeOK'
<1> DEFINE w == rd[r].web
           p == rd[r].paper
<1>1. TrailTypeOK /\ rd[r] \in TrailRequest
    BY DEF TrailInv, TrailTypeOK
<1>2. trail' \in [Paper -> Web \cup {NoWeb}]
    <2>1. \A x \in Paper : trail'[x] \in Web \cup {NoWeb}
        BY <1>1, CommitFacts DEF TrailTypeOK
    <2>2. trail' = [x \in Paper |-> trail'[x]]
        BY DEF Commit, Joins
    <2> QED BY <2>1, <2>2
<1>0. /\ Joins(r) => rd[r].web \in Web
      /\ ~Joins(r) => ~rd[r].made
    BY CommitFacts
<1>3. webs' \subseteq Web
    <2>1. webs' \in {webs \ {w}, webs, webs \cup {w}} /\ (webs' = webs \cup {w} => rd[r].made \/ webs' = webs)
        BY DEF Commit
    <2> QED BY <2>1, <1>0, <1>1 DEF TrailTypeOK
<1>4. nextWeb' = nextWeb /\ rd' \in [Reader -> TrailRequest]
    BY CommitFacts DEF Commit
<1>5. orphans' \subseteq Web
    <2>1. CASE ~Joins(r)
        <3>1. orphans' = orphans
            BY <2>1 DEF Commit, Joins
        <3> QED BY <3>1, <1>1 DEF TrailTypeOK
    <2>2. CASE Joins(r) /\ rd[r].rows = {}
        <3>1. orphans' = orphans \cup {w}
            BY <2>2 DEF Commit
        <3> QED BY <2>2, <3>1, <1>0, <1>1 DEF TrailTypeOK
    <2>3. CASE Joins(r) /\ rd[r].rows # {}
        <3>1. trail[p] \in Web \cup {NoWeb}
            BY <2>3, <1>1, CommitFacts DEF TrailTypeOK
        <3> QED BY <2>3, <3>1, <1>1 DEF Commit, TrailTypeOK
    <2> QED BY <2>1, <2>2, <2>3
<1>6. late' \subseteq Paper
    BY <1>1, CommitFacts DEF Commit, TrailTypeOK
<1> QED BY <1>1, <1>2, <1>3, <1>4, <1>5, <1>6 DEF TrailTypeOK

\* The commit leaves every row with its web: a joining request holds a share of
\* it, and one that drops it takes all of its rows.
LEMMA CommitRows == ASSUME TrailInv, NEW r \in Reader, Commit(r) PROVE RowsHaveWebs'
<1> SUFFICES ASSUME NEW p \in Paper, trail'[p] # NoWeb PROVE trail'[p] \in webs'
    BY DEF RowsHaveWebs
<1> DEFINE w == rd[r].web
<1>1. webs' = IF rd[r].hold = "drop" THEN webs \ {w}
              ELSE IF rd[r].made THEN webs \cup {w} ELSE webs
    BY DEF Commit
<1>2. CASE p \notin rd[r].rows
    <2>1. trail'[p] = trail[p] /\ trail[p] \in webs
        BY <1>2, CommitFacts DEF TrailInv, RowsHaveWebs
    <2>2. rd[r].hold = "drop" => trail[p] # w
        BY <1>2, CommitFacts DEF Kept, Committed
    <2> QED BY <1>1, <2>1, <2>2
<1>3. CASE p \in rd[r].rows
    <2>1. Joins(r) /\ trail'[p] = w /\ p = rd[r].paper /\ rd[r].hold # "drop"
        BY <1>3, CommitFacts
    <2>2. CASE rd[r].hold = "share"
        BY <1>1, <2>1, <2>2, CommitFacts DEF Kept
    <2>3. CASE rd[r].hold = "none"
        <3>1. rd[r].op = "move" /\ trail[p] = w
            BY <1>3, <2>1, <2>3, CommitFacts DEF ShapeOf, Kept, Joins
        <3>2. w \in webs
            BY <2>1, <3>1 DEF TrailInv, RowsHaveWebs
        <3> QED BY <1>1, <2>1, <3>2
    <2> QED BY <2>1, <2>2, <2>3, CommitFacts DEF TrailRequest
<1> QED BY <1>2, <1>3

\* What the others have read under their locks outlives the commit.
LEMMA CommitKept ==
  ASSUME TrailInv, NEW r \in Reader, Commit(r), NEW q \in Reader \ {r}
  PROVE  Kept(q)'
<1> DEFINE w == rd[r].web
           v == rd[q].web
<1>1. rd'[q] = rd[q] /\ Apart(r, q) /\ rd[q] \in TrailRequest /\ ShapeOf(rd[q]) /\ Kept(q)
    BY CommitFacts DEF TrailInv, TrailTypeOK, Requests
<1>2. \A x \in rd[q].rows : trail'[x] = trail[x]
    BY <1>1, CommitFacts DEF Apart, TrailRequest
<1>3. rd[q].op \in {"remove", "delete"} => \A x \in rd[q].rows : trail'[x] = v
    BY <1>1, <1>2 DEF Kept
<1>4. rd[q].at = "link" => trail'[rd[q].paper] # v
    BY <1>1, <1>2 DEF Kept, ShapeOf
<1>5. rd[q].op = "move" /\ rd[q].at = "commit" /\ rd[q].hold = "none" => trail'[rd[q].paper] = v
    BY <1>1, <1>2 DEF Kept, ShapeOf
<1>6. rd[q].hold = "share" => rd[q].made \/ v \in webs'
    BY <1>1, CommitFacts DEF Kept, Apart, Commit
<1>7. rd[q].op = "remove" /\ rd[q].at \in {"check", "doomed", "cascade", "commit"} => v \in Web
    BY <1>1 DEF Kept
<1>8. ASSUME NEW x \in rd[r].rows, trail'[x] = v, v \in Web
      PROVE  Joins(r) /\ w = v /\ x = rd[r].paper
    BY <1>8, CommitFacts
<1>9. ASSUME NEW x \in rd[r].rows, trail'[x] = v, v \in Web, rd[q].hold = "drop"
      PROVE  trail[x] = v
    <2>1. Joins(r) /\ w = v /\ x = rd[r].paper
        BY <1>8, <1>9
    <2>2. rd[r].hold = "none"
        BY <1>1, <1>9, <2>1 DEF Apart
    <2> QED BY <1>9, <2>1, <2>2, CommitFacts DEF ShapeOf, Kept, Joins
<1>10. ASSUME rd[q].at = "commit", rd[q].hold = "drop", NEW x \in Paper, trail'[x] = v
       PROVE  x \in rd[q].rows
    <2>1. v \in Web
        BY <1>1, <1>10 DEF ShapeOf, Kept
    <2>2. trail[x] = v
        BY <1>9, <1>10, <2>1, CommitFacts
    <2> QED BY <1>1, <1>10, <2>2 DEF Kept, Committed
<1>11. ASSUME Doomed(q), NEW x \in Paper, trail'[x] = v, x # rd[q].paper
       PROVE  x \in late'
    <2> DEFINE joined == {y \in rd[r].rows : Joins(r) /\ \E s \in Reader : rd[s].at = "doomed" /\ rd[s].web = w}
    <2>1. late' = (late \ {y \in rd[r].rows : ~Joins(r) \/ trail[y] # w}) \cup joined
        BY DEF Commit
    <2>2. v \in Web /\ (Committed(v) \ {rd[q].paper} \subseteq late)
        BY <1>1, <1>11 DEF Kept, Doomed
    <2>3. CASE x \notin rd[r].rows
        BY <1>11, <2>1, <2>2, <2>3, CommitFacts DEF Committed
    <2>4. CASE x \in rd[r].rows /\ trail[x] = v
        BY <1>8, <1>11, <2>1, <2>2, <2>4 DEF Committed
    <2>5. CASE x \in rd[r].rows /\ trail[x] # v
        <3>1. rd[q].hold # "drop" /\ Joins(r) /\ w = v
            BY <1>8, <1>9, <1>11, <2>2, <2>5
        <3>2. rd[q].at = "doomed"
            BY <1>1, <1>11, <3>1 DEF Doomed, ShapeOf
        <3> QED BY <2>1, <2>5, <3>1, <3>2
    <2> QED BY <2>3, <2>4, <2>5
<1>12. Doomed(q)' <=> Doomed(q)
    BY <1>1 DEF Doomed
<1>13. rd[q].at = "commit" /\ rd[q].hold = "drop" => Committed(v)' \subseteq rd[q].rows
    BY <1>1, <1>10 DEF Committed
<1>14. Doomed(q)' => Committed(v)' \ {rd[q].paper} \subseteq late'
    BY <1>1, <1>11, <1>12 DEF Committed
<1> QED BY <1>1, <1>3, <1>4, <1>5, <1>6, <1>7, <1>13, <1>14 DEF Kept

\* The commit keeps what the others have read under their locks.
LEMMA CommitRequests == ASSUME TrailInv, NEW r \in Reader, Commit(r) PROVE Requests'
<1>1. ShapeOf(Resting) /\ Kept(r)' /\ \A q \in Reader : Apart(r, q)' /\ Apart(q, r)'
    BY CommitFacts DEF ShapeOf, Kept, Apart, Doomed, Resting
<1>2. ASSUME NEW q \in Reader \ {r} PROVE ShapeOf(rd[q])' /\ Kept(q)'
    BY CommitFacts, CommitKept DEF TrailInv, Requests
<1>3. ASSUME NEW q \in Reader \ {r}, NEW s \in Reader \ {q, r} PROVE Apart(q, s)'
    <2>1. Apart(q, s)
        BY DEF TrailInv, Requests
    <2> QED BY <2>1, CommitFacts DEF Apart, Doomed
<1>4. ShapeOf(rd[r])'
    BY <1>1, CommitFacts
<1> QED BY <1>1, <1>2, <1>3, <1>4 DEF Requests

\* A web keeps its keeper, or is an orphan, or has got a new paper.
LEMMA CommitKeeper == ASSUME TrailInv, NEW r \in Reader, Commit(r) PROVE Keeper'
<1> DEFINE w == rd[r].web
           p == rd[r].paper
<1> SUFFICES ASSUME NEW v \in webs' \ orphans'
             PROVE  \E x \in Committed(v)' : \A q \in Reader : ~Removes(q, x)'
    BY DEF Keeper
<1>1. /\ webs' = IF rd[r].hold = "drop" THEN webs \ {w}
                 ELSE IF rd[r].made THEN webs \cup {w} ELSE webs
      /\ orphans' = IF ~Joins(r) THEN orphans
                    ELSE IF rd[r].rows = {} THEN orphans \cup {w}
                    ELSE (orphans \cup ({trail[p]} \ {NoWeb})) \ {w}
    BY DEF Commit
<1>2. \A x, q : q \in Reader /\ Removes(q, x)' => q # r /\ Removes(q, x)
    BY CommitFacts DEF Removes, Resting
<1>3. webs \subseteq Web
    BY DEF TrailInv, TrailTypeOK
<1>4. ASSUME v \in webs \ orphans,
             \A x \in Paper : trail[x] = v /\ (\A q \in Reader : ~Removes(q, x)) => x \notin rd[r].rows
      PROVE  \E x \in Committed(v)' : \A q \in Reader : ~Removes(q, x)'
    <2>1. PICK x \in Committed(v) : \A q \in Reader : ~Removes(q, x)
        BY <1>4 DEF TrailInv, Keeper
    <2>2. x \in Paper /\ trail'[x] = v
        BY <1>4, <2>1, CommitFacts DEF Committed
    <2>3. \A q \in Reader : ~Removes(q, x)'
        BY <1>2, <2>1
    <2> QED BY <2>2, <2>3 DEF Committed
<1>5. CASE Joins(r) /\ rd[r].rows = {}
    <2>1. v \in webs \ orphans
        BY <1>1, <1>5, CommitFacts
    <2> QED BY <1>4, <1>5, <2>1
<1>6. CASE Joins(r) /\ rd[r].rows # {} /\ v = w
    <2>1. PICK x \in Paper : rd[r].rows = {x} /\ trail'[x] = w
        BY <1>6, CommitFacts
    <2>2. ASSUME NEW q \in Reader, Removes(q, x)' PROVE FALSE
        <3>1. q # r /\ Removes(q, x)
            BY <1>2, <2>2
        <3>2. ShapeOf(rd[q]) /\ Apart(r, q)
            BY <3>1, CommitFacts DEF TrailInv, Requests
        <3> QED BY <2>1, <3>1, <3>2 DEF ShapeOf, Removes, Apart
    <2>3. x \in Committed(v)'
        BY <1>6, <2>1 DEF Committed
    <2> QED BY <2>2, <2>3
<1>7. CASE Joins(r) /\ rd[r].rows # {} /\ v # w
    <2>1. rd[r].rows = {p} /\ p \in Paper /\ v \in webs /\ v # NoWeb
        BY <1>1, <1>3, <1>7, CommitFacts
    <2>2. v \notin orphans /\ trail[p] # v
        BY <1>1, <1>7, <2>1
    <2> QED BY <1>4, <2>1, <2>2
<1>8. CASE ~Joins(r) /\ rd[r].hold = "drop"
    <2>1. v \in webs \ orphans /\ v # w
        BY <1>1, <1>8
    <2>2. \A x \in rd[r].rows : trail[x] = w
        BY <1>8, CommitFacts DEF Kept
    <2> QED BY <1>4, <2>1, <2>2
<1>9. CASE ~Joins(r) /\ rd[r].hold # "drop"
    <2>1. v \in webs \ orphans /\ rd[r].hold = "none"
        BY <1>1, <1>9, CommitFacts DEF TrailRequest
    <2>2. \A x \in rd[r].rows : Removes(r, x)
        BY <1>9, <2>1, CommitFacts DEF ShapeOf, Removes
    <2> QED BY <1>4, <2>1, <2>2
<1> QED BY <1>5, <1>6, <1>7, <1>8, <1>9

\* The commit keeps the invariant.
LEMMA CommitKeeps == ASSUME TrailInv, NEW r \in Reader, Commit(r) PROVE TrailInv'
  BY CommitTypes, CommitRows, CommitRequests, CommitKeeper DEF TrailInv

-----------------------------------------------------------------------------
\* Every step keeps the invariant.
LEMMA TrailStep == TrailInv /\ [TrailNext]_trailVars => TrailInv'
<1> SUFFICES ASSUME TrailInv, [TrailNext]_trailVars PROVE TrailInv'
    OBVIOUS
<1>1. CASE UNCHANGED trailVars
    BY <1>1 DEF trailVars, TrailInv, TrailTypeOK, Requests, ShapeOf, Kept, Apart, Doomed, Committed,
                RowsHaveWebs, Keeper, Removes
<1>2. ASSUME NEW r \in Reader, NEW p \in Paper, BeginRead(r, p) PROVE TrailInv'
    BY <1>2, BeginKeeps DEF BeginRead
<1>3. ASSUME NEW r \in Reader, NEW p \in Paper, BeginRemove(r, p) PROVE TrailInv'
    BY <1>3, BeginKeeps DEF BeginRemove
<1>4. ASSUME NEW r \in Reader, NEW p \in Paper, NEW w \in Web, BeginMove(r, p, w) PROVE TrailInv'
    BY <1>4, BeginKeeps DEF BeginMove
<1>5. ASSUME NEW r \in Reader, NEW w \in Web, BeginDeleteWeb(r, w) PROVE TrailInv'
    BY <1>5, BeginKeeps DEF BeginDeleteWeb
<1>6. ASSUME NEW r \in Reader, RollBack(r) PROVE TrailInv'
    BY <1>6, GiveKeeps DEF RollBack
<1> QED
    BY <1>1, <1>2, <1>3, <1>4, <1>5, <1>6, FindEntryKeeps, AssignKeeps, CreateWebKeeps, InsertKeeps,
       LinkKeeps, DeleteRowKeeps, SeesOthersKeeps, DropWebKeeps, CascadeKeeps, CheckMoveKeeps,
       UpdateRowKeeps, CommitKeeps DEF TrailNext

\* The invariant holds of every reachable state.
LEMMA TrailInvariant == TrailSpec => []TrailInv
  BY TrailStarts, TrailStep, PTL DEF TrailSpec

\* The tables and requests keep their types and every row its web: the foreign
\* key with its locks leaves no paper in a web that is gone.
THEOREM TrailRowsHaveWebs == TrailSpec => [](TrailTypeOK /\ RowsHaveWebs)
<1>1. TrailInv => TrailTypeOK /\ RowsHaveWebs
    BY DEF TrailInv
<1> QED BY <1>1, TrailInvariant, PTL

\* remove_from_trail, move_to_web and add_to_trail leave a web without papers only
\* in the ways the orphans name, for any number of requests.
THEOREM TrailEmptyWebs == TrailSpec => []EmptyWebExplained
<1>1. TrailInv => EmptyWebExplained
    <2> SUFFICES ASSUME TrailInv, NEW w \in webs, Committed(w) = {} PROVE w \in orphans
        BY DEF EmptyWebExplained
    <2> QED BY DEF TrailInv, Keeper
<1> QED BY <1>1, TrailInvariant, PTL

\* Two requests wait for each other only if one of them deletes a web: of two
\* removals the later one still sees the paper of the first.
THEOREM TrailRings == TrailSpec => []RingsNeedDeletion
<1>1. ASSUME TrailInv, NEW r \in Reader, NEW q \in Reader, WaitsFor(r, q), WaitsFor(q, r),
             rd[r].op # "delete", rd[q].op # "delete"
      PROVE  FALSE
    <2>1. /\ r # q /\ ShapeOf(rd[r]) /\ ShapeOf(rd[q]) /\ Kept(r) /\ Kept(q) /\ Apart(r, q)
          /\ rd[r] \in TrailRequest /\ rd[q] \in TrailRequest
        BY <1>1 DEF WaitsFor, TrailInv, TrailTypeOK, Requests
    <2>a. rd[r].rows # {} \/ rd[r].hold # "none"
        BY <1>1 DEF WaitsFor
    <2>b. rd[q].rows # {} \/ rd[q].hold # "none"
        BY <1>1 DEF WaitsFor
    <2>2. rd[r].at \in {"cascade", "link", "doomed"} /\ rd[q].at \in {"cascade", "link", "doomed"}
        <3>1. rd[r].at \notin {"insert", "delete", "update"}
            BY <2>1, <2>a DEF ShapeOf, TrailRequest
        <3>2. rd[q].at \notin {"insert", "delete", "update"}
            BY <2>1, <2>b DEF ShapeOf, TrailRequest
        <3> QED BY <1>1, <3>1, <3>2 DEF WaitsFor
    <2>3. /\ rd[r].at = "cascade" <=> rd[r].hold # "none"
          /\ rd[q].at = "cascade" <=> rd[q].hold # "none"
        <3>1. rd[r].at = "cascade" <=> rd[r].hold # "none"
            BY <2>1, <2>2 DEF ShapeOf, TrailRequest
        <3>2. rd[q].at = "cascade" <=> rd[q].hold # "none"
            BY <2>1, <2>2 DEF ShapeOf, TrailRequest
        <3> QED BY <3>1, <3>2
    <2>4. rd[r].at = "cascade" \/ rd[q].at = "cascade"
        BY <1>1, <2>1, <2>2, <2>3 DEF WaitsFor
    <2>5. ASSUME NEW a \in {r, q}, NEW b \in {r, q}, a # b, rd[a].at = "cascade" PROVE FALSE
        <3>1. /\ WaitsFor(a, b) /\ WaitsFor(b, a) /\ rd[a].op # "delete" /\ rd[b].op # "delete"
              /\ ShapeOf(rd[a]) /\ ShapeOf(rd[b]) /\ Kept(a) /\ Kept(b) /\ Apart(a, b)
              /\ rd[b].at \in {"cascade", "link", "doomed"}
            BY <1>1, <2>1, <2>2, <2>5 DEF Apart
        <3>2. PICK p \in Paper : trail[p] = rd[a].web /\ p \in rd[b].rows
            BY <2>5, <3>1 DEF WaitsFor, Committed
        <3>3. Doomed(a) /\ rd[a].hold = "drop"
            BY <2>5, <3>1 DEF Doomed, ShapeOf
        <3>4. CASE rd[b].at = "link"
            BY <2>5, <3>1, <3>2, <3>4 DEF WaitsFor, Kept, ShapeOf
        <3>5. CASE rd[b].at \in {"cascade", "doomed"}
            <4>1. Doomed(b) /\ rd[b].web = rd[a].web
                BY <3>1, <3>2, <3>5 DEF Doomed, Kept, ShapeOf
            <4> QED BY <3>1, <3>3, <4>1 DEF Apart
        <3> QED BY <3>1, <3>4, <3>5
    <2> QED BY <2>1, <2>4, <2>5
<1>2. TrailInv => RingsNeedDeletion
    BY <1>1 DEF RingsNeedDeletion
<1> QED BY <1>2, TrailInvariant, PTL

\* A paper leaves the trail only when it, or its web, was asked to go, or with a
\* web that was found empty before it joined.
THEOREM TrailRowsLeaveOnlyWhenAsked == TrailSpec => RowsLeaveOnlyWhenAsked
<1>1. ASSUME TrailInv, TrailNext, NEW p \in Paper, trail[p] # NoWeb, trail'[p] = NoWeb
      PROVE  \E r \in Reader :
               /\ rd[r].at = "commit" /\ rd'[r] = Resting
               /\ \/ rd[r].op = "remove" /\ rd[r].paper = p
                  \/ rd[r].op = "delete" /\ rd[r].web = trail[p]
                  \/ rd[r].op = "remove" /\ rd[r].web = trail[p] /\ p \in late
    <2>1. PICK r \in Reader : Commit(r)
        BY <1>1 DEF TrailNext, BeginRead, BeginRemove, BeginMove, BeginDeleteWeb, BeginTrail, FindEntry, Assign,
                    CreateWeb, Insert, Link, DeleteRow, SeesOthers, DropWeb, Cascade, CheckMove, UpdateRow,
                    RollBack, TablesUnchanged
    <2>2. p \in rd[r].rows /\ ~Joins(r)
        BY <1>1, <2>1, CommitFacts
    <2>3. trail[p] = rd[r].web /\ rd[r].op \in {"remove", "delete"}
        BY <1>1, <2>1, <2>2, CommitFacts DEF Kept
    <2>4. ASSUME rd[r].op = "remove", rd[r].paper # p PROVE p \in late
        <3>1. rd[r].hold = "drop"
            BY <1>1, <2>1, <2>2, <2>4, CommitFacts DEF ShapeOf, TrailRequest
        <3> QED BY <1>1, <2>1, <2>3, <2>4, <3>1, CommitFacts DEF Kept, Doomed, Committed
    <2> QED BY <1>1, <2>1, <2>3, <2>4, CommitFacts
<1>2. TrailInv /\ [TrailNext]_trailVars =>
        [\A p \in Paper :
           trail[p] # NoWeb /\ trail'[p] = NoWeb =>
             \E r \in Reader :
               /\ rd[r].at = "commit" /\ rd'[r] = Resting
               /\ \/ rd[r].op = "remove" /\ rd[r].paper = p
                  \/ rd[r].op = "delete" /\ rd[r].web = trail[p]
                  \/ rd[r].op = "remove" /\ rd[r].web = trail[p] /\ p \in late]_trailVars
    BY <1>1
<1> QED BY <1>2, TrailInvariant, PTL DEF TrailSpec, RowsLeaveOnlyWhenAsked
=============================================================================
