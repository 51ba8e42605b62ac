-------------------------------- MODULE Poller -------------------------------
(***************************************************************************)
(* The poller: once per cycle it walks every category's feed newest-first, *)
(* page by page, produces what Redis has not seen to papers.new, marks it  *)
(* seen and stops at the first page with nothing new or at the page cap.   *)
(*                                                                         *)
(* The feed is arXiv's and moves during a walk: a new paper or a new       *)
(* version of a known one appears on top and shifts the pages below it.    *)
(* A member (one version of one paper, the member of the seen set) is the  *)
(* number of its arrival.                                                  *)
(***************************************************************************)
EXTENDS Naturals, Sequences, FiniteSets, SequencesExt

CONSTANTS
  NumCategories,  \* ARXIV_CATEGORIES, walked in order
  PageSize,       \* ARXIV_PAGE_SIZE
  MaxPages,       \* ARXIV_MAX_PAGES
  MaxFetches,     \* requests for one page before giving up
  Invalid,        \* members that fail the schema
  Unparseable,    \* members the feed parser skips
  MaxMembers,     \* bound on the members that arrive
  MaxBurst,       \* bound on those arriving between two pages of a walk
  MaxFaults,      \* bound on the injected faults
  Faults          \* the kinds of fault that may be injected

Member == 1..MaxMembers
Category == 1..NumCategories
FaultKinds == {"requestFails", "emptyPage", "crash", "redisFails", "sendFails",
               "sendAmbiguous"}

ASSUME SizeAssumption ==
  /\ NumCategories \in Nat \ {0} /\ PageSize \in Nat \ {0}
  /\ MaxPages \in Nat \ {0} /\ MaxFetches \in Nat \ {0}
  /\ MaxMembers \in Nat /\ MaxBurst \in Nat /\ MaxFaults \in Nat

ASSUME MemberAssumption ==
  Invalid \subseteq Member /\ Unparseable \subseteq Member /\ Faults \subseteq FaultKinds

VARIABLES
  arrived,      \* members so far
  listing,      \* each category's feed, newest first
  paper,        \* the first version of each member
  seen,         \* the seen set in Redis
  produced,     \* how often each member is on papers.new
  pc,           \* "down", "rest" between cycles, "fetch", "entry" or "mark"
  category,     \* the category being walked
  start,        \* feed offset of the next page
  pages,        \* pages walked
  attempt,      \* request for the page at hand
  page,         \* its entries still to be handled
  more,         \* the feed goes on after it
  foundInPage,  \* new_in_page > 0
  failed,       \* the cycle has logged a failed page or category
  covered,      \* history: arrivals when the latest cycle began that warned of the cap
  begun,        \* history: arrivals when the cycle began, 0 once it was cut short
  burst,        \* history: arrivals since the latest page
  faults        \* faults injected so far

feed == <<arrived, listing, paper>>
walk == <<category, start, pages, attempt, page, more, foundInPage>>
logged == <<failed, covered>>
vars == <<feed, seen, produced, pc, walk, logged, begun, burst, faults>>

TypeOK ==
  /\ arrived \in 0..MaxMembers
  /\ listing \in [Category -> Seq(Member)]
  /\ paper \in [Member -> Member]
  /\ seen \subseteq Member
  /\ produced \in [Member -> Nat]
  /\ pc \in {"down", "rest", "fetch", "entry", "mark"}
  /\ category \in Category
  /\ start \in Nat
  /\ pages \in 0..MaxPages
  /\ attempt \in 1..MaxFetches
  /\ page \in Seq(Member)
  /\ more \in BOOLEAN /\ foundInPage \in BOOLEAN /\ failed \in BOOLEAN
  /\ covered \in 0..MaxMembers /\ begun \in 0..MaxMembers
  /\ burst \in 0..MaxBurst
  /\ faults \in 0..MaxFaults

Init ==
  /\ arrived = 0
  /\ listing = [c \in Category |-> <<>>]
  /\ paper = [m \in Member |-> m]
  /\ seen = {}
  /\ produced = [m \in Member |-> 0]
  /\ pc = "down"
  /\ category = 1 /\ start = 0 /\ pages = 0 /\ attempt = 1
  /\ page = <<>> /\ more = FALSE /\ foundInPage = FALSE
  /\ failed = FALSE /\ covered = 0 /\ begun = 0 /\ burst = 0 /\ faults = 0

Inject(kind) == kind \in Faults /\ faults < MaxFaults /\ faults' = faults + 1

-----------------------------------------------------------------------------
\* arXiv.  Between two pages of a walk at most MaxBurst members arrive; while the
\* poller rests or is down any number may.
Arrive ==
  /\ arrived < MaxMembers
  /\ arrived' = arrived + 1
  /\ IF pc \in {"fetch", "entry", "mark"}
     THEN burst < MaxBurst /\ burst' = burst + 1
     ELSE UNCHANGED burst
  /\ UNCHANGED <<seen, produced, pc, walk, logged, begun, faults>>

\* A new paper is listed on top of its categories.
Submit(categories) ==
  /\ Arrive
  /\ listing' = [c \in Category |->
                   IF c \in categories THEN <<arrived'>> \o listing[c] ELSE listing[c]]
  /\ UNCHANGED paper

\* A new version replaces the listed one, on top.
Revise(m) ==
  /\ Arrive
  /\ \E c \in Category : m \in ToSet(listing[c])
  /\ listing' = [c \in Category |->
                   IF m \in ToSet(listing[c])
                   THEN <<arrived'>> \o RemoveAt(listing[c],
                          CHOOSE k \in DOMAIN listing[c] : listing[c][k] = m)
                   ELSE listing[c]]
  /\ paper' = [paper EXCEPT ![arrived'] = paper[m]]

-----------------------------------------------------------------------------
\* category_page: the entries from start on.
Entries ==
  LET feedNow == listing[category]
      end == start + PageSize
  IN SubSeq(feedNow, start + 1, IF end <= Len(feedNow) THEN end ELSE Len(feedNow))

\* Entries the parser does not skip; only these are counted.
Parsed(entries) == Cardinality({k \in DOMAIN entries : entries[k] \notin Unparseable})

\* A category's walk begins at the top of its feed.
WalkFromTop(c) ==
  /\ category' = c
  /\ start' = 0 /\ pages' = 0 /\ attempt' = 1
  /\ page' = <<>> /\ more' = FALSE /\ foundInPage' = FALSE

\* The walk of a category is over, by a failure, at the cap (both are logged)
\* or neither: on to the next category, after the last one rest.
EndWalk(failure, capped) ==
  /\ failed' = (failed \/ failure)
  /\ covered' = IF capped THEN begun ELSE covered
  /\ IF category < NumCategories
     THEN pc' = "fetch" /\ WalkFromTop(category + 1)
     ELSE pc' = "rest" /\ WalkFromTop(1)

\* The process starts and begins its first cycle.
Start ==
  /\ pc = "down"
  /\ pc' = "rest"
  /\ UNCHANGED <<feed, seen, produced, walk, logged, begun, burst, faults>>

BeginCycle ==
  /\ pc = "rest"
  /\ pc' = "fetch"
  /\ begun' = arrived
  /\ failed' = FALSE
  /\ burst' = 0
  /\ UNCHANGED <<feed, seen, produced, walk, covered, faults>>

\* A page with entries.  The offset is moved at once; nothing reads it before
\* the page has been handled.
FetchPage ==
  /\ pc = "fetch"
  /\ Parsed(Entries) > 0
  /\ pc' = "entry"
  /\ page' = Entries
  /\ start' = start + Parsed(Entries)
  /\ more' = (start' < Len(listing[category]))
  /\ pages' = pages + 1
  /\ attempt' = 1
  /\ foundInPage' = FALSE
  /\ burst' = 0
  /\ UNCHANGED <<feed, seen, produced, category, logged, begun, faults>>

\* An empty page: the feed is empty or has shrunk to the offset, or all of the
\* page's entries were skipped.  It counts as a page and ends the walk; before
\* the end of the feed it is asked for again first.
FetchNothing ==
  /\ pc = "fetch"
  /\ Parsed(Entries) = 0
  /\ IF start < Len(listing[category]) /\ attempt < MaxFetches
     THEN attempt' = attempt + 1
          /\ UNCHANGED <<pc, category, start, pages, page, more, foundInPage, logged>>
     ELSE EndWalk(FALSE, pages + 1 >= MaxPages /\ foundInPage)
  /\ UNCHANGED <<feed, seen, produced, begun, burst, faults>>

\* arXiv answers with a page of nothing though the feed goes on; the last such
\* answer is accepted.
FetchEmptyPage ==
  /\ pc = "fetch"
  /\ start < Len(listing[category])
  /\ Inject("emptyPage")
  /\ IF attempt < MaxFetches
     THEN attempt' = attempt + 1
          /\ UNCHANGED <<pc, category, start, pages, page, more, foundInPage, logged>>
     ELSE EndWalk(FALSE, pages + 1 >= MaxPages /\ foundInPage)
  /\ UNCHANGED <<feed, seen, produced, begun, burst>>

\* The request fails (5xx, 429, timeout, bad XML).  When the attempts are used
\* up the category fails on its first page; later on the walk ends, keeping the
\* pages before.
FetchFails ==
  /\ pc = "fetch"
  /\ Inject("requestFails")
  /\ IF attempt < MaxFetches
     THEN attempt' = attempt + 1
          /\ UNCHANGED <<pc, category, start, pages, page, more, foundInPage, logged>>
     ELSE EndWalk(TRUE, FALSE)
  /\ UNCHANGED <<feed, seen, produced, begun, burst>>

-----------------------------------------------------------------------------
\* Mutant: the seen set is keyed by the paper, not by its version.
SeenByPaper(m) == \E k \in seen : paper[k] = paper[m]

\* SISMEMBER on id and version.
Seen(m) == m \in seen

\* An entry that needs nothing: skipped by the parser, seen, or invalid.
PassOver ==
  /\ pc = "entry" /\ page # <<>>
  /\ Head(page) \in Unparseable \cup Invalid \/ Seen(Head(page))
  /\ page' = Tail(page)
  /\ UNCHANGED <<feed, seen, produced, pc, category, start, pages, attempt, more,
                 foundInPage, logged, begun, burst, faults>>

\* The record is on papers.new.
Sent ==
  /\ produced' = [produced EXCEPT ![Head(page)] = @ + 1]
  /\ UNCHANGED seen

NeedsSending ==
  /\ pc = "entry" /\ page # <<>>
  /\ Head(page) \notin Unparseable \cup Invalid
  /\ ~Seen(Head(page))

Send ==
  /\ NeedsSending
  /\ Sent
  /\ pc' = "mark"
  /\ UNCHANGED <<feed, walk, logged, begun, burst, faults>>

\* Mutant: the entry was marked before it was sent.
MarkedThenSendFails ==
  /\ NeedsSending
  /\ Inject("sendFails")
  /\ seen' = seen \cup {Head(page)} /\ UNCHANGED produced
  /\ EndWalk(TRUE, FALSE)
  /\ UNCHANGED <<feed, begun, burst>>

\* The send fails, or reports a failure (30 s) though the record was written:
\* the category fails, its remaining entries are dropped.
SendFails ==
  /\ NeedsSending
  /\ \/ Inject("sendFails") /\ UNCHANGED <<seen, produced>>
     \/ Inject("sendAmbiguous") /\ Sent
  /\ EndWalk(TRUE, FALSE)
  /\ UNCHANGED <<feed, begun, burst>>

\* Mutant: the member is not added to the seen set.
NeverMark ==
  /\ pc = "mark"
  /\ page' = Tail(page)
  /\ foundInPage' = TRUE
  /\ pc' = "entry"
  /\ UNCHANGED <<feed, seen, produced, category, start, pages, attempt, more, logged,
                 begun, burst, faults>>

\* SADD.
Mark ==
  /\ pc = "mark"
  /\ seen' = seen \cup {Head(page)}
  /\ page' = Tail(page)
  /\ foundInPage' = TRUE
  /\ pc' = "entry"
  /\ UNCHANGED <<feed, produced, category, start, pages, attempt, more, logged, begun,
                 burst, faults>>

\* Redis fails at SISMEMBER or SADD: the category fails.
RedisFails ==
  /\ pc = "mark" \/ (pc = "entry" /\ page # <<>>)
  /\ Inject("redisFails")
  /\ EndWalk(TRUE, FALSE)
  /\ UNCHANGED <<feed, seen, produced, begun, burst>>

\* Mutant: the warning about the page cap is forgotten.
CapUnreported == FALSE

\* The walk was cut by the page cap while its last page still had news.
CapReached == pages >= MaxPages /\ foundInPage

\* Mutant: one page more than the cap.
UpToCap == pages <= MaxPages

\* The loop condition of the walk.
BelowCap == pages < MaxPages

\* The page is done: go on if it had news, the feed goes on and the cap allows.
EndPage ==
  /\ pc = "entry" /\ page = <<>>
  /\ IF foundInPage /\ more /\ BelowCap
     THEN pc' = "fetch" /\ UNCHANGED <<walk, logged>>
     ELSE EndWalk(FALSE, CapReached)
  /\ UNCHANGED <<feed, seen, produced, begun, burst, faults>>

\* The process dies, in a cycle or between two; Redis keeps the seen set.
Crash ==
  /\ pc # "down"
  /\ Inject("crash")
  /\ pc' = "down"
  /\ WalkFromTop(1)
  /\ begun' = IF pc = "rest" THEN begun ELSE 0
  /\ UNCHANGED <<feed, seen, produced, logged, burst>>

Step ==
  \/ Start \/ BeginCycle \/ FetchPage \/ FetchNothing
  \/ PassOver \/ Send \/ Mark \/ EndPage

Fault == FetchEmptyPage \/ FetchFails \/ SendFails \/ RedisFails \/ Crash

Feed ==
  \/ \E categories \in (SUBSET Category) \ {{}} : Submit(categories)
  \/ \E m \in Member : Revise(m)

Next == Step \/ Fault \/ Feed

Spec == Init /\ [][Next]_vars

\* The walks as they are when nothing fails: the poller's loop runs for ever, the
\* feed is not fair.
WalkSpec == Init /\ [][Step \/ Feed]_vars /\ WF_vars(Step)

-----------------------------------------------------------------------------
\* What is marked seen is on papers.new, whenever the poller dies or fails:
\* DECISIONS 10, produce first, then mark seen.
SeenIsProduced == \A m \in seen : produced[m] > 0

\* A member is produced once, plus at most once for every crash, lost answer or
\* failure: DECISIONS 10, "duplicates are cheap".
DuplicatesBounded == \A m \in Member : produced[m] <= 1 + faults

\* A complete cycle without a failure has left no valid member behind that was
\* in a feed when it began, but for what a warning of the page cap told of.
\* DECISIONS 36: "A gap is visible the cycle it happens"; DECISIONS 10: "Lost
\* papers are impossible".  It holds for one feed walked to its end; a crash, or
\* a page of papers that another category's walk has marked, breaks it.
GapsVisible ==
  pc = "rest" /\ ~failed =>
    \A c \in Category : \A m \in ToSet(listing[c]) :
      m \in (covered + 1)..begun => m \in seen \cup Invalid \cup Unparseable

\* Every valid member in a feed is produced, unless a newer version replaces it
\* first or a warning of the page cap tells of it: the walks neither stop short
\* nor get stuck.
EventuallyProduced ==
  \A m \in Member \ (Invalid \cup Unparseable) :
    (\E c \in Category : m \in ToSet(listing[c]))
      ~> \/ produced[m] > 0
         \/ m <= covered
         \/ \A c \in Category : m \notin ToSet(listing[c])
=============================================================================
