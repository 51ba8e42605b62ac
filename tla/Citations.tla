------------------------------ MODULE Citations ------------------------------
(***************************************************************************)
(* The citation edges of the papers on the trail: reads and graph views    *)
(* queue batches of papers, the one thread of the executor asks Semantic   *)
(* Scholar for those that have none cached, falls back on the paper's arXiv*)
(* HTML, and replaces the edges and the status of one paper in one         *)
(* transaction.                                                            *)
(*                                                                         *)
(* What either source knows of a paper is chosen when it is read.  A work  *)
(* keeps its title and its ids, no two works share a title, and none both  *)
(* cites a paper and is cited by it.                                       *)
(***************************************************************************)
EXTENDS Naturals, Sequences, FiniteSets

CONSTANTS
  PathPaper,  \* papers on the trail
  Cited,      \* works they cite
  Citing,     \* works that cite them
  S2Batch,    \* S2_BATCH_SIZE
  MaxWaiting  \* bound on the batches queued

ASSUME CitationsAssumption ==
  /\ Cited \cap Citing = {}
  /\ S2Batch \in Nat \ {0} /\ MaxWaiting \in Nat

VARIABLES
  citations,  \* edges cached for every paper
  fetches,    \* citation_fetches: the status of every paper, "never" without row
  aged,       \* papers whose row is more than a day old
  indexed,    \* works ingested, so found by their exact title
  waiting,    \* batches submitted to the executor
  ensure      \* the batch in hand

citationVars == <<citations, fetches, aged, indexed, waiting, ensure>>

\* other_key says how the source knew the work.
Edge == [direction : {"cites", "cited_by"}, work : Cited \cup Citing, key : {"arxiv", "s2", "title"}]
NoBatch == [at |-> "idle", todo |-> {}, asked |-> {}, ok |-> FALSE]

CitationsTypeOK ==
  /\ citations \in [PathPaper -> SUBSET Edge]
  /\ fetches \in [PathPaper -> {"never", "done", "partial", "missing", "failed"}]
  /\ aged \subseteq PathPaper
  /\ indexed \subseteq Cited \cup Citing
  /\ Len(waiting) <= MaxWaiting
  /\ \A i \in DOMAIN waiting : waiting[i] \subseteq PathPaper
  /\ ensure \in [at : {"idle", "ask", "store"}, todo : SUBSET PathPaper,
                 asked : SUBSET PathPaper, ok : BOOLEAN]

CitationsInit ==
  /\ citations = [p \in PathPaper |-> {}]
  /\ fetches = [p \in PathPaper |-> "never"]
  /\ aged = {}
  /\ indexed = {}
  /\ waiting = <<>>
  /\ ensure = NoBatch

CacheUnchanged == UNCHANGED <<citations, fetches, aged, indexed>>

-----------------------------------------------------------------------------
\* A read that joined the trail schedules its paper, a view of the graph all the
\* papers of the path.
Schedule(batch) ==
  /\ Len(waiting) < MaxWaiting
  /\ waiting' = Append(waiting, batch)
  /\ CacheUnchanged
  /\ UNCHANGED ensure

\* Mutant: no paper counts as fetched.
NothingFetched == {}

\* citation_fetched
CitationFetched ==
  {p \in PathPaper : /\ fetches[p] # "never"
                     /\ fetches[p] \in {"failed", "partial"} => p \notin aged}

Ensure ==
  /\ ensure.at = "idle" /\ waiting # <<>>
  /\ waiting' = Tail(waiting)
  /\ LET todo == Head(waiting) \ CitationFetched
     IN  ensure' = IF todo = {} THEN NoBatch
                   ELSE [at |-> "ask", todo |-> todo, asked |-> {}, ok |-> FALSE]
  /\ CacheUnchanged

\* Four attempts; when all fail the papers of the batch go on without records.
FetchS2 ==
  /\ ensure.at = "ask"
  /\ \E asked \in SUBSET ensure.todo, ok \in BOOLEAN :
       /\ \/ Cardinality(asked) = S2Batch
          \/ Cardinality(asked) < S2Batch /\ asked = ensure.todo
       /\ ensure' = [at |-> "store", todo |-> ensure.todo \ asked, asked |-> asked, ok |-> ok]
  /\ CacheUnchanged
  /\ UNCHANGED waiting

\* A source gives an arXiv id for some of the works it lists.
EdgesOf(direction, works, withId, otherwise) ==
  {[direction |-> direction, work |-> w, key |-> IF w \in withId THEN "arxiv" ELSE otherwise] : w \in works}

EdgesFromS2(refs, cites, withId) ==
  EdgesOf("cites", refs, withId, "s2") \cup EdgesOf("cited_by", cites, withId, "s2")
ReferencesFromHtml(refs, withId) == EdgesOf("cites", refs, withId, "title")

ResolveTitles(edges) ==
  {IF e.work \in indexed THEN [e EXCEPT !.key = "arxiv"] ELSE e : e \in edges}

\* Mutant: the edges of an earlier fetch stay.
StoreMore(p, status, edges) ==
  /\ citations' = [citations EXCEPT ![p] = @ \cup edges]
  /\ fetches' = [fetches EXCEPT ![p] = status]
  /\ aged' = aged \ {p}

StoreCitations(p, status, edges) ==
  /\ citations' = [citations EXCEPT ![p] = edges]
  /\ fetches' = [fetches EXCEPT ![p] = status]
  /\ aged' = aged \ {p}

\* The paper is dealt with; the next batch is asked for, or there is none.
NextPaper(p) ==
  /\ ensure' = IF ensure.asked # {p} THEN [ensure EXCEPT !.asked = @ \ {p}]
               ELSE IF ensure.todo # {} THEN [ensure EXCEPT !.at = "ask", !.asked = {}]
               ELSE NoBatch
  /\ UNCHANGED <<indexed, waiting>>

\* Semantic Scholar lists references.
StoreS2(p) ==
  /\ ensure.at = "store" /\ p \in ensure.asked /\ ensure.ok
  /\ \E refs \in (SUBSET Cited) \ {{}}, cites \in SUBSET Citing, withId \in SUBSET (Cited \cup Citing) :
       StoreCitations(p, "done", ResolveTitles(EdgesFromS2(refs, cites, withId)))
  /\ NextPaper(p)

FallbackStatus(fetchFailed, edges) ==
  IF fetchFailed THEN "failed"
  ELSE IF ~ensure.ok THEN "partial"
  ELSE IF edges # {} THEN "done" ELSE "missing"

\* It lists none, does not know the paper or was not available: the HTML may fail,
\* be absent or hold no bibliography.
Fallback(p) ==
  /\ ensure.at = "store" /\ p \in ensure.asked
  /\ \E cites \in SUBSET Citing, refs \in SUBSET Cited, withId \in SUBSET (Cited \cup Citing),
        fetchFailed \in BOOLEAN :
       LET edges == EdgesFromS2({}, cites, withId) \cup ReferencesFromHtml(refs, withId)
       IN  /\ ensure.ok \/ cites = {}
           /\ fetchFailed => refs = {}
           /\ StoreCitations(p, FallbackStatus(fetchFailed, edges), ResolveTitles(edges))
  /\ NextPaper(p)

\* An exception ends the batch: logged, and not tried again.
EnsureFails ==
  /\ ensure.at # "idle"
  /\ ensure' = NoBatch
  /\ CacheUnchanged
  /\ UNCHANGED waiting

ApiRestarts ==
  /\ ensure # NoBatch \/ waiting # <<>>
  /\ ensure' = NoBatch
  /\ waiting' = <<>>
  /\ CacheUnchanged

DayPasses(p) ==
  /\ fetches[p] # "never"
  /\ aged' = aged \cup {p}
  /\ UNCHANGED <<citations, fetches, indexed, waiting, ensure>>

IngestWork(w) ==
  /\ indexed' = indexed \cup {w}
  /\ UNCHANGED <<citations, fetches, aged, waiting, ensure>>

CitationsNext ==
  \/ \E batch \in (SUBSET PathPaper) \ {{}} : Schedule(batch)
  \/ Ensure \/ FetchS2
  \/ \E p \in PathPaper : StoreS2(p) \/ Fallback(p) \/ DayPasses(p)
  \/ EnsureFails \/ ApiRestarts
  \/ \E w \in Cited \cup Citing : IngestWork(w)

CitationsSpec == CitationsInit /\ [][CitationsNext]_citationVars

-----------------------------------------------------------------------------
\* "Fetched once per paper" (citations.py): however often a paper is scheduled,
\* by its read and by every view of the graph, the source is asked again only
\* for a failed or partial fetch of another day, so the keys of a settled paper's
\* edges, which dismissals name, do not change.
FetchedOnce ==
  \A p \in ensure.todo \cup ensure.asked :
    \/ fetches[p] = "never" /\ citations[p] = {}
    \/ fetches[p] \in {"failed", "partial"} /\ p \in aged

\* The edges of a paper come from its latest fetch alone: no work is there twice
\* under the keys of two sources, which would count it twice as a suggestion, and
\* the status says whether anything was found.
EdgesFromOneAnswer ==
  \A p \in PathPaper :
    /\ \A e, f \in citations[p] : e.work = f.work => e = f
    /\ fetches[p] = "done" => citations[p] # {}
    /\ fetches[p] \in {"never", "missing"} => citations[p] = {}
=============================================================================
