---------------------------- MODULE QueryApiProofs ----------------------------
(***************************************************************************)
(* Proofs about the citations of a path, the graph of a web, the watches   *)
(* and the semantic cache, and that the query API keeps what is proved of  *)
(* each of its parts, their types included.                                *)
(***************************************************************************)
EXTENDS QueryApi, DesignsProofs, TrailProofs, RankingProofs

-----------------------------------------------------------------------------
(* The citations of a path *)

CitationsTypes ==
  /\ citations \in [PathPaper -> SUBSET Edge]
  /\ fetches \in [PathPaper -> {"never", "done", "partial", "missing", "failed"}]
  /\ aged \subseteq PathPaper
  /\ indexed \subseteq Cited \cup Citing
  /\ waiting \in Seq(SUBSET PathPaper)
  /\ Len(waiting) <= MaxWaiting
  /\ ensure \in [at : {"idle", "ask", "store"}, todo : SUBSET PathPaper,
                 asked : SUBSET PathPaper, ok : BOOLEAN]

\* Papers still to ask for and papers in hand are different ones.
BatchShape ==
  /\ ensure.todo \cap ensure.asked = {}
  /\ ensure.at = "idle" => ensure.todo = {}
  /\ ensure.at # "store" => ensure.asked = {}

CitationsInv == CitationsTypes /\ BatchShape /\ FetchedOnce /\ EdgesFromOneAnswer

\* Edges that a source gave at once: of every work one.
OneOfEach(edges) == \A e, f \in edges : e.work = f.work => e = f

BothEdges(refs, citing, withId, k, l) ==
  EdgesOf("cites", refs, withId, k) \cup EdgesOf("cited_by", citing, withId, l)

\* The edges of one answer are edges, of every work one: a work is cited or
\* citing, never both, and each source has one key for it.
LEMMA AnswerEdges ==
  ASSUME NEW refs \in SUBSET Cited, NEW citing \in SUBSET Citing, NEW withId,
         NEW k \in {"s2", "title"}, NEW l \in {"s2", "title"}
  PROVE  /\ BothEdges(refs, citing, withId, k, l) \in SUBSET Edge
         /\ OneOfEach(BothEdges(refs, citing, withId, k, l))
<1> DEFINE A == EdgesOf("cites", refs, withId, k)
           B == EdgesOf("cited_by", citing, withId, l)
<1>1. \A e \in A : e.work \in refs /\ e = [direction |-> "cites", work |-> e.work, key |-> IF e.work \in withId THEN "arxiv" ELSE k]
    BY DEF EdgesOf
<1>2. \A e \in B : e.work \in citing /\ e = [direction |-> "cited_by", work |-> e.work, key |-> IF e.work \in withId THEN "arxiv" ELSE l]
    BY DEF EdgesOf
<1>3. A \cup B \subseteq Edge
    BY <1>1, <1>2 DEF Edge
<1>4. refs \cap citing = {}
    BY CitationsAssumption
<1>5. OneOfEach(A \cup B)
    BY <1>1, <1>2, <1>4 DEF OneOfEach
<1> QED BY <1>3, <1>5 DEF BothEdges

\* Titles found in the index change keys only.
LEMMA ResolvedEdges ==
  ASSUME NEW edges \in SUBSET Edge, OneOfEach(edges)
  PROVE  /\ ResolveTitles(edges) \subseteq Edge /\ OneOfEach(ResolveTitles(edges))
         /\ ResolveTitles(edges) = {} <=> edges = {}
<1> DEFINE R(e) == IF e.work \in indexed THEN [e EXCEPT !.key = "arxiv"] ELSE e
<1>1. ResolveTitles(edges) = {R(e) : e \in edges}
    BY DEF ResolveTitles
<1>2. \A e \in edges : R(e) \in Edge /\ R(e).work = e.work
    BY DEF Edge
<1> HIDE DEF R
<1> QED BY <1>1, <1>2 DEF OneOfEach

\* The service starts with nothing fetched and nothing to fetch.
LEMMA CitationsStart == CitationsInit => CitationsInv
<1> SUFFICES ASSUME CitationsInit PROVE CitationsInv
    OBVIOUS
<1>1. CitationsTypes
    BY CitationsAssumption DEF CitationsInit, CitationsTypes, NoBatch
<1>2. BatchShape /\ FetchedOnce
    BY DEF CitationsInit, BatchShape, FetchedOnce, NoBatch
<1>3. EdgesFromOneAnswer
    BY DEF CitationsInit, EdgesFromOneAnswer
<1> QED BY <1>1, <1>2, <1>3 DEF CitationsInv

\* A step that leaves the cache alone keeps what was fetched.
LEMMA CacheStays ==
  ASSUME CitationsInv, CacheUnchanged, waiting' \in Seq(SUBSET PathPaper), Len(waiting') <= MaxWaiting,
         ensure' \in [at : {"idle", "ask", "store"}, todo : SUBSET PathPaper,
                      asked : SUBSET PathPaper, ok : BOOLEAN],
         BatchShape', FetchedOnce'
  PROVE  CitationsInv'
BY DEF CitationsInv, CitationsTypes, CacheUnchanged, EdgesFromOneAnswer

\* Storing an answer for a paper in hand leaves the batch without it, and the
\* papers still in the batch as they were.
LEMMA StoreKeeps ==
  ASSUME CitationsInv, NEW p \in PathPaper, ensure.at = "store", p \in ensure.asked,
         NEW status \in {"done", "partial", "missing", "failed"},
         NEW edges \in SUBSET Edge, OneOfEach(edges),
         status = "done" => edges # {}, status = "missing" => edges = {},
         StoreCitations(p, status, edges), NextPaper(p)
  PROVE  CitationsInv'
<1>1. CitationsTypes /\ BatchShape /\ FetchedOnce /\ EdgesFromOneAnswer
    BY DEF CitationsInv
<1>2. /\ citations' \in [PathPaper -> SUBSET Edge] /\ citations'[p] = edges
      /\ \A q \in PathPaper \ {p} : citations'[q] = citations[q]
    BY <1>1 DEF CitationsTypes, StoreCitations
<1>3. /\ fetches' \in [PathPaper -> {"never", "done", "partial", "missing", "failed"}]
      /\ fetches'[p] = status
      /\ \A q \in PathPaper \ {p} : fetches'[q] = fetches[q]
    BY <1>1 DEF CitationsTypes, StoreCitations
<1>4. aged' = aged \ {p} /\ indexed' = indexed /\ waiting' = waiting
    BY DEF StoreCitations, NextPaper
<1>5. /\ ensure' \in [at : {"idle", "ask", "store"}, todo : SUBSET PathPaper,
                      asked : SUBSET PathPaper, ok : BOOLEAN]
      /\ ensure'.todo \subseteq ensure.todo /\ ensure'.asked \subseteq ensure.asked \ {p}
      /\ BatchShape'
    BY <1>1 DEF NextPaper, CitationsTypes, BatchShape, NoBatch
<1>6. CitationsTypes'
    BY <1>1, <1>2, <1>3, <1>4, <1>5 DEF CitationsTypes
<1>7. FetchedOnce'
    <2>1. \A q \in ensure'.todo \cup ensure'.asked : q \in ensure.todo \cup ensure.asked /\ q # p /\ q \in PathPaper
        BY <1>1, <1>5 DEF BatchShape, CitationsTypes
    <2> QED BY <1>1, <1>2, <1>3, <1>4, <2>1 DEF FetchedOnce
<1>8. EdgesFromOneAnswer'
    BY <1>1, <1>2, <1>3 DEF EdgesFromOneAnswer, OneOfEach
<1> QED BY <1>5, <1>6, <1>7, <1>8 DEF CitationsInv

\* Every step keeps the invariant.
LEMMA CitationsStep == CitationsInv /\ [CitationsNext]_citationVars => CitationsInv'
<1> SUFFICES ASSUME CitationsInv, [CitationsNext]_citationVars PROVE CitationsInv'
    OBVIOUS
<1>0. CitationsTypes /\ BatchShape /\ FetchedOnce /\ EdgesFromOneAnswer
    BY DEF CitationsInv
<1>1. ASSUME NEW batch \in SUBSET PathPaper, Schedule(batch) PROVE CitationsInv'
    <2>1. waiting' \in Seq(SUBSET PathPaper) /\ Len(waiting') <= MaxWaiting
        BY <1>0, <1>1, CitationsAssumption DEF Schedule, CitationsTypes
    <2>2. UNCHANGED <<citations, fetches, aged, ensure>>
        BY <1>1 DEF Schedule, CacheUnchanged
    <2> QED BY <1>0, <1>1, <2>1, <2>2, CacheStays DEF Schedule, CitationsTypes, BatchShape, FetchedOnce
<1>2. CASE Ensure
    <2>1. /\ waiting # <<>> /\ waiting' = Tail(waiting) /\ CacheUnchanged
          /\ Head(waiting) \in SUBSET PathPaper
          /\ waiting' \in Seq(SUBSET PathPaper) /\ Len(waiting') <= MaxWaiting
        BY <1>0, <1>2, CitationsAssumption DEF Ensure, CitationsTypes
    <2> DEFINE todo == Head(waiting) \ CitationFetched
    <2>2. ensure' = IF todo = {} THEN NoBatch
                    ELSE [at |-> "ask", todo |-> todo, asked |-> {}, ok |-> FALSE]
        BY <1>2 DEF Ensure
    <2>3. todo \subseteq PathPaper
        BY <2>1
    <2>4. \A p \in todo : \/ fetches[p] = "never" /\ citations[p] = {}
                          \/ fetches[p] \in {"failed", "partial"} /\ p \in aged
        BY <1>0, <2>3 DEF CitationFetched, EdgesFromOneAnswer
    <2> HIDE DEF todo
    <2>5. FetchedOnce'
        BY <2>1, <2>2, <2>4 DEF FetchedOnce, CacheUnchanged, NoBatch
    <2>6. /\ ensure' \in [at : {"idle", "ask", "store"}, todo : SUBSET PathPaper,
                          asked : SUBSET PathPaper, ok : BOOLEAN]
          /\ BatchShape'
        BY <2>2, <2>3 DEF BatchShape, NoBatch
    <2> QED BY <2>1, <2>5, <2>6, CacheStays
<1>3. CASE FetchS2
    <2>1. PICK batch \in SUBSET ensure.todo, ok \in BOOLEAN :
            ensure' = [at |-> "store", todo |-> ensure.todo \ batch, asked |-> batch, ok |-> ok]
        BY <1>3 DEF FetchS2
    <2>2. CacheUnchanged /\ waiting' = waiting
        BY <1>3 DEF FetchS2
    <2>3. /\ ensure' \in [at : {"idle", "ask", "store"}, todo : SUBSET PathPaper,
                          asked : SUBSET PathPaper, ok : BOOLEAN]
          /\ BatchShape'
        BY <1>0, <2>1 DEF CitationsTypes, BatchShape
    <2>4. FetchedOnce'
        BY <1>0, <2>1, <2>2 DEF FetchedOnce, CacheUnchanged
    <2> QED BY <1>0, <2>2, <2>3, <2>4, CacheStays DEF CitationsTypes
<1>4. ASSUME NEW p \in PathPaper, StoreS2(p) PROVE CitationsInv'
    <2>1. PICK refs \in (SUBSET Cited) \ {{}}, citing \in SUBSET Citing, withId \in SUBSET (Cited \cup Citing) :
            StoreCitations(p, "done", ResolveTitles(EdgesFromS2(refs, citing, withId)))
        BY <1>4 DEF StoreS2
    <2> DEFINE edges == EdgesFromS2(refs, citing, withId)
    <2>2. edges \in SUBSET Edge /\ OneOfEach(edges) /\ edges # {}
        <3>1. edges = BothEdges(refs, citing, withId, "s2", "s2")
            BY DEF EdgesFromS2, BothEdges
        <3> HIDE DEF edges
        <3>2. edges \in SUBSET Edge /\ OneOfEach(edges)
            BY <3>1, AnswerEdges
        <3>3. edges # {}
            BY <3>1 DEF BothEdges, EdgesOf
        <3> QED BY <3>2, <3>3
    <2> HIDE DEF edges
    <2>3. ResolveTitles(edges) \in SUBSET Edge /\ OneOfEach(ResolveTitles(edges)) /\ ResolveTitles(edges) # {}
        BY <2>2, ResolvedEdges
    <2>4. StoreCitations(p, "done", ResolveTitles(edges))
        BY <2>1 DEF edges
    <2> QED BY <1>4, <2>3, <2>4, StoreKeeps DEF StoreS2
<1>5. ASSUME NEW p \in PathPaper, Fallback(p) PROVE CitationsInv'
    <2>1. PICK citing \in SUBSET Citing, refs \in SUBSET Cited, withId \in SUBSET (Cited \cup Citing),
               fetchFailed \in BOOLEAN :
            LET edges == EdgesFromS2({}, citing, withId) \cup ReferencesFromHtml(refs, withId)
            IN  StoreCitations(p, FallbackStatus(fetchFailed, edges), ResolveTitles(edges))
        BY <1>5 DEF Fallback
    <2> DEFINE edges == EdgesFromS2({}, citing, withId) \cup ReferencesFromHtml(refs, withId)
    <2>2. edges = BothEdges(refs, citing, withId, "title", "s2")
        BY DEF EdgesFromS2, ReferencesFromHtml, EdgesOf, BothEdges
    <2> HIDE DEF edges
    <2>3. edges \in SUBSET Edge /\ OneOfEach(edges)
        BY <2>2, AnswerEdges
    <2>4. /\ ResolveTitles(edges) \in SUBSET Edge /\ OneOfEach(ResolveTitles(edges))
          /\ ResolveTitles(edges) = {} <=> edges = {}
        BY <2>3, ResolvedEdges
    <2> DEFINE status == FallbackStatus(fetchFailed, edges)
    <2>5. /\ status \in {"done", "partial", "missing", "failed"}
          /\ status = "done" => edges # {}
          /\ status = "missing" => edges = {}
        BY DEF FallbackStatus
    <2>6. StoreCitations(p, status, ResolveTitles(edges))
        BY <2>1 DEF edges
    <2> HIDE DEF status
    <2> QED BY <1>5, <2>4, <2>5, <2>6, StoreKeeps DEF Fallback
<1>6. CASE EnsureFails
    BY <1>0, <1>6, CacheStays DEF EnsureFails, NoBatch, CitationsTypes, BatchShape, FetchedOnce
<1>7. CASE ApiRestarts
    BY <1>0, <1>7, CacheStays, CitationsAssumption
    DEF ApiRestarts, NoBatch, CitationsTypes, BatchShape, FetchedOnce
<1>8. ASSUME NEW p \in PathPaper, DayPasses(p) PROVE CitationsInv'
    BY <1>0, <1>8 DEF DayPasses, CitationsInv, CitationsTypes, BatchShape, FetchedOnce, EdgesFromOneAnswer
<1>9. ASSUME NEW w \in Cited \cup Citing, IngestWork(w) PROVE CitationsInv'
    BY <1>0, <1>9 DEF IngestWork, CitationsInv, CitationsTypes, BatchShape, FetchedOnce, EdgesFromOneAnswer
<1>10. CASE UNCHANGED citationVars
    BY <1>0, <1>10 DEF citationVars, CitationsInv, CitationsTypes, BatchShape, FetchedOnce, EdgesFromOneAnswer
<1> QED BY <1>1, <1>2, <1>3, <1>4, <1>5, <1>6, <1>7, <1>8, <1>9, <1>10 DEF CitationsNext

\* The invariant holds of every reachable state.
LEMMA CitationsInvariant == CitationsSpec => []CitationsInv
BY CitationsStart, CitationsStep, PTL DEF CitationsSpec

\* A paper is batch for again only when nothing is cached of it, or a failed or
\* partial fetch of another day: however often reads and views schedule it.
THEOREM CitationsFetchedOnce == CitationsSpec => []FetchedOnce
<1>1. CitationsInv => FetchedOnce
    BY DEF CitationsInv
<1> QED BY <1>1, CitationsInvariant, PTL

\* The cached edges of a paper come from one answer, and its status says whether
\* there were any.
THEOREM CitationsFromOneAnswer == CitationsSpec => []EdgesFromOneAnswer
<1>1. CitationsInv => EdgesFromOneAnswer
    BY DEF CitationsInv
<1> QED BY <1>1, CitationsInvariant, PTL

-----------------------------------------------------------------------------
(* The graph of a web *)

ViewRecord ==
  [at : {"idle", "trail", "dismissed", "candidates", "chosen"},
   path : SUBSET Publication, exclude : SUBSET StoredKey, chosen : SUBSET Key,
   gone : SUBSET StoredKey, known : SUBSET Publication]

ExploreTypes ==
  /\ ingested \subseteq Publication
  /\ place \in [Publication -> {"none", "here", "elsewhere"}]
  /\ cites \in [Publication -> [Publication -> Citation]]
  /\ dismissed \subseteq StoredKey
  /\ view \in ViewRecord

\* What the view has read of the trail and the dismissals is excluded, as far as
\* it still stands.
Excluding ==
  /\ view.gone \subseteq dismissed
  /\ view.at \in {"trail"} => view.known \subseteq OnTrail
  /\ view.at \notin {"idle", "trail"} => \A p \in view.known : ArxivId(p) \in view.exclude
  /\ view.at \notin {"idle", "trail", "dismissed"} => view.gone \subseteq view.exclude
  /\ view.at \in {"idle", "trail", "dismissed", "candidates"} => view.chosen = {}
  /\ \A c \in view.chosen : NotExcluded(c)

ExploreInv == ExploreTypes /\ Excluding

\* A view starts with nothing read.
LEMMA ExploreStarts == ExploreInit => ExploreInv
BY DEF ExploreInit, ExploreInv, ExploreTypes, Excluding, NoView, ViewRecord, Citation

\* A dismissal is stored as an arXiv id or as the key it came with.
LEMMA DismissalStored == \A k \in Key : DismissalOf(k) \in StoredKey
BY DEF DismissalOf, StoredKey, Key

\* Papers come in, join and leave, citations are fetched and suggestions
\* dismissed: what the view holds stays excluded.
LEMMA OthersKeep ==
  ASSUME ExploreInv,
         \/ \E w \in Publication :
              \/ IngestPaper(w) \/ FetchCitations(w)
              \/ \E to \in {"none", "here", "elsewhere"} : ChangeTrail(w, to)
         \/ \E k \in Key : Dismiss(k)
  PROVE  ExploreInv'
<1>0. ExploreTypes /\ Excluding
    BY DEF ExploreInv
<1>1. ASSUME NEW w \in Publication, IngestPaper(w) PROVE ExploreInv'
    BY <1>0, <1>1 DEF IngestPaper, ExploreInv, ExploreTypes, Excluding, OnTrail, NotExcluded
<1>2. ASSUME NEW p \in Publication, FetchCitations(p) PROVE ExploreInv'
    <2>1. PICK found \in [Publication -> Citation] :
            cites' = [cites EXCEPT ![p] =
              [w \in Publication |-> IF found[w] # "none" /\ w \in ingested THEN "arxiv" ELSE found[w]]]
        BY <1>2 DEF FetchCitations
    <2>2. [w \in Publication |-> IF found[w] # "none" /\ w \in ingested THEN "arxiv" ELSE found[w]]
            \in [Publication -> Citation]
        BY <2>1 DEF Citation
    <2>3. cites' \in [Publication -> [Publication -> Citation]]
        BY <1>0, <2>1, <2>2 DEF ExploreTypes
    <2> QED BY <1>0, <1>2, <2>3 DEF FetchCitations, ExploreInv, ExploreTypes, Excluding, OnTrail, NotExcluded
<1>3. ASSUME NEW p \in Publication, NEW to \in {"none", "here", "elsewhere"}, ChangeTrail(p, to) PROVE ExploreInv'
    <2>1. /\ UNCHANGED <<ingested, cites, dismissed>>
          /\ place' = [place EXCEPT ![p] = to]
          /\ view' = IF to = "none" THEN [view EXCEPT !.known = @ \ {p}] ELSE view
        BY <1>3 DEF ChangeTrail
    <2>2. ExploreTypes'
        BY <1>0, <2>1 DEF ExploreTypes, ViewRecord
    <2>3. /\ view'.at = view.at /\ view'.path = view.path /\ view'.exclude = view.exclude
          /\ view'.chosen = view.chosen
          /\ view'.gone = view.gone /\ view'.known \subseteq view.known
          /\ to = "none" => p \notin view'.known
        BY <1>0, <2>1 DEF ExploreTypes, ViewRecord
    <2>4. view.at = "trail" => view'.known \subseteq OnTrail'
        BY <1>0, <2>1, <2>3 DEF ExploreTypes, Excluding, OnTrail
    <2>5. Excluding'
        BY <1>0, <2>1, <2>3, <2>4 DEF Excluding, NotExcluded
    <2> QED BY <2>2, <2>5 DEF ExploreInv
<1>4. ASSUME NEW k \in Key, Dismiss(k) PROVE ExploreInv'
    BY <1>0, <1>4, DismissalStored DEF Dismiss, ExploreInv, ExploreTypes, Excluding, OnTrail, NotExcluded
<1> QED BY <1>1, <1>2, <1>3, <1>4

\* Each statement of the view excludes what it has read.
LEMMA ViewKeeps ==
  ASSUME ExploreInv,
         ViewPath \/ ViewTrailIds \/ ViewDismissed \/ ViewCandidates \/ EndView
  PROVE  ExploreInv'
<1>0. ExploreTypes /\ Excluding /\ view \in ViewRecord
    BY DEF ExploreInv, ExploreTypes
<1>a. UNCHANGED <<ingested, place, cites, dismissed>>
    BY DEF ViewPath, ViewTrailIds, ViewDismissed, ViewCandidates, EndView, View
<1>b. ASSUME view' \in ViewRecord, Excluding' PROVE ExploreInv'
    BY <1>0, <1>a, <1>b DEF ExploreInv, ExploreTypes
<1>1. CASE ViewPath
    <2>1. view' = [at |-> "trail", path |-> Here, exclude |-> {}, chosen |-> {},
                   gone |-> dismissed, known |-> OnTrail]
        BY <1>1 DEF ViewPath, View, NoView
    <2>2. view' \in ViewRecord
        BY <1>0, <2>1 DEF ViewRecord, ExploreTypes, Here, OnTrail
    <2>3. Excluding'
        BY <1>a, <2>1 DEF Excluding, OnTrail
    <2> QED BY <1>b, <2>2, <2>3
<1>2. CASE ViewTrailIds
    <2>1. view.at = "trail" /\ view' = [view EXCEPT !.at = "dismissed", !.exclude = {ArxivId(p) : p \in OnTrail}]
        BY <1>2 DEF ViewTrailIds, View
    <2>2. {ArxivId(p) : p \in OnTrail} \subseteq StoredKey
        BY DEF OnTrail, StoredKey
    <2>3. view' \in ViewRecord
        BY <1>0, <2>1, <2>2 DEF ViewRecord
    <2>4. Excluding'
        BY <1>0, <1>a, <2>1 DEF Excluding, ViewRecord
    <2> QED BY <1>b, <2>3, <2>4
<1>3. CASE ViewDismissed
    <2>1. view.at = "dismissed" /\ view' = [view EXCEPT !.at = "candidates", !.exclude = @ \cup dismissed]
        BY <1>3 DEF ViewDismissed, View
    <2>2. view' \in ViewRecord
        BY <1>0, <2>1 DEF ViewRecord, ExploreTypes
    <2>3. Excluding'
        BY <1>0, <1>a, <2>1 DEF Excluding, ViewRecord
    <2> QED BY <1>b, <2>2, <2>3
<1>4. CASE ViewCandidates
    <2>1. PICK chosen \in SUBSET UNION {Candidates(p) : p \in view.path} :
            view' = [view EXCEPT !.at = "chosen", !.chosen = chosen]
        BY <1>4 DEF ViewCandidates, View
    <2>2. view.at = "candidates" /\ view.path \subseteq Publication
        BY <1>0, <1>4 DEF ViewCandidates, ViewRecord
    <2>3. \A p \in view.path : \A c \in Candidates(p) : c \in Key /\ NotExcluded(c)
        <3>1. ASSUME NEW p \in view.path, NEW c \in Candidates(p) PROVE c \in Key /\ NotExcluded(c)
            <4>1. NotExcluded(c) /\ c \in Linked(p) \cup Similar(p)
                BY DEF Candidates
            <4>2. c \in Linked(p) => c \in Key
                BY <1>0, <2>2 DEF Linked, Key, ExploreTypes, Citation
            <4>3. c \in Similar(p) => c \in Key
                BY <1>0 DEF Similar, Key, ExploreTypes
            <4> QED BY <4>1, <4>2, <4>3
        <3> QED BY <3>1
    <2>4. chosen \subseteq Key /\ \A c \in chosen : NotExcluded(c)
        BY <2>1, <2>3
    <2>5. /\ view'.at = "chosen" /\ view'.chosen = chosen
          /\ view'.path = view.path /\ view'.exclude = view.exclude
          /\ view'.gone = view.gone /\ view'.known = view.known
          /\ view' \in ViewRecord
        BY <1>0, <2>1, <2>4 DEF ViewRecord
    <2>6. Excluding'
        BY <1>0, <1>a, <2>2, <2>4, <2>5 DEF Excluding, NotExcluded
    <2> QED BY <1>b, <2>5, <2>6
<1>5. CASE EndView
    <2>1. view' = NoView
        BY <1>5 DEF EndView, View
    <2> QED BY <1>b, <2>1 DEF NoView, ViewRecord, Excluding
<1> QED BY <1>1, <1>2, <1>3, <1>4, <1>5

\* The invariant holds of every reachable state of the graph.
LEMMA ExploreInvariant == ExploreSpec => []ExploreInv
<1>1. ExploreInv /\ UNCHANGED exploreVars => ExploreInv'
    BY DEF ExploreInv, exploreVars, ExploreTypes, Excluding, OnTrail, NotExcluded
<1>2. ExploreInv /\ [ExploreNext]_exploreVars => ExploreInv'
    BY <1>1, OthersKeep, ViewKeeps DEF ExploreNext
<1> QED BY <1>2, ExploreStarts, PTL DEF ExploreSpec

\* Nothing is suggested that was on a path or dismissed when the view began, as
\* far as its key tells, whatever changes while the view reads.
THEOREM ExploreSuggestsNew == ExploreSpec => []SuggestionsAreNew
<1>1. ExploreInv => SuggestionsAreNew
    <2> SUFFICES ASSUME ExploreInv, NEW c \in view.chosen
                 PROVE  /\ c.work \in view.known => c.kind # "arxiv"
                        /\ DismissalOf(c) \notin view.gone
        BY DEF SuggestionsAreNew
    <2>1. NotExcluded(c) /\ view.at \notin {"idle", "trail", "dismissed"}
        BY DEF ExploreInv, Excluding
    <2>2. view.gone \subseteq view.exclude /\ \A p \in view.known : ArxivId(p) \in view.exclude
        BY <2>1 DEF ExploreInv, Excluding
    <2> QED BY <2>1, <2>2 DEF NotExcluded, DismissalOf
<1> QED BY <1>1, ExploreInvariant, PTL

-----------------------------------------------------------------------------
(* Watches *)

\* Papers at the worker or stored are dated before now, and so is the last visit;
\* a visit has loaded the mark of that visit or of an earlier one.
Dated ==
  /\ \A p \in Preprint : shelf[p].at # "none" => shelf[p].ingested < clock
  /\ seenAt # NoWatch => seenAt < clock
  /\ \A v \in Visitor : visit[v].at # "away" /\ seenAt # NoWatch => visit[v].seen <= seenAt

\* What a visit has found stays stored, and what is new in it stays new.
Found(v) ==
  /\ visit[v].at \in {"away", "match"} => visit[v].found = {} /\ visit[v].new = {}
  /\ visit[v].found \subseteq Stored
  /\ visit[v].at \in {"mark", "show"} => visit[v].new = {p \in visit[v].found : shelf[p].ingested > visit[v].seen}

Accounted(p) == p \in shown \cup slipped \/ \E v \in Visitor : visit[v].at = "show" /\ p \in visit[v].new

\* Every paper dated before the last visit is accounted for, stored or not.
AllAccounted ==
  \A p \in Preprint :
    shelf[p].at # "none" /\ seenAt # NoWatch /\ shelf[p].ingested <= seenAt => Accounted(p)

WatchesInv == WatchesTypeOK /\ Dated /\ (\A v \in Visitor : Found(v)) /\ AllAccounted

\* There is no watch and no paper at first.
LEMMA WatchesStart == WatchesInit => WatchesInv
<1> SUFFICES ASSUME WatchesInit PROVE WatchesInv
    OBVIOUS
<1>1. WatchesTypeOK
    BY WatchesAssumption DEF WatchesInit, WatchesTypeOK, NoWatch, Away
<1>2. Dated /\ (\A v \in Visitor : Found(v)) /\ AllAccounted
    BY DEF WatchesInit, Dated, Found, AllAccounted, Away
<1> QED BY <1>1, <1>2 DEF WatchesInv

\* A worker's transaction dates its paper now, after every visit so far.
LEMMA WritesKeep ==
  ASSUME WatchesInv, NEW p \in Preprint, WriteBegins(p) \/ WriteCommits(p) \/ WriteRollsBack(p)
  PROVE  WatchesInv'
<1>0. WatchesTypeOK /\ Dated /\ (\A v \in Visitor : Found(v)) /\ AllAccounted
    BY DEF WatchesInv
<1>a. /\ shelf \in [Preprint -> [at : {"none", "writing", "stored"}, ingested : 0..MaxTime]]
      /\ clock \in 1..NoWatch /\ seenAt \in 1..NoWatch /\ MaxTime \in Nat /\ NoWatch = MaxTime + 1
    BY <1>0, WatchesAssumption DEF WatchesTypeOK, NoWatch
<1>1. UNCHANGED <<seenAt, visit, shown>> /\ \A q \in Preprint \ {p} : shelf'[q] = shelf[q]
    BY <1>a DEF WriteBegins, WriteCommits, WriteRollsBack
<1>2. shelf[p].at # "stored" /\ Stored \subseteq Stored' /\ \A q \in Stored : q # p
    BY <1>1, <1>a DEF WriteBegins, WriteCommits, WriteRollsBack, Stored
<1>3. \A v \in Visitor : Found(v)'
    <2> SUFFICES ASSUME NEW v \in Visitor PROVE Found(v)'
        OBVIOUS
    <2>1. visit'[v] = visit[v] /\ Found(v)
        BY <1>0, <1>1
    <2>2. \A q \in visit[v].found : q \in Stored' /\ shelf'[q] = shelf[q]
        BY <1>1, <1>2, <2>1 DEF Found, Stored
    <2> QED BY <2>1, <2>2 DEF Found
<1>4. CASE WriteBegins(p)
    <2>1. /\ clock <= MaxTime /\ clock' = clock + 1 /\ slipped' = slipped
          /\ shelf' \in [Preprint -> [at : {"none", "writing", "stored"}, ingested : 0..MaxTime]]
          /\ shelf'[p] = [at |-> "writing", ingested |-> clock]
        BY <1>4, <1>a DEF WriteBegins, NowPasses
    <2>2. WatchesTypeOK'
        BY <1>0, <1>1, <1>a, <2>1 DEF WatchesTypeOK
    <2>3. Dated'
        BY <1>0, <1>1, <1>a, <2>1 DEF Dated
    <2>4. AllAccounted'
        BY <1>0, <1>1, <1>a, <2>1 DEF AllAccounted, Accounted, Dated
    <2> QED BY <1>3, <2>2, <2>3, <2>4 DEF WatchesInv
<1>5. CASE WriteCommits(p)
    <2>1. /\ UNCHANGED <<clock, slipped>> /\ shelf[p].at = "writing"
          /\ shelf' \in [Preprint -> [at : {"none", "writing", "stored"}, ingested : 0..MaxTime]]
          /\ shelf'[p].ingested = shelf[p].ingested
        BY <1>5, <1>a DEF WriteCommits
    <2>2. WatchesTypeOK'
        BY <1>0, <1>1, <1>a, <2>1 DEF WatchesTypeOK
    <2>3. Dated'
        BY <1>0, <1>1, <1>a, <2>1 DEF Dated
    <2>4. AllAccounted'
        BY <1>0, <1>1, <1>a, <2>1 DEF AllAccounted, Accounted
    <2> QED BY <1>3, <2>2, <2>3, <2>4 DEF WatchesInv
<1>6. CASE WriteRollsBack(p)
    <2>1. /\ UNCHANGED clock /\ slipped' = slipped \ {p} /\ shelf[p].at = "writing"
          /\ shelf' \in [Preprint -> [at : {"none", "writing", "stored"}, ingested : 0..MaxTime]]
          /\ shelf'[p] = [at |-> "none", ingested |-> 0]
        BY <1>6, <1>a DEF WriteRollsBack
    <2>2. WatchesTypeOK'
        BY <1>0, <1>1, <1>a, <2>1 DEF WatchesTypeOK
    <2>3. Dated'
        BY <1>0, <1>1, <1>a, <2>1 DEF Dated
    <2>4. AllAccounted'
        BY <1>0, <1>1, <1>a, <2>1 DEF AllAccounted, Accounted
    <2> QED BY <1>3, <2>2, <2>3, <2>4 DEF WatchesInv
<1> QED BY <1>4, <1>5, <1>6

\* A visit marks the watch as seen only after what it found, so whatever the mark
\* passes was found by it, slipped, or was accounted for by the mark it had loaded.
LEMMA VisitsKeep ==
  ASSUME WatchesInv, NEW v \in Visitor,
         LoadWatch(v) \/ LoadNothing(v) \/ WatchMatches(v) \/ MarkWatchSeen(v) \/ ShowWatch(v) \/ VisitFails(v)
  PROVE  WatchesInv'
<1>0. WatchesTypeOK /\ Dated /\ (\A u \in Visitor : Found(u)) /\ AllAccounted
    BY DEF WatchesInv
<1> DEFINE VisitOf == [at : {"away", "match", "mark", "show"}, seen : 0..MaxTime,
                       found : SUBSET Preprint, new : SUBSET Preprint]
<1>a. /\ shelf \in [Preprint -> [at : {"none", "writing", "stored"}, ingested : 0..MaxTime]]
      /\ clock \in 1..NoWatch /\ seenAt \in 1..NoWatch /\ MaxTime \in Nat /\ NoWatch = MaxTime + 1
      /\ visit \in [Visitor -> VisitOf] /\ shown \subseteq Preprint /\ slipped \subseteq Preprint
      /\ Stored \subseteq Preprint
    BY <1>0, WatchesAssumption DEF WatchesTypeOK, NoWatch, Stored
<1>b. Away \in VisitOf /\ Away.at = "away" /\ Away.found = {} /\ Away.new = {}
    BY <1>a DEF Away
<1>1. CASE LoadWatch(v)
    <2> DEFINE x == [Away EXCEPT !.at = "match", !.seen = seenAt]
    <2>1. /\ visit[v] = Away /\ seenAt # NoWatch /\ visit' = [visit EXCEPT ![v] = x]
          /\ UNCHANGED <<shelf, clock, seenAt, shown, slipped>>
        BY <1>1 DEF LoadWatch
    <2>2. x \in VisitOf /\ x.at = "match" /\ x.seen = seenAt /\ x.found = {} /\ x.new = {}
        <3>0. seenAt # NoWatch
            BY <2>1
        <3>1. seenAt \in 0..MaxTime
            BY <1>a, <3>0
        <3>2. Away.at = "away" /\ Away \in VisitOf
            BY <1>b
        <3>3. x \in VisitOf
            BY <3>1, <3>2
        <3>4. x.at = "match" /\ x.seen = seenAt /\ x.found = Away.found /\ x.new = Away.new
            BY <3>2
        <3> QED BY <1>b, <3>3, <3>4
    <2> HIDE DEF x
    <2>3. visit' \in [Visitor -> VisitOf] /\ visit'[v] = x /\ \A u \in Visitor \ {v} : visit'[u] = visit[u]
        BY <1>a, <2>1, <2>2
    <2>4. WatchesTypeOK'
        BY <1>0, <2>1, <2>3 DEF WatchesTypeOK
    <2>5. Dated' /\ \A u \in Visitor : Found(u)'
        BY <1>0, <1>a, <2>1, <2>2, <2>3 DEF Dated, Found, Stored
    <2>6. AllAccounted'
        BY <1>0, <1>b, <2>1, <2>3 DEF AllAccounted, Accounted
    <2> QED BY <2>4, <2>5, <2>6 DEF WatchesInv
<1>2. CASE LoadNothing(v)
    <2>1. UNCHANGED <<shelf, clock, seenAt, visit, shown, slipped>>
        BY <1>2 DEF LoadNothing, watchVars
    <2> QED BY <1>0, <2>1 DEF WatchesInv, WatchesTypeOK, Dated, Found, Stored, AllAccounted, Accounted
<1>3. CASE WatchMatches(v)
    <2>1. PICK found \in SUBSET Stored :
            visit' = [visit EXCEPT ![v].found = found, ![v].new = NewSince(v, found), ![v].at = "mark"]
        BY <1>3 DEF WatchMatches
    <2>2. visit[v].at = "match" /\ UNCHANGED <<shelf, clock, seenAt, shown, slipped>>
        BY <1>3 DEF WatchMatches
    <2> DEFINE new == NewSince(v, found)
    <2>3. new = {p \in found : shelf[p].ingested > visit[v].seen}
        BY DEF NewSince
    <2>4. new \subseteq Preprint /\ found \subseteq Preprint
        BY <1>a, <2>3
    <2> HIDE DEF new
    <2> DEFINE x == [visit[v] EXCEPT !.found = found, !.new = new, !.at = "mark"]
    <2>5. visit' = [visit EXCEPT ![v] = x]
        BY <2>1 DEF new
    <2>6. /\ x \in VisitOf
          /\ x.at = "mark" /\ x.found = found /\ x.new = new /\ x.seen = visit[v].seen
        BY <1>a, <2>4
    <2> HIDE DEF x
    <2>7. /\ visit' \in [Visitor -> VisitOf] /\ visit'[v] = x
          /\ \A u \in Visitor \ {v} : visit'[u] = visit[u]
        BY <1>a, <2>5, <2>6
    <2>8. WatchesTypeOK'
        BY <1>0, <2>2, <2>7 DEF WatchesTypeOK
    <2>9. Dated'
        BY <1>0, <2>2, <2>6, <2>7 DEF Dated
    <2>10. \A u \in Visitor : Found(u)'
        BY <1>0, <2>2, <2>3, <2>6, <2>7 DEF Found, Stored
    <2>11. AllAccounted'
        BY <1>0, <2>2, <2>7 DEF AllAccounted, Accounted
    <2> QED BY <2>8, <2>9, <2>10, <2>11 DEF WatchesInv
<1>4. CASE MarkWatchSeen(v)
    <2>1. /\ visit[v].at = "mark" /\ clock <= MaxTime /\ clock' = clock + 1
          /\ seenAt' = IF seenAt = NoWatch THEN seenAt ELSE clock
          /\ slipped' = slipped \cup {p \in Preprint : shelf[p].at # "none" /\ p \notin visit[v].found}
          /\ visit' = [visit EXCEPT ![v].at = "show"]
          /\ UNCHANGED <<shelf, shown>>
        BY <1>4 DEF MarkWatchSeen, NowPasses
    <2>2. /\ visit'[v].at = "show" /\ visit'[v].found = visit[v].found /\ visit'[v].new = visit[v].new
          /\ visit'[v].seen = visit[v].seen
          /\ visit' \in [Visitor -> VisitOf]
          /\ \A u \in Visitor \ {v} : visit'[u] = visit[u]
        BY <1>a, <2>1
    <2>3. WatchesTypeOK'
        BY <1>0, <1>a, <2>1, <2>2 DEF WatchesTypeOK
    <2>4. Dated'
        BY <1>0, <1>a, <2>1, <2>2 DEF Dated
    <2>5. \A u \in Visitor : Found(u)'
        BY <1>0, <2>1, <2>2 DEF Found, Stored
    <2>6. ASSUME NEW p \in Preprint, shelf[p].at # "none", seenAt # NoWatch PROVE Accounted(p)'
        <3>1. CASE p \notin visit[v].found
            BY <2>1, <2>6, <3>1 DEF Accounted
        <3>2. CASE p \in visit[v].new
            BY <2>2, <3>2 DEF Accounted
        <3>3. CASE p \in visit[v].found /\ p \notin visit[v].new
            <4>1. shelf[p].ingested <= visit[v].seen
                BY <1>0, <1>a, <2>1, <3>3 DEF Found
            <4>2. visit[v].seen <= seenAt
                BY <1>0, <2>1, <2>6 DEF Dated
            <4>3. Accounted(p)
                BY <1>0, <1>a, <2>6, <4>1, <4>2 DEF AllAccounted
            <4> QED BY <2>1, <2>2, <4>3 DEF Accounted
        <3> QED BY <3>1, <3>2, <3>3
    <2>7. AllAccounted'
        BY <2>1, <2>6 DEF AllAccounted
    <2> QED BY <2>3, <2>4, <2>5, <2>7 DEF WatchesInv
<1>5. CASE ShowWatch(v) \/ VisitFails(v)
    <2>1. /\ UNCHANGED <<shelf, clock, seenAt>>
          /\ visit' = [visit EXCEPT ![v] = Away]
          /\ shown \subseteq shown' /\ slipped \subseteq slipped'
          /\ shown' \subseteq shown \cup visit[v].new /\ slipped' \subseteq slipped \cup visit[v].new
          /\ visit[v].at = "show" => visit[v].new \subseteq shown' \cup slipped'
        BY <1>5 DEF ShowWatch, VisitFails
    <2>2. /\ visit'[v] = Away /\ visit' \in [Visitor -> VisitOf]
          /\ \A u \in Visitor \ {v} : visit'[u] = visit[u]
        BY <1>a, <1>b, <2>1
    <2>3. WatchesTypeOK'
        <3>1. visit[v].new \subseteq Preprint
            BY <1>a
        <3> QED BY <1>0, <1>a, <2>1, <2>2, <3>1 DEF WatchesTypeOK
    <2>4. Dated' /\ \A u \in Visitor : Found(u)'
        BY <1>0, <1>b, <2>1, <2>2 DEF Dated, Found, Stored
    <2>5. \A p \in Preprint : Accounted(p) => Accounted(p)'
        BY <2>1, <2>2 DEF Accounted
    <2>6. AllAccounted'
        BY <1>0, <2>1, <2>5 DEF AllAccounted
    <2> QED BY <2>3, <2>4, <2>6 DEF WatchesInv
<1> QED BY <1>1, <1>2, <1>3, <1>4, <1>5

\* A new watch takes what is there as seen.
LEMMA WatchComesAndGoes == ASSUME WatchesInv, CreateWatch \/ DeleteWatch PROVE WatchesInv'
<1>0. WatchesTypeOK /\ Dated /\ (\A u \in Visitor : Found(u)) /\ AllAccounted
    BY DEF WatchesInv
<1>a. /\ clock \in 1..NoWatch /\ seenAt \in 1..NoWatch /\ MaxTime \in Nat /\ NoWatch = MaxTime + 1
    BY <1>0, WatchesAssumption DEF WatchesTypeOK, NoWatch
<1>1. CASE CreateWatch
    <2>1. /\ \A v \in Visitor : visit[v] = Away
          /\ clock <= MaxTime /\ clock' = clock + 1 /\ seenAt' = clock
          /\ slipped' = slipped \cup {p \in Preprint : shelf[p].at # "none"}
          /\ UNCHANGED <<shelf, visit, shown>>
        BY <1>1 DEF CreateWatch, NowPasses
    <2>2. WatchesTypeOK'
        BY <1>0, <1>a, <2>1 DEF WatchesTypeOK
    <2>3. Dated' /\ \A v \in Visitor : Found(v)'
        BY <1>0, <1>a, <2>1 DEF Dated, Found, Stored, Away, WatchesTypeOK
    <2>4. AllAccounted'
        BY <2>1 DEF AllAccounted, Accounted
    <2> QED BY <2>2, <2>3, <2>4 DEF WatchesInv
<1>2. CASE DeleteWatch
    <2>1. UNCHANGED <<shelf, clock, visit, shown, slipped>> /\ seenAt' = NoWatch
        BY <1>2 DEF DeleteWatch
    <2> QED BY <1>0, <1>a, <2>1 DEF WatchesInv, WatchesTypeOK, Dated, Found, Stored, AllAccounted
<1> QED BY <1>1, <1>2

\* The invariant holds of every reachable state of the watches.
LEMMA WatchesInvariant == WatchesSpec => []WatchesInv
<1>1. WatchesInv /\ UNCHANGED watchVars => WatchesInv'
    BY DEF watchVars, WatchesInv, WatchesTypeOK, Dated, Found, Stored, AllAccounted, Accounted
<1>2. WatchesInv /\ [WatchesNext]_watchVars => WatchesInv'
    BY <1>1, WritesKeep, VisitsKeep, WatchComesAndGoes DEF WatchesNext
<1> QED BY <1>2, WatchesStart, PTL DEF WatchesSpec

\* Every paper dated before the last visit of a watch was shown as new, is about
\* to be, or is one of the exceptions, for any number of papers and visits.
THEOREM WatchesShowNew == WatchesSpec => []NewIsShown
<1>1. WatchesInv => NewIsShown
    BY DEF WatchesInv, AllAccounted, Accounted, NewIsShown, Stored
<1> QED BY <1>1, WatchesInvariant, PTL
-----------------------------------------------------------------------------
(* The semantic cache *)

\* What was read after the last clearing has all that was stored by then.
Fresh(s, found) == floor \cap Passing(s) \subseteq found

\* An entry is right for its scope, and fresh unless read before the clearing.
EntriesFresh ==
  \A s \in Scope : cache[s].kept =>
    cache[s].found \subseteq Passing(s) /\ (~cache[s].older => Fresh(s, cache[s].found))

\* A search is owed what was stored at the clearing before it began; what it reads
\* is all of that, and fresh as long as the cache is not cleared before it is put.
SearchFresh(x) ==
  /\ x.at # "idle" => x.owed \subseteq floor /\ x.owed \subseteq Passing(x.scope)
  /\ x.at = "put" =>
       /\ x.owed \subseteq x.found /\ x.found \subseteq Passing(x.scope)
       /\ ~x.older => Fresh(x.scope, x.found)
  /\ x.at = "answer" /\ ~x.older => x.owed \subseteq x.found /\ x.found \subseteq Passing(x.scope)

CacheInv ==
  /\ CacheTypeOK /\ floor \subseteq stored
  /\ EntriesFresh
  /\ \A r \in Searcher : SearchFresh(query[r])

QueryRecord ==
  [at : {"idle", "lookup", "read", "put", "answer"}, scope : Scope,
   found : SUBSET Entry, owed : SUBSET Entry, older : BOOLEAN]

\* A search at rest.
LEMMA AtRest == NotAsking \in QueryRecord /\ NotAsking.at = "idle" /\ SearchFresh(NotAsking)
<1>1. (CHOOSE s \in Scope : TRUE) \in Scope
    BY ScopeAssumption
<1> DEFINE c == CHOOSE s \in Scope : TRUE
<1>2. NotAsking = [Asking(c, {}) EXCEPT !.at = "idle"]
    BY DEF NotAsking
<1> HIDE DEF c
<1>3. NotAsking = [at |-> "idle", scope |-> c, found |-> {}, owed |-> {}, older |-> FALSE]
    BY <1>2 DEF Asking
<1>4. c \in Scope
    BY <1>1 DEF c
<1> QED BY <1>3, <1>4 DEF QueryRecord, SearchFresh

\* The cache is empty at first.
LEMMA CacheStarts == CacheInit => CacheInv
BY AtRest DEF CacheInit, CacheInv, CacheTypeOK, EntriesFresh, NoAnswer, Answer, QueryRecord

\* A step of one search, which leaves the tables and the entries alone.
LEMMA SearchSteps ==
  ASSUME CacheInv, NEW r \in Searcher, NEW x \in QueryRecord, SearchFresh(x),
         query' = [query EXCEPT ![r] = x], UNCHANGED <<stored, cache, floor>>
  PROVE  CacheInv'
<1>1. query \in [Searcher -> QueryRecord] /\ \A q \in Searcher : SearchFresh(query[q])
    BY DEF CacheInv, CacheTypeOK, QueryRecord
<1>2. query' \in [Searcher -> QueryRecord] /\ query'[r] = x /\ \A q \in Searcher \ {r} : query'[q] = query[q]
    BY <1>1
<1>3. CacheTypeOK' /\ (floor \subseteq stored)' /\ EntriesFresh'
    BY <1>2 DEF CacheInv, CacheTypeOK, QueryRecord, EntriesFresh, Fresh
<1>4. \A q \in Searcher : SearchFresh(query'[q])
    BY <1>1, <1>2
<1> QED BY <1>3, <1>4 DEF CacheInv, SearchFresh, Fresh

\* Every step of the cache keeps the invariant.
LEMMA CacheStep == CacheInv /\ [CacheNext]_cacheVars => CacheInv'
<1> SUFFICES ASSUME CacheInv, [CacheNext]_cacheVars PROVE CacheInv'
    OBVIOUS
<1>0. /\ stored \subseteq Entry /\ floor \subseteq stored
      /\ cache \in [Scope -> Answer] /\ query \in [Searcher -> QueryRecord]
      /\ EntriesFresh /\ \A r \in Searcher : SearchFresh(query[r])
    BY DEF CacheInv, CacheTypeOK, QueryRecord
<1>a. \A s : Passing(s) \subseteq Entry
    BY DEF Passing
<1>1. ASSUME NEW p \in Entry, StorePaper(p) PROVE CacheInv'
    BY <1>0, <1>1 DEF StorePaper, CacheInv, CacheTypeOK, EntriesFresh, Fresh, SearchFresh
<1>2. ASSUME NEW r \in Searcher, NEW s \in Scope, BeginSearch(r, s) PROVE CacheInv'
    <2> DEFINE x == Asking(s, floor \cap Passing(s))
    <2>1. query' = [query EXCEPT ![r] = x] /\ UNCHANGED <<stored, cache, floor>>
        BY <1>2 DEF BeginSearch
    <2>2. x \in QueryRecord /\ SearchFresh(x)
        BY <1>0, <1>a DEF Asking, QueryRecord, SearchFresh
    <2> QED BY <2>1, <2>2, SearchSteps
<1>3. ASSUME NEW r \in Searcher, Lookup(r) PROVE CacheInv'
    <2>0. /\ query[r].at = "lookup" /\ UNCHANGED <<stored, cache, floor>>
          /\ query[r] \in QueryRecord /\ SearchFresh(query[r])
        BY <1>0, <1>3 DEF Lookup
    <2>1. CASE \E e \in Entries(query[r].scope) : e.kept /\
                 query' = [query EXCEPT ![r].found = e.found, ![r].older = e.older, ![r].at = "answer"]
        <3>1. PICK e \in Entries(query[r].scope) : e.kept /\
                 query' = [query EXCEPT ![r].found = e.found, ![r].older = e.older, ![r].at = "answer"]
            BY <2>1
        <3>2. e = cache[query[r].scope] /\ query[r].scope \in Scope
            BY <2>0, <3>1 DEF Entries, QueryRecord
        <3>3. e \in Answer /\ e.found \subseteq Passing(query[r].scope) /\ (~e.older => Fresh(query[r].scope, e.found))
            BY <1>0, <3>1, <3>2 DEF EntriesFresh
        <3> DEFINE x == [query[r] EXCEPT !.found = e.found, !.older = e.older, !.at = "answer"]
        <3>4. query' = [query EXCEPT ![r] = x]
            BY <3>1
        <3>5. x \in QueryRecord
            BY <2>0, <3>3 DEF QueryRecord, Answer
        <3>6. /\ x.at = "answer" /\ x.found = e.found /\ x.older = e.older
              /\ x.scope = query[r].scope /\ x.owed = query[r].owed
            BY <2>0 DEF QueryRecord
        <3> HIDE DEF x
        <3>7. x.owed \subseteq floor /\ x.owed \subseteq Passing(x.scope)
            BY <2>0, <3>6 DEF SearchFresh
        <3>8. SearchFresh(x)
            BY <3>3, <3>6, <3>7 DEF SearchFresh, Fresh
        <3> QED BY <2>0, <3>4, <3>5, <3>8, SearchSteps
    <2>2. CASE query' = [query EXCEPT ![r].at = "read"]
        <3> DEFINE x == [query[r] EXCEPT !.at = "read"]
        <3>1. x \in QueryRecord /\ x.at = "read" /\ x.scope = query[r].scope /\ x.owed = query[r].owed
            BY <2>0 DEF QueryRecord
        <3>2. query' = [query EXCEPT ![r] = x]
            BY <2>2
        <3> HIDE DEF x
        <3>3. SearchFresh(x)
            BY <2>0, <3>1 DEF SearchFresh
        <3> QED BY <2>0, <3>1, <3>2, <3>3, SearchSteps
    <2> QED BY <1>3, <2>1, <2>2 DEF Lookup
<1>4. ASSUME NEW r \in Searcher, ReadHits(r) PROVE CacheInv'
    <2>0. /\ query[r].at = "read" /\ UNCHANGED <<stored, cache, floor>>
          /\ query[r] \in QueryRecord /\ SearchFresh(query[r])
        BY <1>0, <1>4 DEF ReadHits
    <2> DEFINE hits == stored \cap Passing(query[r].scope)
               x == [query[r] EXCEPT !.found = hits, !.at = "put"]
    <2>1. query' = [query EXCEPT ![r] = x]
        BY <1>4 DEF ReadHits
    <2>2. hits \subseteq Entry
        BY <1>0
    <2> HIDE DEF hits
    <2>3. /\ x \in QueryRecord
          /\ x.at = "put" /\ x.found = hits /\ x.scope = query[r].scope /\ x.owed = query[r].owed
        BY <2>0, <2>2 DEF QueryRecord
    <2> HIDE DEF x
    <2>4. x.owed \subseteq floor /\ x.owed \subseteq Passing(x.scope)
        BY <2>0, <2>3 DEF SearchFresh
    <2>5. SearchFresh(x)
        BY <1>0, <2>3, <2>4 DEF SearchFresh, Fresh, hits
    <2> QED BY <2>0, <2>1, <2>3, <2>5, SearchSteps
<1>5. ASSUME NEW r \in Searcher, PutAnswer(r) PROVE CacheInv'
    <2>0. /\ query[r].at = "put" /\ UNCHANGED <<stored, floor>>
          /\ query[r] \in QueryRecord /\ SearchFresh(query[r])
        BY <1>0, <1>5 DEF PutAnswer
    <2> DEFINE e == [kept |-> TRUE, found |-> query[r].found, older |-> query[r].older]
               x == [query[r] EXCEPT !.at = "answer", !.older = FALSE]
    <2>1. cache' = [cache EXCEPT ![query[r].scope] = e] /\ query' = [query EXCEPT ![r] = x]
        BY <1>5 DEF PutAnswer
    <2>2. e \in Answer /\ e.kept /\ e.found = query[r].found /\ e.older = query[r].older
        BY <2>0 DEF Answer, QueryRecord
    <2>3. /\ x \in QueryRecord /\ x.at = "answer" /\ x.scope = query[r].scope
          /\ x.owed = query[r].owed /\ x.found = query[r].found
        BY <2>0 DEF QueryRecord
    <2> HIDE DEF e, x
    <2>4. cache' \in [Scope -> Answer] /\ query' \in [Searcher -> QueryRecord]
        BY <1>0, <2>1, <2>2, <2>3
    <2>5. CacheTypeOK' /\ (floor \subseteq stored)'
        BY <1>0, <2>0, <2>4 DEF CacheInv, CacheTypeOK, QueryRecord
    <2>6. EntriesFresh'
        <3> SUFFICES ASSUME NEW s \in Scope, cache'[s].kept
                     PROVE  /\ cache'[s].found \subseteq Passing(s)
                            /\ ~cache'[s].older => Fresh(s, cache'[s].found)
            BY <2>0 DEF EntriesFresh, Fresh
        <3>1. CASE s = query[r].scope
            <4>1. cache'[s] = e
                BY <1>0, <2>1, <3>1
            <4> QED BY <2>0, <2>2, <3>1, <4>1 DEF SearchFresh
        <3>2. CASE s # query[r].scope
            <4>1. cache'[s] = cache[s]
                BY <1>0, <2>1, <3>2
            <4> QED BY <1>0, <4>1 DEF EntriesFresh
        <3> QED BY <3>1, <3>2
    <2>7. SearchFresh(x)
        BY <2>0, <2>3 DEF SearchFresh
    <2>8. \A q \in Searcher : SearchFresh(query'[q])
        BY <1>0, <2>1, <2>7
    <2> QED BY <2>0, <2>5, <2>6, <2>8 DEF CacheInv, SearchFresh, Fresh
<1>6. ASSUME NEW r \in Searcher, EndSearch(r) PROVE CacheInv'
    BY <1>6, AtRest, SearchSteps DEF EndSearch
<1>7. CASE ClearCache
    <2>1. /\ cache' = [s \in Scope |-> NoAnswer] /\ floor' = stored /\ stored' = stored
          /\ query' = [q \in Searcher |-> IF query[q].at = "put" THEN [query[q] EXCEPT !.older = TRUE] ELSE query[q]]
        BY <1>7 DEF ClearCache, Cleared
    <2>2. ASSUME NEW q \in Searcher
          PROVE  /\ query'[q] \in QueryRecord /\ query'[q].at = query[q].at /\ query'[q].scope = query[q].scope
                 /\ query'[q].owed = query[q].owed /\ query'[q].found = query[q].found
                 /\ query[q].at = "put" => query'[q].older
                 /\ query[q].at # "put" => query'[q].older = query[q].older
        <3>1. query[q] \in QueryRecord
            BY <1>0
        <3>2. query'[q] = IF query[q].at = "put" THEN [query[q] EXCEPT !.older = TRUE] ELSE query[q]
            BY <2>1
        <3>3. CASE query[q].at = "put"
            <4>1. query'[q] = [query[q] EXCEPT !.older = TRUE]
                BY <3>2, <3>3
            <4> QED BY <3>1, <3>3, <4>1 DEF QueryRecord
        <3>4. CASE query[q].at # "put"
            BY <3>1, <3>2, <3>4
        <3> QED BY <3>3, <3>4
    <2>3. cache' \in [Scope -> Answer]
        BY <2>1 DEF NoAnswer, Answer
    <2>4. query' \in [Searcher -> QueryRecord]
        <3>1. query' = [q \in Searcher |-> query'[q]]
            BY <2>1
        <3> QED BY <2>2, <3>1
    <2>5. CacheTypeOK' /\ (floor \subseteq stored)'
        BY <1>0, <2>1, <2>3, <2>4 DEF CacheTypeOK, QueryRecord
    <2>6. EntriesFresh'
        BY <2>1 DEF EntriesFresh, NoAnswer
    <2>7. ASSUME NEW q \in Searcher PROVE SearchFresh(query[q])'
        <3>1. SearchFresh(query[q])
            BY <1>0
        <3> QED BY <1>0, <2>1, <2>2, <3>1 DEF SearchFresh
    <2> QED BY <2>5, <2>6, <2>7 DEF CacheInv
<1>8. ASSUME NEW s \in Scope, ExpireEntry(s) PROVE CacheInv'
    <2>1. cache' = [cache EXCEPT ![s] = NoAnswer] /\ UNCHANGED <<stored, query, floor>>
        BY <1>8 DEF ExpireEntry
    <2>2. cache' \in [Scope -> Answer]
        BY <1>0, <2>1 DEF NoAnswer, Answer
    <2>3. EntriesFresh'
        BY <1>0, <2>1 DEF EntriesFresh, Fresh, NoAnswer
    <2> QED BY <1>0, <2>1, <2>2, <2>3 DEF CacheInv, CacheTypeOK, SearchFresh, Fresh
<1>9. CASE UNCHANGED cacheVars
    BY <1>0, <1>9 DEF cacheVars, CacheInv, CacheTypeOK, EntriesFresh, Fresh, SearchFresh
<1> QED BY <1>1, <1>2, <1>3, <1>4, <1>5, <1>6, <1>7, <1>8, <1>9 DEF CacheNext

\* A search that began after the cache was cleared finds every paper stored by
\* then that passes its filters, and none that does not, but for the answers put
\* by searches that had read the tables before the clearing.
THEOREM CacheAnswersFresh == CacheSpec => []FreshSinceClear
<1>1. CacheInv => FreshSinceClear
    BY DEF CacheInv, SearchFresh, FreshSinceClear
<1> QED BY <1>1, CacheStarts, CacheStep, PTL DEF CacheSpec

-----------------------------------------------------------------------------
(* Types *)

\* What a request of the graph reads and chooses are papers and keys.
LEMMA ExploreTyped == ExploreSpec => []ExploreTypeOK
<1>1. ExploreInv => ExploreTypeOK
    <2> SUFFICES ASSUME ExploreTypes PROVE ExploreTypeOK
        BY DEF ExploreInv
    <2>1. /\ view.at \in {"idle", "trail", "dismissed", "candidates", "chosen"}
          /\ view.path \subseteq Publication /\ view.known \subseteq Publication
          /\ view.exclude \subseteq StoredKey /\ view.gone \subseteq StoredKey
          /\ view.chosen \subseteq Key
        BY DEF ExploreTypes, ViewRecord
    <2> QED BY <2>1 DEF ExploreTypes, ExploreTypeOK
<1> QED BY <1>1, ExploreInvariant, PTL

\* The executor's batches are papers of the path.
LEMMA CitationsTyped == CitationsSpec => []CitationsTypeOK
<1>1. CitationsInv => CitationsTypeOK
    BY DEF CitationsInv, CitationsTypes, CitationsTypeOK
<1> QED BY <1>1, CitationsInvariant, PTL

\* Visits and what they show are of papers and dates.
LEMMA WatchesTyped == WatchesSpec => []WatchesTypeOK
<1>1. WatchesInv => WatchesTypeOK
    BY DEF WatchesInv
<1> QED BY <1>1, WatchesInvariant, PTL

\* An entry of the cache is an answer.
LEMMA CacheTyped == CacheSpec => []CacheTypeOK
<1>1. CacheInv => CacheTypeOK
    BY DEF CacheInv
<1> QED BY <1>1, CacheStarts, CacheStep, PTL DEF CacheSpec

-----------------------------------------------------------------------------
(* The parts together *)

\* A behaviour of the query API is a behaviour of each of its parts.
LEMMA PartsOfApi ==
  ApiSpec => /\ Spec /\ TrailSpec /\ CitationsSpec /\ ExploreSpec /\ WatchesSpec /\ CacheSpec
             /\ RankingSpec
<1>1. ApiInit => /\ Init /\ TrailInit /\ CitationsInit /\ ExploreInit /\ WatchesInit /\ CacheInit
                 /\ RankingInit
    BY DEF ApiInit
<1>2. [ApiNext]_apiVars => [Next]_vars
    BY DEF ApiNext, Others, apiVars
<1>3. [ApiNext]_apiVars => [TrailNext]_trailVars
    BY DEF ApiNext, Others, apiVars
<1>4. [ApiNext]_apiVars => [CitationsNext]_citationVars
    BY DEF ApiNext, Others, apiVars
<1>5. [ApiNext]_apiVars => [ExploreNext]_exploreVars
    BY DEF ApiNext, Others, apiVars
<1>6. [ApiNext]_apiVars => [WatchesNext]_watchVars
    BY DEF ApiNext, Others, apiVars
<1>7. [ApiNext]_apiVars => [CacheNext]_cacheVars
    BY DEF ApiNext, Others, apiVars
<1>8. [ApiNext]_apiVars => [RankingNext]_rankingVars
    BY DEF ApiNext, Others, apiVars
<1> QED BY <1>1, <1>2, <1>3, <1>4, <1>5, <1>6, <1>7, <1>8, PTL
        DEF ApiSpec, Spec, TrailSpec, CitationsSpec, ExploreSpec, WatchesSpec, CacheSpec, RankingSpec

\* The query API keeps what each part keeps alone.
THEOREM ApiKeeps ==
  ApiSpec => /\ []TypeOK /\ []OneGeneration /\ []FiguresMatch
             /\ [](TrailTypeOK /\ RowsHaveWebs) /\ []EmptyWebExplained /\ []RingsNeedDeletion
             /\ RowsLeaveOnlyWhenAsked
             /\ []FetchedOnce /\ []EdgesFromOneAnswer
             /\ []SuggestionsAreNew
             /\ []NewIsShown /\ []FreshSinceClear
             /\ []FusedRanking /\ []SuggestionsWithinCaps
BY PartsOfApi, TypeCorrect, OneAtATime, FiguresOfDesign,
   TrailRowsHaveWebs, TrailEmptyWebs, TrailRings, TrailRowsLeaveOnlyWhenAsked,
   CitationsFetchedOnce, CitationsFromOneAnswer, ExploreSuggestsNew,
   WatchesShowNew, CacheAnswersFresh, SearchesFused, SuggestionsBest, PTL

\* Every part of the query API keeps the types of its tables and requests.
THEOREM ApiTyped == ApiSpec => []ApiTypesOK
<1>1. /\ TrailTypeOK /\ RowsHaveWebs
      /\ CitationsTypeOK /\ ExploreTypeOK /\ WatchesTypeOK /\ CacheTypeOK /\ RankingTypeOK
      <=> ApiTypesOK
    BY DEF ApiTypesOK
<1> QED BY <1>1, PartsOfApi, TrailRowsHaveWebs, CitationsTyped, ExploreTyped, WatchesTyped,
           CacheTyped, RankingTyped, PTL
=============================================================================
