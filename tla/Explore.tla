------------------------------- MODULE Explore -------------------------------
(***************************************************************************)
(* The graph of one web (recommend.graph): a request reads, statement      *)
(* after statement, the papers of the path, what is not to be suggested    *)
(* and the citations of the path, and chooses suggestions, while papers    *)
(* are ingested, join and leave the trail, citations are fetched and       *)
(* suggestions dismissed.                                                  *)
(*                                                                         *)
(* Which candidates the caps choose is Ranking's; here any may be. A path  *)
(* has no more papers than suggestions are drawn from. Works that cite a   *)
(* paper, candidates just like those it cites, are left out, and so is the *)
(* drawing: briefs of the index and edges.                                 *)
(***************************************************************************)
EXTENDS Naturals, FiniteSets

CONSTANTS
  Publication,  \* works, each known to a source by one key at a time
  OtherKey,     \* what a source that has no arXiv id of a work knows it by
  MaxDismissed  \* bound on the dismissals

ASSUME ExploreAssumption ==
  /\ IsFiniteSet(Publication) /\ MaxDismissed \in Nat
  /\ OtherKey \cap {"arxiv", "id", "none"} = {}

VARIABLES
  ingested,   \* works that are papers of the index
  place,      \* where a paper is on the trail: on the web's path, elsewhere, or not
  cites,      \* cached citations of a paper: the key of every work it is linked with
  dismissed,  \* keys dismissed
  view        \* the request

exploreVars == <<ingested, place, cites, dismissed, view>>

\* A key as a candidate has it, and as it is dismissed: an arXiv id loses its prefix.
Key == [work : Publication, kind : {"arxiv"} \cup OtherKey]
ArxivId(w) == [work |-> w, kind |-> "id"]
StoredKey == Key \cup {ArxivId(w) : w \in Publication}
Citation == {"none", "arxiv"} \cup OtherKey

NoView == [at |-> "idle", path |-> {}, exclude |-> {}, chosen |-> {}, gone |-> {},
           known |-> {}]

ExploreTypeOK ==
  /\ ingested \subseteq Publication
  /\ place \in [Publication -> {"none", "here", "elsewhere"}]
  /\ cites \in [Publication -> [Publication -> Citation]]
  /\ dismissed \subseteq StoredKey
  /\ view.at \in {"idle", "trail", "dismissed", "candidates", "chosen"}
  /\ view.path \cup view.known \subseteq Publication
  /\ view.exclude \cup view.gone \subseteq StoredKey
  /\ view.chosen \subseteq Key

ExploreInit ==
  /\ ingested = {} /\ dismissed = {}
  /\ place = [w \in Publication |-> "none"]
  /\ cites = [p \in Publication |-> [w \in Publication |-> "none"]]
  /\ view = NoView

-----------------------------------------------------------------------------
Here == {p \in Publication : place[p] = "here"}
OnTrail == {p \in Publication : place[p] # "none"}

IngestPaper(w) ==
  /\ w \notin ingested
  /\ ingested' = ingested \cup {w}
  /\ UNCHANGED <<place, cites, dismissed, view>>

\* Read, moved or removed.
ChangeTrail(p, to) ==
  /\ p \in ingested /\ place[p] # to
  /\ place' = [place EXCEPT ![p] = to]
  /\ view' = IF to = "none" THEN [view EXCEPT !.known = @ \ {p}] ELSE view
  /\ UNCHANGED <<ingested, cites, dismissed>>

\* A fetch, or another one after it failed or was partial (Citations): the source
\* may know a work's arXiv id, and a work of the index has it from its title.
FetchCitations(p) ==
  /\ place[p] # "none"
  /\ \E found \in [Publication -> Citation] :
       /\ found[p] = "none"
       /\ cites' = [cites EXCEPT ![p] =
            [w \in Publication |-> IF found[w] # "none" /\ w \in ingested THEN "arxiv" ELSE found[w]]]
  /\ UNCHANGED <<ingested, place, dismissed, view>>

\* parse_arxiv_id(key) or key
DismissalOf(k) == IF k.kind = "arxiv" THEN ArxivId(k.work) ELSE k

Dismiss(k) ==
  /\ Cardinality(dismissed) < MaxDismissed
  /\ dismissed' = dismissed \cup {DismissalOf(k)}
  /\ UNCHANGED <<ingested, place, cites, view>>

-----------------------------------------------------------------------------
View(step) ==
  /\ view' = step
  /\ UNCHANGED <<ingested, place, cites, dismissed>>

\* get_web and web_trail
ViewPath ==
  /\ view.at = "idle" /\ Here # {}
  /\ View([NoView EXCEPT !.at = "trail", !.path = Here, !.known = OnTrail, !.gone = dismissed])

\* trail_ids
ViewTrailIds ==
  /\ view.at = "trail"
  /\ View([view EXCEPT !.at = "dismissed", !.exclude = {ArxivId(p) : p \in OnTrail}])

\* dismissed_keys
ViewDismissed ==
  /\ view.at = "dismissed"
  /\ View([view EXCEPT !.at = "candidates", !.exclude = @ \cup dismissed])

\* Mutant: only the key of a candidate is looked for.
KeyNotExcluded(c) == c \notin view.exclude

\* Neither its key nor its arXiv id.
NotExcluded(c) ==
  /\ c \notin view.exclude
  /\ c.kind = "arxiv" => ArxivId(c.work) \notin view.exclude

Linked(p) == {[work |-> w, kind |-> cites[p][w]] : w \in {w \in Publication : cites[p][w] # "none"}}
Similar(p) == {[work |-> w, kind |-> "arxiv"] : w \in ingested \ {p}}

\* Cited or near.
Candidates(p) == {c \in Linked(p) \cup Similar(p) : NotExcluded(c)}

\* citations_for, neighbors and pick.  The briefs and the citations read after that
\* are for the drawing.
ViewCandidates ==
  /\ view.at = "candidates"
  /\ \E chosen \in SUBSET UNION {Candidates(p) : p \in view.path} :
       View([view EXCEPT !.at = "chosen", !.chosen = chosen])

\* Answered, or ended by an error at any point.
EndView ==
  /\ view.at # "idle"
  /\ View(NoView)

ExploreNext ==
  \/ \E w \in Publication :
       \/ IngestPaper(w) \/ FetchCitations(w)
       \/ \E to \in {"none", "here", "elsewhere"} : ChangeTrail(w, to)
  \/ \E k \in Key : Dismiss(k)
  \/ ViewPath \/ ViewTrailIds \/ ViewDismissed \/ ViewCandidates \/ EndView

ExploreSpec == ExploreInit /\ [][ExploreNext]_exploreVars

-----------------------------------------------------------------------------
\* What is suggested was neither on a path nor dismissed when the view began, except
\* for a paper that has left the trail meanwhile, and for a work that a source knew
\* by another key: one that came into the index after the citation was
\* stored, or one dismissed under the key of an earlier fetch.
SuggestionsAreNew ==
  \A c \in view.chosen :
    /\ c.work \in view.known => c.kind # "arxiv"
    /\ DismissalOf(c) \notin view.gone
=============================================================================
