------------------------------- MODULE Ranking -------------------------------
(***************************************************************************)
(* The two rankings of the query API, as functions of what the statements  *)
(* read: the hybrid search, which fuses the nearest chunks with a keyword  *)
(* ranking (db.search), and the suggestions of a web (recommend.py).       *)
(*                                                                         *)
(* A question is asked and answered; similarities are known by their order *)
(* (no ties), reciprocal ranks are fractions and weights millionths.       *)
(* Papers are numbered in the order of their ids.                          *)
(***************************************************************************)
EXTENDS Naturals, Sequences, FiniteSets, SequencesExt

CONSTANTS
  NumPapers,   \* papers of the index
  MaxChunks,   \* candidate_chunks
  MaxKeyword,  \* KEYWORD_CANDIDATES
  Reason,      \* edges a suggestion may have, one of PathEdge each
  NumWorks,    \* works that may be suggested
  PerSource,   \* PER_SOURCE
  SearchLimits, PickLimits

\* DECAY, by the place of a source among the RECENT_N newest papers of the path.
Decay == <<10000, 8500, 7225, 6141, 5220, 4437, 3771, 3206>>
PathEdge == [kind : {"builds_on", "follow_up", "similar"}, from : DOMAIN Decay]

ASSUME RankingAssumption ==
  /\ NumPapers \in Nat /\ MaxChunks \in Nat /\ MaxKeyword \in Nat /\ NumWorks \in Nat
  /\ PerSource \in Nat \ {0} /\ Reason \subseteq PathEdge
  /\ SearchLimits \cup PickLimits \subseteq Nat \ {0}

VARIABLES asked, answer

rankingVars == <<asked, answer>>

Silence == [kind |-> "none"]
UpTo(S, n) == UNION {[1..m -> S] : m \in 0..n}
Ranked(S, n) == {s \in UpTo(S, n) : \A i, j \in DOMAIN s : s[i] = s[j] => i = j}

\* The best chunks, each known by its paper, and the papers that match the words.
SearchQuestions ==
  [kind : {"search"}, nearest : UpTo(1..NumPapers, MaxChunks),
   keyword : Ranked(1..NumPapers, MaxKeyword), limit : SearchLimits]

\* external : no source has given an arXiv id of it, so it is nobody's neighbour.
Suggestion ==
  {c \in [external : BOOLEAN, reasons : (SUBSET Reason) \ {{}}] :
     c.external => \A r \in c.reasons : r.kind # "similar"}
PickQuestions ==
  [kind : {"pick"}, works : [1..NumWorks -> Suggestion], exclude : SUBSET (1..NumWorks), limit : PickLimits]

RankingTypeOK ==
  /\ asked = Silence \/ asked \in SearchQuestions \/ asked \in PickQuestions
  /\ answer = Silence \/ answer.kind = asked.kind

-----------------------------------------------------------------------------
\* The elements of S in an order of them, a set of pairs.
InOrder(S, order) ==
  [i \in 1..Cardinality(S) |-> CHOOSE x \in S : Cardinality({y \in S : <<y, x>> \in order}) = i - 1]

(* _hybrid_rows *)

IndexOf(s, x) == SelectInSeq(s, LAMBDA y : y = x)

\* DISTINCT ON: a paper is represented by its best chunk.
Best(nearest) == {i \in DOMAIN nearest : IndexOf(nearest, nearest[i]) = i}
DenseRank(nearest, p) == Cardinality({i \in Best(nearest) : i <= IndexOf(nearest, p)})

\* 1 / (60 + rank), or 0 without a rank, as numerator and denominator.
RrfK == 60
Rrf(rank) == IF rank = 0 THEN <<0, 1>> ELSE <<1, RrfK + rank>>
Plus(x, y) == <<x[1] * y[2] + y[1] * x[2], x[2] * y[2]>>
Above(x, y) == x[1] * y[2] > y[1] * x[2]
RrfScore(q, p) == Plus(Rrf(DenseRank(q.nearest, p)), Rrf(IndexOf(q.keyword, p)))

\* Mutant: a paper found by its words alone is not joined.
DenseOnly(q) == ToSet(q.nearest)

Fused(q) == ToSet(q.nearest) \cup ToSet(q.keyword)

FusedOrder(q) ==
  {e \in Fused(q) \X Fused(q) :
     \/ Above(RrfScore(q, e[1]), RrfScore(q, e[2]))
     \/ ~Above(RrfScore(q, e[2]), RrfScore(q, e[1])) /\ e[1] < e[2]}

FirstOf(s, n) == SubSeq(s, 1, IF n < Len(s) THEN n ELSE Len(s))

\* Hits in their order; chunk 0 stands for one found by its words alone.
HybridRows(q) ==
  LET hit(p) == [paper |-> p, chunk |-> IndexOf(q.nearest, p), keyword |-> p \in ToSet(q.keyword)]
      rows == FirstOf(InOrder(Fused(q), FusedOrder(q)), q.limit)
  IN  [i \in DOMAIN rows |-> hit(rows[i])]

-----------------------------------------------------------------------------
(* candidates and pick *)

\* A similar paper is one of middling similarity.
Weight(r) == [builds_on |-> 35, follow_up |-> 60, similar |-> 50][r.kind] * Decay[r.from]

Score(c) == MapThenSumSet(Weight, c.reasons)
SourceOf(c) == (CHOOSE r \in c.reasons : \A o \in c.reasons : Weight(o) <= Weight(r)).from

\* round(): halves go to the even side.
RoundShare(limit) ==
  LET whole == (34 * limit) \div 100
      rest == (34 * limit) % 100
  IN  IF rest > 50 \/ (rest = 50 /\ whole % 2 = 1) THEN whole + 1 ELSE whole
ExternalCap(limit) == IF RoundShare(limit) > 1 THEN RoundShare(limit) ELSE 1

SourceCap(limit, sources) ==
  LET share == (limit + sources - 1) \div sources
  IN  IF sources > 0 /\ share > PerSource THEN share ELSE PerSource

Eligible(q) == DOMAIN q.works \ q.exclude
WorksOrder(q) ==
  {e \in Eligible(q) \X Eligible(q) :
     \/ Score(q.works[e[1]]) > Score(q.works[e[2]])
     \/ Score(q.works[e[1]]) = Score(q.works[e[2]]) /\ e[1] < e[2]}
RankedWorks(q) == InOrder(Eligible(q), WorksOrder(q))

OfSource(q, chosen, s) == Cardinality({i \in DOMAIN chosen : SourceOf(q.works[chosen[i]]) = s})
Externals(q, chosen) == Cardinality({i \in DOMAIN chosen : q.works[chosen[i]].external})
CapOf(q) == SourceCap(q.limit, Cardinality({SourceOf(q.works[w]) : w \in Eligible(q)}))

\* Mutant: a source may have one more than its cap.
FitsLoosely(q, chosen, w) ==
  /\ Len(chosen) < q.limit
  /\ OfSource(q, chosen, SourceOf(q.works[w])) <= CapOf(q)
  /\ q.works[w].external => Externals(q, chosen) < ExternalCap(q.limit)

Fits(q, chosen, w) ==
  /\ Len(chosen) < q.limit
  /\ OfSource(q, chosen, SourceOf(q.works[w])) < CapOf(q)
  /\ q.works[w].external => Externals(q, chosen) < ExternalCap(q.limit)

Pick(q) == FoldLeft(LAMBDA chosen, w : IF Fits(q, chosen, w) THEN Append(chosen, w) ELSE chosen, <<>>, RankedWorks(q))

-----------------------------------------------------------------------------
RankingInit == asked = Silence /\ answer = Silence

Ask ==
  /\ asked = Silence
  /\ asked' \in SearchQuestions \cup PickQuestions
  /\ UNCHANGED answer

AnswerSearch ==
  /\ asked.kind = "search" /\ answer = Silence
  /\ answer' = [kind |-> "search", hits |-> HybridRows(asked)]
  /\ UNCHANGED asked

AnswerPick ==
  /\ asked.kind = "pick" /\ answer = Silence
  /\ answer' = [kind |-> "pick", chosen |-> Pick(asked)]
  /\ UNCHANGED asked

AskAgain ==
  /\ answer # Silence
  /\ asked' = Silence /\ answer' = Silence

RankingNext == Ask \/ AnswerSearch \/ AnswerPick \/ AskAgain

RankingSpec == RankingInit /\ [][RankingNext]_rankingVars

-----------------------------------------------------------------------------
\* p is before o in s, or only p is in s.
Ahead(s, p, o) == p \in ToSet(s) /\ (o \in ToSet(s) => IndexOf(s, p) < IndexOf(s, o))

\* hits is a fusion of the two rankings of q.
IsFusion(q, hits) ==
  LET papers == [i \in DOMAIN hits |-> hits[i].paper]
      all == ToSet(q.nearest) \cup ToSet(q.keyword)
  IN  /\ Len(hits) = IF Cardinality(all) < q.limit THEN Cardinality(all) ELSE q.limit
      /\ Cardinality(ToSet(papers)) = Len(hits)
      /\ \A p, o \in all :
           (/\ Ahead(q.nearest, p, o) \/ Ahead(q.keyword, p, o)
            /\ ~Ahead(q.nearest, o, p) /\ ~Ahead(q.keyword, o, p)
            /\ o \in ToSet(papers))
           => p \in ToSet(papers) /\ IndexOf(papers, p) < IndexOf(papers, o)
      /\ q.keyword = <<>> =>
           \A i \in DOMAIN papers : DenseRank(q.nearest, papers[i]) = i
      /\ \A i \in DOMAIN hits :
           /\ hits[i].keyword <=> hits[i].paper \in ToSet(q.keyword)
           /\ IF hits[i].chunk = 0 THEN hits[i].paper \notin ToSet(q.nearest)
              ELSE /\ q.nearest[hits[i].chunk] = hits[i].paper
                   /\ \A j \in 1..(hits[i].chunk - 1) : q.nearest[j] # hits[i].paper

\* What the fusion keeps of its two rankings (decision 33): every paper of either
\* is found if there is room; one that neither ranking puts behind another is not
\* behind it; without a match of the words the answer is the dense ranking; a hit
\* shows the paper's best chunk, or the abstract when only its words were found.
FusedRanking == answer.kind = "search" => IsFusion(asked, answer.hits)

\* Chosen works at least as good as w leave no room for it: they fill the list, its
\* source's share or that of the works without an arXiv id.
PassedOver(q, chosen, w) ==
  LET better == {i \in DOMAIN chosen : Score(q.works[chosen[i]]) >= Score(q.works[w])}
  IN  \/ Cardinality(better) = q.limit
      \/ Cardinality({i \in better : SourceOf(q.works[chosen[i]]) = SourceOf(q.works[w])}) = CapOf(q)
      \/ /\ q.works[w].external
         /\ Cardinality({i \in better : q.works[chosen[i]].external}) = ExternalCap(q.limit)

\* chosen are the best suggestions the caps of q allow.
IsBestWithinCaps(q, chosen) ==
  /\ Len(chosen) <= q.limit
  /\ ToSet(chosen) \cap q.exclude = {}
  /\ \A i, j \in DOMAIN chosen :
       i < j => /\ chosen[i] # chosen[j]
                /\ Score(q.works[chosen[i]]) >= Score(q.works[chosen[j]])
  /\ Externals(q, chosen) <= ExternalCap(q.limit)
  /\ \A w \in ToSet(chosen) : OfSource(q, chosen, SourceOf(q.works[w])) <= CapOf(q)
  /\ \A w \in (1..NumWorks) \ (q.exclude \cup ToSet(chosen)) : PassedOver(q, chosen, w)

\* The suggestions are the best ones the caps allow (recommend.py): no source and
\* not the works without an arXiv id have more than their share, nothing excluded
\* is suggested, and a work is passed over only when better ones fill the list,
\* its source's cap or the cap of works without an arXiv id.
SuggestionsWithinCaps == answer.kind = "pick" => IsBestWithinCaps(asked, answer.chosen)
=============================================================================
