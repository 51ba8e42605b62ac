---------------------------- MODULE SemanticCache ----------------------------
(***************************************************************************)
(* Searches through the semantic cache: a search whose scope (k, filters,  *)
(* identifiers) has an entry with a near embedding answers from it, others *)
(* read the tables and put their answer.  Entries expire, and DELETE /cache*)
(* drops all of them.                                                      *)
(*                                                                         *)
(* A scope stands for its query as well, so the cache keeps one answer for *)
(* each.  The scores of the answers are left out: an answer is the set of  *)
(* papers that pass the filters.                                           *)
(***************************************************************************)
EXTENDS Naturals

CONSTANTS
  Entry,    \* papers that come in
  Scope,    \* queries with their filters
  InScope,  \* <<s, p>> : paper p passes the filters of scope s
  Searcher  \* searches served at a time

ASSUME ScopeAssumption == Scope # {}

VARIABLES
  stored,  \* papers stored
  cache,   \* the answer kept for every scope, if any
  query,   \* searches: their scope, how far they are, what they have found
  floor    \* history: papers stored when the cache was last cleared

cacheVars == <<stored, cache, query, floor>>

\* older : read before the cache was last cleared (history).
Answer == [kept : BOOLEAN, found : SUBSET Entry, older : BOOLEAN]
NoAnswer == [kept |-> FALSE, found |-> {}, older |-> FALSE]

CacheTypeOK ==
  /\ stored \subseteq Entry
  /\ cache \in [Scope -> Answer]
  /\ query \in [Searcher -> [at : {"idle", "lookup", "read", "put", "answer"}, scope : Scope,
                             found : SUBSET Entry, owed : SUBSET Entry, older : BOOLEAN]]
  /\ floor \subseteq Entry

Asking(s, owed) == [at |-> "lookup", scope |-> s, found |-> {}, owed |-> owed, older |-> FALSE]
NotAsking == [Asking(CHOOSE s \in Scope : TRUE, {}) EXCEPT !.at = "idle"]

CacheInit ==
  /\ stored = {}
  /\ cache = [s \in Scope |-> NoAnswer]
  /\ query = [r \in Searcher |-> NotAsking]
  /\ floor = {}

-----------------------------------------------------------------------------
Passing(s) == {p \in Entry : <<s, p>> \in InScope}

StorePaper(p) ==
  /\ p \notin stored
  /\ stored' = stored \cup {p}
  /\ UNCHANGED <<cache, query, floor>>

\* The embedding of the query comes first; without it the search ends here.
BeginSearch(r, s) ==
  /\ query[r] = NotAsking
  /\ query' = [query EXCEPT ![r] = Asking(s, floor \cap Passing(s))]
  /\ UNCHANGED <<stored, cache, floor>>

\* Mutant: an entry of another scope will do.
AnyEntry(s) == {cache[t] : t \in Scope}

Entries(s) == {cache[s]}

Lookup(r) ==
  /\ query[r].at = "lookup"
  /\ LET hits == {e \in Entries(query[r].scope) : e.kept}
     IN  \/ \E e \in hits :
              query' = [query EXCEPT ![r].found = e.found, ![r].older = e.older, ![r].at = "answer"]
         \/ hits = {} /\ query' = [query EXCEPT ![r].at = "read"]
  /\ UNCHANGED <<stored, cache, floor>>

ReadHits(r) ==
  /\ query[r].at = "read"
  /\ query' = [query EXCEPT ![r].found = stored \cap Passing(query[r].scope), ![r].at = "put"]
  /\ UNCHANGED <<stored, cache, floor>>

PutAnswer(r) ==
  /\ query[r].at = "put"
  /\ cache' = [cache EXCEPT ![query[r].scope] =
                 [kept |-> TRUE, found |-> query[r].found, older |-> query[r].older]]
  /\ query' = [query EXCEPT ![r].at = "answer", ![r].older = FALSE]
  /\ UNCHANGED <<stored, floor>>

\* The answer is sent, or an error ends the search at any point.
EndSearch(r) ==
  /\ query[r].at # "idle"
  /\ query' = [query EXCEPT ![r] = NotAsking]
  /\ UNCHANGED <<stored, cache, floor>>

\* Mutant: the entries stay.
Uncleared == cache

Cleared == [s \in Scope |-> NoAnswer]

ClearCache ==
  /\ cache' = Cleared
  /\ query' = [r \in Searcher |-> IF query[r].at = "put" THEN [query[r] EXCEPT !.older = TRUE] ELSE query[r]]
  /\ floor' = stored
  /\ UNCHANGED stored

ExpireEntry(s) ==
  /\ cache[s] # NoAnswer
  /\ cache' = [cache EXCEPT ![s] = NoAnswer]
  /\ UNCHANGED <<stored, query, floor>>

CacheNext ==
  \/ \E p \in Entry : StorePaper(p)
  \/ \E r \in Searcher :
       \/ \E s \in Scope : BeginSearch(r, s)
       \/ Lookup(r) \/ ReadHits(r) \/ PutAnswer(r) \/ EndSearch(r)
  \/ ClearCache
  \/ \E s \in Scope : ExpireEntry(s)

CacheSpec == CacheInit /\ [][CacheNext]_cacheVars

-----------------------------------------------------------------------------
\* After the cache has been cleared, a search finds every paper stored by then
\* that passes its filters, and never one that does not, unless the entry it
\* hits was put by a search that had read the tables before the clearing.
FreshSinceClear ==
  \A r \in Searcher :
    query[r].at = "answer" /\ ~query[r].older =>
      query[r].owed \subseteq query[r].found /\ query[r].found \subseteq Passing(query[r].scope)
=============================================================================
