------------------------------- MODULE Watches -------------------------------
(***************************************************************************)
(* A saved search (a watch): a visit of its page shows as new what was     *)
(* ingested since the last visit, and marks the watch as seen.  A worker's *)
(* transaction dates a paper when it begins and shows it when it commits.  *)
(*                                                                         *)
(* Every paper matches the query; how well is left out, so any of them may *)
(* be beyond the limit.  The list of watches and the feed show the same    *)
(* matches and mark nothing.                                               *)
(***************************************************************************)
EXTENDS Naturals, FiniteSets

CONSTANTS
  Preprint,  \* papers that come in
  Old,       \* those published before the window of a narrow visit
  Visitor,   \* visits served at a time
  Limit,     \* matches a visit shows at most
  MaxTime    \* bound on the clock

ASSUME WatchesAssumption == Old \subseteq Preprint /\ Limit \in Nat \ {0} /\ MaxTime \in Nat

VARIABLES
  shelf,    \* papers: not there, being written or stored, and ingested_at
  clock,    \* now(), never the same twice
  seenAt,   \* seen_at of the watch, NoWatch if there is none
  visit,    \* visits: how far, the seen_at they loaded, what they found
  shown,    \* history: papers some visit has shown as new
  slipped   \* history: papers dated before the watch, or before the mark of a visit
            \* that had not found them or whose page was lost

watchVars == <<shelf, clock, seenAt, visit, shown, slipped>>

NoWatch == MaxTime + 1
Away == [at |-> "away", seen |-> 0, found |-> {}, new |-> {}]

WatchesTypeOK ==
  /\ shelf \in [Preprint -> [at : {"none", "writing", "stored"}, ingested : 0..MaxTime]]
  /\ clock \in 1..NoWatch
  /\ seenAt \in 1..NoWatch
  /\ visit \in [Visitor -> [at : {"away", "match", "mark", "show"}, seen : 0..MaxTime,
                            found : SUBSET Preprint, new : SUBSET Preprint]]
  /\ shown \cup slipped \subseteq Preprint

WatchesInit ==
  /\ shelf = [p \in Preprint |-> [at |-> "none", ingested |-> 0]]
  /\ clock = 1
  /\ seenAt = NoWatch
  /\ visit = [v \in Visitor |-> Away]
  /\ shown = {} /\ slipped = {}

-----------------------------------------------------------------------------
Stored == {p \in Preprint : shelf[p].at = "stored"}

NowPasses ==
  /\ clock <= MaxTime
  /\ clock' = clock + 1

WriteBegins(p) ==
  /\ shelf[p].at = "none"
  /\ NowPasses
  /\ shelf' = [shelf EXCEPT ![p] = [at |-> "writing", ingested |-> clock]]
  /\ UNCHANGED <<seenAt, visit, shown, slipped>>

WriteCommits(p) ==
  /\ shelf[p].at = "writing"
  /\ shelf' = [shelf EXCEPT ![p].at = "stored"]
  /\ UNCHANGED <<clock, seenAt, visit, shown, slipped>>

WriteRollsBack(p) ==
  /\ shelf[p].at = "writing"
  /\ shelf' = [shelf EXCEPT ![p] = [at |-> "none", ingested |-> 0]]
  /\ slipped' = slipped \ {p}
  /\ UNCHANGED <<clock, seenAt, visit, shown>>

LoadWatch(v) ==
  /\ visit[v] = Away /\ seenAt # NoWatch
  /\ visit' = [visit EXCEPT ![v] = [Away EXCEPT !.at = "match", !.seen = seenAt]]
  /\ UNCHANGED <<shelf, clock, seenAt, shown, slipped>>

LoadNothing(v) ==
  /\ visit[v] = Away /\ seenAt = NoWatch
  /\ UNCHANGED watchVars

\* Mutant: a paper published before the window is never new, however late it came in.
PublishedSince(v, found) == {p \in found \ Old : shelf[p].ingested > visit[v].seen}

NewSince(v, found) == {p \in found : shelf[p].ingested > visit[v].seen}

\* watch_matches, for the week or for all papers: the best LIMIT of the window.
WatchMatches(v) ==
  /\ visit[v].at = "match"
  /\ \E window \in {Stored, Stored \ Old}, found \in SUBSET Stored :
       /\ found \subseteq window
       /\ Cardinality(found) = Limit \/ (found = window /\ Cardinality(found) < Limit)
       /\ visit' = [visit EXCEPT ![v].found = found, ![v].new = NewSince(v, found), ![v].at = "mark"]
  /\ UNCHANGED <<shelf, clock, seenAt, shown, slipped>>

MarkWatchSeen(v) ==
  /\ visit[v].at = "mark"
  /\ NowPasses
  /\ seenAt' = IF seenAt = NoWatch THEN seenAt ELSE clock
  /\ slipped' = slipped \cup {p \in Preprint : shelf[p].at # "none" /\ p \notin visit[v].found}
  /\ visit' = [visit EXCEPT ![v].at = "show"]
  /\ UNCHANGED <<shelf, shown>>

\* The page reaches the reader.
ShowWatch(v) ==
  /\ visit[v].at = "show"
  /\ shown' = shown \cup visit[v].new
  /\ visit' = [visit EXCEPT ![v] = Away]
  /\ UNCHANGED <<shelf, clock, seenAt, slipped>>

\* An error or a lost connection ends a visit at any point.
VisitFails(v) ==
  /\ visit[v] # Away
  /\ slipped' = IF visit[v].at = "show" THEN slipped \cup visit[v].new ELSE slipped
  /\ visit' = [visit EXCEPT ![v] = Away]
  /\ UNCHANGED <<shelf, clock, seenAt, shown>>

\* seen_at DEFAULT now(): what has come in by then is not new to the watch.  The
\* visits of an earlier watch, which touch its row alone, have ended.
CreateWatch ==
  /\ seenAt = NoWatch /\ \A v \in Visitor : visit[v] = Away
  /\ NowPasses
  /\ seenAt' = clock
  /\ slipped' = slipped \cup {p \in Preprint : shelf[p].at # "none"}
  /\ UNCHANGED <<shelf, visit, shown>>

DeleteWatch ==
  /\ seenAt # NoWatch
  /\ seenAt' = NoWatch
  /\ UNCHANGED <<shelf, clock, visit, shown, slipped>>

WatchesNext ==
  \/ \E p \in Preprint : WriteBegins(p) \/ WriteCommits(p) \/ WriteRollsBack(p)
  \/ \E v \in Visitor :
       LoadWatch(v) \/ LoadNothing(v) \/ WatchMatches(v) \/ MarkWatchSeen(v) \/ ShowWatch(v) \/ VisitFails(v)
  \/ CreateWatch \/ DeleteWatch

WatchesSpec == WatchesInit /\ [][WatchesNext]_watchVars

-----------------------------------------------------------------------------
\* "New = ingested since" the last visit (sql/003_watches.sql): a paper dated
\* before the last visit has been shown as new, is about to be, was there before
\* the watch, or was passed by a visit that could not find it: it was not committed
\* yet, was outside the window or beyond the limit, or the page was lost.
NewIsShown ==
  \A p \in Stored :
    seenAt # NoWatch /\ shelf[p].ingested <= seenAt =>
      \/ p \in shown \cup slipped
      \/ \E v \in Visitor : visit[v].at = "show" /\ p \in visit[v].new
=============================================================================
