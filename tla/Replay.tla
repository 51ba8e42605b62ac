------------------------------- MODULE Replay -------------------------------
(***************************************************************************)
(* scripts/replay_dlq.py beside the workers it feeds, for one paper: the   *)
(* script reads papers.failed, takes the latest failure, looks whether the *)
(* database has stored the paper since, and if not produces the payload    *)
(* again to the topic it came from.  --id and --stage, which only leave out*)
(* failures, and payloads that cannot be replayed are left out.            *)
(***************************************************************************)
EXTENDS PaperStore, Sequences

CONSTANTS
  ThePaper,   \* the paper
  MaxFailures,  \* bound on the dead letters
  MaxReplays    \* bound on the runs of the script

ASSUME ReplayAssumption == ThePaper \in Paper /\ MaxFailures \in Nat /\ MaxReplays \in Nat

VARIABLES
  announced,  \* versions announced on papers.new
  fastQueue,  \* papers.new as the fast worker has still to read it
  fetchQueue, \* and as the fetcher has
  fullQueue,  \* papers.chunked as the full-text worker has still to read it
  stored,     \* the row of the paper
  dlq,        \* papers.failed: stage and payload of every failure
  script,     \* the run: how far it is and how many failures it has read
  replays,    \* runs so far
  tried,      \* history: failures read by the latest run that ended
  unsent,     \* history: a run's message was lost in its buffer
  outdated,   \* history: a run replayed a version older than one announced
  noFullText  \* history: the fetcher found an abstract alone

replayVars == <<announced, fastQueue, fetchQueue, fullQueue, stored, dlq, script,
                replays, tried, unsent, outdated, noFullText>>

queues == <<fastQueue, fetchQueue, fullQueue>>
Payload == [kind : {"paper", "chunked"}, version : Version, source : Source]
FailedWork == [stage : {"fetcher", "worker"}, payload : Payload]

ReplayTypeOK ==
  /\ announced \in 0..MaxVersion
  /\ fastQueue \in Seq(Version) /\ fetchQueue \in Seq(Version)
  /\ fullQueue \in Seq(Doc)
  /\ stored \in Row
  /\ dlq \in Seq(FailedWork) /\ Len(dlq) <= MaxFailures
  /\ script \in [at : {"idle", "plan", "apply"}, read : 0..MaxFailures]
  /\ replays \in 0..MaxReplays
  /\ tried \in 0..MaxFailures
  /\ unsent \in BOOLEAN /\ outdated \in BOOLEAN /\ noFullText \in BOOLEAN

ReplayInit ==
  /\ announced = 0
  /\ fastQueue = <<>> /\ fetchQueue = <<>> /\ fullQueue = <<>>
  /\ stored = NoRow
  /\ dlq = <<>>
  /\ script = [at |-> "idle", read |-> 0]
  /\ replays = 0 /\ tried = 0
  /\ unsent = FALSE /\ outdated = FALSE /\ noFullText = FALSE

-----------------------------------------------------------------------------
scriptState == <<script, replays, tried, unsent, outdated>>

AnnounceNext ==
  /\ announced < MaxVersion
  /\ announced' = announced + 1
  /\ fastQueue' = Append(fastQueue, announced')
  /\ fetchQueue' = Append(fetchQueue, announced')
  /\ UNCHANGED <<fullQueue, stored, dlq, scriptState, noFullText>>

DocOf(v, source) == [id |-> ThePaper, version |-> v, source |-> source]
StoreDoc(doc) == stored' = IF Refused(stored, doc) THEN stored ELSE Upserted(stored, doc, 0)

FailWith(stage, kind, doc) ==
  /\ Len(dlq) < MaxFailures
  /\ dlq' = Append(dlq, [stage |-> stage,
                         payload |-> [kind |-> kind, version |-> doc.version, source |-> doc.source]])

FastHandles(fails) ==
  /\ fastQueue # <<>>
  /\ fastQueue' = Tail(fastQueue)
  /\ LET doc == DocOf(Head(fastQueue), "abstract")
     IN  IF fails THEN FailWith("worker", "paper", doc) /\ UNCHANGED stored
         ELSE StoreDoc(doc) /\ UNCHANGED dlq
  /\ UNCHANGED <<announced, fetchQueue, fullQueue, scriptState, noFullText>>

FetcherChunks(source) ==
  /\ fetchQueue # <<>>
  /\ fetchQueue' = Tail(fetchQueue)
  /\ fullQueue' = Append(fullQueue, DocOf(Head(fetchQueue), source))
  /\ noFullText' = (noFullText \/ source = "abstract")
  /\ UNCHANGED <<announced, fastQueue, stored, dlq, scriptState>>

FetcherGivesUp ==
  /\ fetchQueue # <<>>
  /\ fetchQueue' = Tail(fetchQueue)
  /\ FailWith("fetcher", "paper", DocOf(Head(fetchQueue), "abstract"))
  /\ UNCHANGED <<announced, fastQueue, fullQueue, stored, scriptState, noFullText>>

FullHandles(fails) ==
  /\ fullQueue # <<>>
  /\ fullQueue' = Tail(fullQueue)
  /\ IF fails THEN FailWith("worker", "chunked", Head(fullQueue)) /\ UNCHANGED stored
     ELSE StoreDoc(Head(fullQueue)) /\ UNCHANGED dlq
  /\ UNCHANGED <<announced, fastQueue, fetchQueue, scriptState, noFullText>>

-----------------------------------------------------------------------------
\* read_all: up to the end of the topic, or to where the broker was silent for 5 s.
ReadFailures ==
  /\ script.at = "idle" /\ replays < MaxReplays
  /\ \E read \in 1..Len(dlq) : script' = [at |-> "plan", read |-> read]
  /\ replays' = replays + 1
  /\ UNCHANGED <<announced, queues, stored, dlq, tried, unsent, outdated, noFullText>>

\* Mutant: a row of the version is enough, though it has no full text.
StoredAtAll(failure) == stored.version >= failure.payload.version

\* An abstract will do for a failure of the fast worker.
AsksFullText(failure) == failure.payload.kind # "paper" \/ failure.stage # "worker"

AsksMore(failure, other) ==
  \/ failure.payload.version > other.payload.version
  \/ AsksFullText(failure) /\ ~AsksFullText(other)

\* "stored properly"
Resolved(failure) ==
  /\ stored.version >= failure.payload.version
  /\ AsksFullText(failure) => stored.source # "abstract"

PlanReplay ==
  /\ script.at = "plan"
  /\ IF Resolved(dlq[script.read])
     THEN script' = [script EXCEPT !.at = "idle"] /\ tried' = script.read
     ELSE script' = [script EXCEPT !.at = "apply"] /\ UNCHANGED tried
  /\ UNCHANGED <<announced, queues, stored, dlq, replays, unsent, outdated, noFullText>>

ApplyReplay ==
  /\ script.at = "apply"
  /\ LET p == dlq[script.read].payload
     IN  IF p.kind = "chunked"
         THEN /\ fullQueue' = Append(fullQueue, DocOf(p.version, p.source))
              /\ UNCHANGED <<fastQueue, fetchQueue>>
         ELSE /\ fastQueue' = Append(fastQueue, p.version)
              /\ fetchQueue' = Append(fetchQueue, p.version)
              /\ UNCHANGED fullQueue
  /\ script' = [script EXCEPT !.at = "idle"]
  /\ tried' = script.read
  /\ outdated' = (outdated \/ dlq[script.read].payload.version < announced)
  /\ UNCHANGED <<announced, stored, dlq, replays, unsent, noFullText>>

\* The broker does not take it within flush(30), which reports "replayed" as well.
ReplayUnsent ==
  /\ script.at = "apply"
  /\ script' = [script EXCEPT !.at = "idle"]
  /\ tried' = script.read
  /\ unsent' = TRUE
  /\ UNCHANGED <<announced, queues, stored, dlq, replays, outdated, noFullText>>

ScriptDies ==
  /\ script.at # "idle"
  /\ script' = [script EXCEPT !.at = "idle"]
  /\ UNCHANGED <<announced, queues, stored, dlq, replays, tried, unsent, outdated, noFullText>>

\* Nothing is left to do once every queue is empty: somebody may still look.
ReplayIdles == script.at = "idle" /\ UNCHANGED replayVars

ReplayNext ==
  \/ AnnounceNext
  \/ \E fails \in BOOLEAN : FastHandles(fails) \/ FullHandles(fails)
  \/ \E source \in Source : FetcherChunks(source)
  \/ FetcherGivesUp
  \/ ReadFailures \/ PlanReplay \/ ApplyReplay \/ ReplayUnsent \/ ScriptDies
  \/ ReplayIdles

ReplaySpec == ReplayInit /\ [][ReplayNext]_replayVars

-----------------------------------------------------------------------------
\* Replays settle a paper: once a run has dealt with the latest failure and the
\* workers have read everything without another one, the database has what every
\* failure asks for.  It may not if a run's message was lost, if the paper has no
\* full text, if a run replayed a version older than one announced, which takes
\* the newer one's place, or if the latest failure, the only one looked at, asks
\* for less than an earlier one.
ReplaySettles ==
  /\ queues = <<<<>>, <<>>, <<>>>> /\ dlq # <<>> /\ tried = Len(dlq)
  /\ ~unsent /\ ~noFullText /\ ~outdated
  /\ \A i \in DOMAIN dlq : ~AsksMore(dlq[i], dlq[tried])
  => \A i \in DOMAIN dlq : Resolved(dlq[i])
=============================================================================
