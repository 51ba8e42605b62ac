-------------------------------- MODULE Ingest -------------------------------
(***************************************************************************)
(* The pipeline behind papers.new: the fetcher turns announcements into    *)
(* chunked documents on papers.chunked, the fast path (worker-abstract)    *)
(* stores announcements as abstract-only rows, the full-text worker stores *)
(* chunked documents, and whatever keeps failing goes to papers.failed.    *)
(*                                                                         *)
(* A topic is one partition: records of one paper share a partition and    *)
(* offsets are per partition.  Every group is at-least-once: it commits a  *)
(* message after handling it, starts over at the committed offset after a  *)
(* crash, and may be moved to another instance while the old one is still  *)
(* busy (max.poll.interval.ms).                                            *)
(***************************************************************************)
EXTENDS PaperStore, Sequences

CONSTANTS
  Instance,      \* consumer processes, pairs <<group, n>>
  MaxAttempts,   \* attempts at one message, MAX_ATTEMPTS
  MaxMessages,   \* bound on the announcements
  MaxFaults,     \* bound on the injected faults
  Faults,        \* the kinds of fault that may be injected
  Unservable,    \* papers whose text makes the inference server answer 5xx
  Summarizing    \* whether the full-text worker summarizes; both truth values
                 \* if the setting differs between restarts or instances

Group == {"fetcher", "fast", "full"}

FaultKinds == {"crash", "commitFails", "rebalance", "ambiguous", "dlqLost",
               "poison", "anyOrder"}

GroupOf(i) == i[1]

ASSUME InstanceAssumption == Instance \subseteq Group \X Nat

ASSUME BoundAssumption ==
  MaxAttempts \in Nat \ {0} /\ MaxMessages \in Nat /\ MaxFaults \in Nat

ASSUME FaultAssumption == Faults \subseteq FaultKinds /\ Unservable \subseteq Paper

ASSUME SummaryAssumption == Summarizing \subseteq BOOLEAN

VARIABLES
  new,        \* papers.new
  chunked,    \* papers.chunked
  failed,     \* papers.failed: what failed, at which stage
  row,        \* table papers
  chunks,     \* table chunks: the text each paper's passages come from
  owner,      \* the instance the group's partition is assigned to
  pos,        \* offset delivered last to the owner
  committed,  \* offset committed last
  pc,         \* what an instance is doing
  cur,        \* the offset it is handling
  attempt,    \* its attempt at it
  done,       \* history: offsets with an outcome (stored, skipped, chunked
              \* or acknowledged by papers.failed), per group
  faults      \* faults injected so far

topics == <<new, chunked, failed>>
tables == <<row, chunks>>
offsets == <<owner, pos, committed>>
vars == <<topics, tables, offsets, pc, cur, attempt, done, faults>>

Message == [id : Paper, version : Version, valid : BOOLEAN]
Failure == [id : Paper, version : Version, stage : Group]
Busy == {"work", "write", "dead", "commit"}

Log(g) == IF g = "full" THEN chunked ELSE new
InstancesOf(g) == {i \in Instance : GroupOf(i) = g}

TypeOK ==
  /\ new \in Seq(Message)
  /\ chunked \in Seq(Doc)
  /\ failed \subseteq Failure
  /\ row \in [Paper -> Row]
  /\ chunks \in [Paper -> Text]
  /\ owner \in [Group -> Instance]
  /\ pos \in [Group -> Nat]
  /\ committed \in [Group -> Nat]
  /\ pc \in [Instance -> Busy \cup {"idle", "down"}]
  /\ cur \in [Instance -> Nat]
  /\ attempt \in [Instance -> 1..MaxAttempts]
  /\ done \in [Group -> SUBSET Nat]
  /\ faults \in 0..MaxFaults

Init ==
  /\ new = <<>> /\ chunked = <<>> /\ failed = {}
  /\ row = [p \in Paper |-> NoRow]
  /\ chunks = [p \in Paper |-> NoText]
  /\ owner \in [Group -> Instance]
  /\ \A g \in Group : GroupOf(owner[g]) = g
  /\ pos = [g \in Group |-> 0]
  /\ committed = [g \in Group |-> 0]
  /\ pc = [i \in Instance |-> "idle"]
  /\ cur = [i \in Instance |-> 0]
  /\ attempt = [i \in Instance |-> 1]
  /\ done = [g \in Group |-> {}]
  /\ faults = 0

-----------------------------------------------------------------------------
Goto(i, l) == pc' = [pc EXCEPT ![i] = l]
Inject(kind) == kind \in Faults /\ faults < MaxFaults /\ faults' = faults + 1

\* The message an instance is handling, as a document: an announcement is the
\* abstract of its paper.
Handled(i) ==
  IF GroupOf(i) = "full" THEN chunked[cur[i]]
  ELSE [id |-> new[cur[i]].id, version |-> new[cur[i]].version,
        source |-> "abstract"]

Valid(i) == IF GroupOf(i) = "full" THEN TRUE ELSE new[cur[i]].valid

\* Its handling has reached an outcome.
Finish(i) == done' = [done EXCEPT ![GroupOf(i)] = @ \cup {cur[i]}]

\* A producer puts an announcement on papers.new.  The poller announces the
\* versions of a paper in order, possibly more than once; a replay, a backfill
\* or a group that starts over can bring an older version again.
Announce(p, v, valid) ==
  /\ Len(new) < MaxMessages
  /\ valid \/ "poison" \in Faults
  /\ "anyOrder" \in Faults \/ \A n \in DOMAIN new : new[n].id = p => new[n].version <= v
  /\ new' = Append(new, [id |-> p, version |-> v, valid |-> valid])
  /\ UNCHANGED <<chunked, failed, tables, offsets, pc, cur, attempt, done, faults>>

\* recv/poll: the owner is handed its group's next message.
Poll(i) ==
  LET g == GroupOf(i) IN
  /\ pc[i] = "idle" /\ owner[g] = i
  /\ pos[g] < Len(Log(g))
  /\ pos' = [pos EXCEPT ![g] = @ + 1]
  /\ cur' = [cur EXCEPT ![i] = pos[g] + 1]
  /\ attempt' = [attempt EXCEPT ![i] = 1]
  /\ Goto(i, "work")
  /\ UNCHANGED <<topics, tables, owner, committed, done, faults>>

\* A message that does not parse is dead-lettered at once.
Poison(i) ==
  /\ pc[i] = "work" /\ ~Valid(i)
  /\ Goto(i, "dead")
  /\ UNCHANGED <<topics, tables, offsets, cur, attempt, done, faults>>

-----------------------------------------------------------------------------
\* Fetcher: full text was found and chunked, or the paper has none, and the
\* document was acknowledged by papers.chunked.
Chunk(i, source) ==
  /\ GroupOf(i) = "fetcher"
  /\ pc[i] = "work" /\ Valid(i)
  /\ chunked' = Append(chunked, [Handled(i) EXCEPT !.source = source])
  /\ Finish(i)
  /\ Goto(i, "commit")
  /\ UNCHANGED <<new, failed, tables, offsets, cur, attempt, faults>>

\* Mutant: the loop makes one attempt more than it should.
RetryOnceMore(i) ==
  IF attempt[i] <= MaxAttempts
  THEN Goto(i, "work") /\ attempt' = [attempt EXCEPT ![i] = @ + 1]
  ELSE Goto(i, "dead") /\ UNCHANGED attempt

\* Mutant: an exhausted retry loop forgets the dead letter.
GiveUpSilently(i) ==
  IF attempt[i] < MaxAttempts
  THEN Goto(i, "work") /\ attempt' = [attempt EXCEPT ![i] = @ + 1]
  ELSE Goto(i, "commit") /\ UNCHANGED attempt

\* Mutant: the attempts are not counted.
RetryForever(i) == Goto(i, "work") /\ UNCHANGED attempt

\* The attempt at hand failed: try again or give the message up.
FailAttempt(i) ==
  IF attempt[i] < MaxAttempts
  THEN Goto(i, "work") /\ attempt' = [attempt EXCEPT ![i] = @ + 1]
  ELSE Goto(i, "dead") /\ UNCHANGED attempt

\* Fetcher: the send to papers.chunked reports an error (30 s timeout) though
\* the record was written.
ChunkAmbiguous(i, source) ==
  /\ GroupOf(i) = "fetcher"
  /\ pc[i] = "work" /\ Valid(i)
  /\ Inject("ambiguous")
  /\ chunked' = Append(chunked, [Handled(i) EXCEPT !.source = source])
  /\ FailAttempt(i)
  /\ UNCHANGED <<new, failed, tables, offsets, cur, done>>

\* Network, tool, inference (4xx) and database errors: nothing was changed.
AttemptFails(i) ==
  /\ pc[i] \in {"work", "write"} /\ Valid(i)
  /\ FailAttempt(i)
  /\ UNCHANGED <<topics, tables, offsets, cur, done, faults>>

-----------------------------------------------------------------------------
\* Mutant: the check asks for full text of any version.
SkipAnyFullText(i) ==
  Handled(i).source = "abstract" /\ row[Handled(i).id].source = "full"

\* process(): an abstract whose row already has full text needs no embedding.
Superfluous(i) ==
  Handled(i).source = "abstract"
  /\ HasFullText(row[Handled(i).id], Handled(i).version)

\* Worker: has_full_text says skip.
Skip(i) ==
  /\ GroupOf(i) # "fetcher"
  /\ pc[i] = "work" /\ Valid(i)
  /\ Superfluous(i)
  /\ Finish(i)
  /\ Goto(i, "commit")
  /\ UNCHANGED <<topics, tables, offsets, cur, attempt, faults>>

\* Worker: the chunks are embedded (and summarized) and the upsert is next;
\* what has_full_text read may be stale by then.
Embed(i) ==
  /\ GroupOf(i) # "fetcher"
  /\ pc[i] = "work" /\ Valid(i)
  /\ ~Superfluous(i)
  /\ Handled(i).id \notin Unservable
  /\ Goto(i, "write")
  /\ UNCHANGED <<topics, tables, offsets, cur, attempt, done, faults>>

\* Worker: the server keeps answering 5xx.  The client re-raises the httpx
\* error, which _handle does not catch: the process dies.
EmbedCrashes(i) ==
  /\ GroupOf(i) # "fetcher"
  /\ pc[i] = "work" /\ Valid(i)
  /\ ~Superfluous(i)
  /\ Handled(i).id \in Unservable
  /\ Goto(i, "down")
  /\ UNCHANGED <<topics, tables, offsets, cur, attempt, done, faults>>

\* Mutant: the old passages stay when the paper was already full text.
KeepFullChunks(doc) ==
  chunks' = IF row[doc.id].source = "full" THEN chunks
            ELSE [chunks EXCEPT ![doc.id] = TextOf(doc)]

\* DELETE FROM chunks, then insert the document's own.
ReplaceChunks(doc) == chunks' = [chunks EXCEPT ![doc.id] = TextOf(doc)]

\* What a worker passes on as the summary: the fast path runs with --no-summary,
\* the full-text worker makes one unless SUMMARY_ENABLED is off.
NewSummary(i, enabled) ==
  IF GroupOf(i) = "full" /\ enabled THEN Handled(i).version ELSE 0

\* upsert_paper: one transaction on the paper's row and passages.
Upsert(i) ==
  \E enabled \in Summarizing :
    LET doc == Handled(i) IN
    IF Refused(row[doc.id], doc)
    THEN UNCHANGED tables
    ELSE /\ row' = [row EXCEPT ![doc.id] =
                     Upserted(row[doc.id], doc, NewSummary(i, enabled))]
         /\ ReplaceChunks(doc)

\* Worker: stored or, if the upsert was refused, skipped.
Store(i) ==
  /\ pc[i] = "write"
  /\ Upsert(i)
  /\ Finish(i)
  /\ Goto(i, "commit")
  /\ UNCHANGED <<topics, offsets, cur, attempt, faults>>

\* Worker: the connection broke at COMMIT, after the server had committed.
StoreAmbiguous(i) ==
  /\ pc[i] = "write"
  /\ Inject("ambiguous")
  /\ Upsert(i)
  /\ FailAttempt(i)
  /\ UNCHANGED <<topics, offsets, cur, done>>

-----------------------------------------------------------------------------
\* The message goes to papers.failed with its original payload.
DeadLetter(i) ==
  /\ pc[i] = "dead"
  /\ failed' = failed \cup {[id |-> Handled(i).id, version |-> Handled(i).version,
                             stage |-> GroupOf(i)]}
  /\ Finish(i)
  /\ Goto(i, "commit")
  /\ UNCHANGED <<new, chunked, tables, offsets, cur, attempt, faults>>

\* The broker does not take the record: the fetcher logs it, the worker does
\* not look (flush), and both go on to commit.
DeadLetterLost(i) ==
  /\ pc[i] = "dead"
  /\ Inject("dlqLost")
  /\ Goto(i, "commit")
  /\ UNCHANGED <<topics, tables, offsets, cur, attempt, done>>

\* Mutant: the commit of an evicted instance is taken.
CommitAnyway(i) == committed' = [committed EXCEPT ![GroupOf(i)] = cur[i]]

\* The broker takes a commit from the partition's owner only.
CommitOffset(i) ==
  IF owner[GroupOf(i)] = i
  THEN committed' = [committed EXCEPT ![GroupOf(i)] = cur[i]]
  ELSE UNCHANGED committed

Commit(i) ==
  /\ pc[i] = "commit"
  /\ CommitOffset(i)
  /\ Goto(i, "idle")
  /\ UNCHANGED <<topics, tables, owner, pos, cur, attempt, done, faults>>

\* A failed commit is logged and the loop goes on with the next message.
CommitFails(i) ==
  /\ pc[i] = "commit"
  /\ Inject("commitFails")
  /\ Goto(i, "idle")
  /\ UNCHANGED <<topics, tables, offsets, cur, attempt, done>>

-----------------------------------------------------------------------------
Crash(i) ==
  /\ pc[i] # "down"
  /\ Inject("crash")
  /\ Goto(i, "down")
  /\ UNCHANGED <<topics, tables, offsets, cur, attempt, done>>

\* Mutant: a restarted consumer goes on where the dead one stopped reading.
StayAt(g) == UNCHANGED pos

\* A (re)assigned partition is read from its committed offset.
Rewind(g) == pos' = [pos EXCEPT ![g] = committed[g]]

\* restart: unless-stopped.
Restart(i) ==
  /\ pc[i] = "down"
  /\ Goto(i, "idle")
  /\ IF owner[GroupOf(i)] = i THEN Rewind(GroupOf(i)) ELSE UNCHANGED pos
  /\ UNCHANGED <<topics, tables, owner, committed, cur, attempt, done, faults>>

\* The group moves to another of its instances; a busy old owner finishes the
\* message it holds.
Rebalance(i) ==
  LET g == GroupOf(i) IN
  /\ pc[i] = "idle" /\ owner[g] # i
  /\ Inject("rebalance")
  /\ owner' = [owner EXCEPT ![g] = i]
  /\ Rewind(g)
  /\ UNCHANGED <<topics, tables, committed, pc, cur, attempt, done>>

\* One message on its way through an instance.
Step(i) ==
  \/ Poll(i) \/ Poison(i)
  \/ \E source \in Source : Chunk(i, source)
  \/ Skip(i) \/ Embed(i) \/ EmbedCrashes(i) \/ Store(i)
  \/ AttemptFails(i) \/ DeadLetter(i) \/ Commit(i) \/ Restart(i)

Fault(i) ==
  \/ \E source \in Source : ChunkAmbiguous(i, source)
  \/ StoreAmbiguous(i) \/ DeadLetterLost(i) \/ CommitFails(i)
  \/ Crash(i) \/ Rebalance(i)

Next ==
  \/ \E p \in Paper, v \in Version, valid \in BOOLEAN : Announce(p, v, valid)
  \/ \E i \in Instance : Step(i) \/ Fault(i)

Spec == Init /\ [][Next]_vars

\* Every process keeps running: its loop never rests on a message and compose
\* restarts it when it dies.  Producers and faults are not fair.
FairSpec == Spec /\ \A i \in Instance : WF_vars(Step(i))

-----------------------------------------------------------------------------
\* No step turns a full-text row into an abstract of the same or an older
\* version, however the two workers interleave (upsert_paper's docstring: "the
\* fast path never downgrades the slow path's work").
FastPathNeverDowngrades ==
  [][\A p \in Paper :
       row[p].source = "full" /\ row'[p].source = "abstract" =>
         row'[p].version > row[p].version]_vars

\* A paper's passages always come from the document its row describes.
RowMatchesChunks ==
  \A p \in Paper :
    [version |-> row[p].version, source |-> row[p].source] = chunks[p]

\* What a group has committed has an outcome: stored, skipped, chunked or kept
\* on papers.failed.  README: "Messages that keep failing land on papers.failed".
NoSilentLoss == \A g \in Group : 1..committed[g] \subseteq done[g]

\* The group has handled and committed its whole topic.
CaughtUp(g) ==
  /\ committed[g] = Len(Log(g))
  /\ \A i \in InstancesOf(g) : pc[i] \in {"idle", "down"}

Announced(p) == {new[n].version : n \in {k \in DOMAIN new : new[k].id = p}}
NeverFailed(p) == \A f \in failed : f.id # p
Settled == \A g \in Group : CaughtUp(g)

\* Once every group has caught up, a paper none of whose messages failed is in
\* the index at the latest announced version, and with full text if the fetcher
\* last produced some: the two paths converge however they interleaved and
\* whatever was delivered twice.  DECISIONS 20: "Search reflects the latest
\* version"; DECISIONS 30: "Either topic may be replayed in any order".
SettledOnLatest ==
  Settled =>
    \A p \in Paper : Announced(p) # {} /\ NeverFailed(p) =>
      /\ \A v \in Announced(p) : v <= row[p].version
      /\ \A n \in DOMAIN chunked :
           /\ chunked[n].id = p /\ chunked[n].source = "full"
           /\ \A k \in DOMAIN chunked : chunked[k].id = p => k <= n
           => row[p].source = "full"

\* With summaries on, a paper then also carries the summary of the version it is
\* at, although the fast path brings none and the upsert's COALESCE keeps whatever
\* the row had: no order of the two workers leaves an older one in place (the
\* 2-3 sentence summary of README's step 4).
SettledOnOwnSummary ==
  Settled =>
    \A p \in Paper : Announced(p) # {} /\ NeverFailed(p) =>
      row[p].summary = row[p].version

\* The next message the group has to commit is of a paper whose embedding kills
\* the worker.  The fetcher embeds nothing.
AtUnservable(g) ==
  /\ g # "fetcher" /\ committed[g] < Len(Log(g))
  /\ Log(g)[committed[g] + 1].id \in Unservable

\* DECISIONS 11, "No message blocks a partition", but for one: announcements being
\* bounded, every group ends up with its whole topic committed, also when it has to
\* start over or its dead letter is lost, or before an Unservable paper.  Nothing
\* else holds a group up, and what blocks one group leaves the others going.
OnlyUnservableBlocks ==
  \A g \in Group : []<>(committed[g] = Len(Log(g)) \/ AtUnservable(g))

\* Each group implements the at-least-once consumer: commits only move forward
\* and only over messages with an outcome, whoever crashes or is evicted.
\* DECISIONS 9: "At-least-once everywhere".
FetcherConsumer == INSTANCE AtLeastOnce WITH
  size <- Len(new), finished <- done["fetcher"], committed <- committed["fetcher"]
FastConsumer == INSTANCE AtLeastOnce WITH
  size <- Len(new), finished <- done["fast"], committed <- committed["fast"]
FullConsumer == INSTANCE AtLeastOnce WITH
  size <- Len(chunked), finished <- done["full"], committed <- committed["full"]

ConsumersAtLeastOnce == FetcherConsumer!Spec /\ FastConsumer!Spec /\ FullConsumer!Spec
=============================================================================
