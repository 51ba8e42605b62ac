----------------------------- MODULE IngestProofs ----------------------------
(***************************************************************************)
(* The pipeline for any number of papers, versions, instances, messages    *)
(* and faults: types, what the two workers guarantee of the tables, that   *)
(* no committed message is lost as long as papers.failed takes its dead    *)
(* letters, and that a paper whose versions have been read settles on the  *)
(* latest, with the summary of that version where summaries are on, as     *)
(* long as the topics keep their order and no instance works on after its  *)
(* group has been rebalanced.                                              *)
(***************************************************************************)
EXTENDS Ingest, TLAPS

\* Whoever handles a message handles one of its group's topic, and offsets
\* stay within the topics.
OffsetsOK ==
  /\ \A i \in Instance : pc[i] \in Busy => cur[i] \in 1..Len(Log(GroupOf(i)))
  /\ \A g \in Group : pos[g] <= Len(Log(g))
  /\ \A g \in Group : committed[g] <= Len(Log(g))
  /\ \A g \in Group : GroupOf(owner[g]) = g
  /\ \A g \in Group : done[g] \subseteq 1..Len(Log(g))

TypeInv == TypeOK /\ OffsetsOK

\* Full text carries the summary of its own version.
FullTextHasOwnSummary ==
  \A p \in Paper : row[p].source = "full" => row[p].summary = row[p].version

\* What the row says of the paper's text is what the passages come from, and, if
\* the full-text worker always summarizes, what its summary is of.
TablesInv ==
  RowMatchesChunks /\ (FALSE \notin Summarizing => FullTextHasOwnSummary)

\* Everything up to the owner's position has an outcome, except the message
\* the owner is handling.  A dead owner reads again from the committed offset.
NothingSkipped ==
  \A g \in Group :
    /\ pc[owner[g]] = "idle" => 1..pos[g] \subseteq done[g]
    /\ pc[owner[g]] \in Busy =>
         cur[owner[g]] = pos[g] /\ 1..(pos[g] - 1) \subseteq done[g]

\* A message about to be committed has an outcome.
CommitsOutcomes ==
  \A i \in Instance : pc[i] = "commit" => cur[i] \in done[GroupOf(i)]

\* A group's owner never has more committed than it was delivered, and not yet
\* the message it is handling.
CommitsBehind ==
  \A g \in Group :
    /\ committed[g] <= pos[g]
    /\ pc[owner[g]] \in Busy => committed[g] < pos[g]

LossInv == NoSilentLoss /\ NothingSkipped /\ CommitsOutcomes

-----------------------------------------------------------------------------
\* Every instance belongs to a group.
LEMMA GroupOfInstance == \A i \in Instance : GroupOf(i) \in Group
  BY InstanceAssumption DEF GroupOf

\* A busy instance holds a well-formed document.
LEMMA HandledDoc ==
  ASSUME TypeInv, NEW i \in Instance, pc[i] \in Busy
  PROVE  Handled(i) \in Doc
<1>1. cur[i] \in 1..Len(Log(GroupOf(i)))
  BY DEF TypeInv, OffsetsOK
<1>2. CASE GroupOf(i) = "full"
  BY <1>1, <1>2 DEF Handled, Log, TypeInv, TypeOK
<1>3. CASE GroupOf(i) # "full"
  <2>1. new[cur[i]] \in Message
    BY <1>1, <1>3 DEF Log, TypeInv, TypeOK
  <2> QED
    BY <1>3, <2>1 DEF Handled, Message, Doc, Source
<1> QED
  BY <1>2, <1>3

\* An upsert is refused, or writes the row and the passages with some summary.
LEMMA UpsertCases ==
  ASSUME TypeInv, NEW i \in Instance, pc[i] \in Busy, Upsert(i)
  PROVE  \/ Refused(row[Handled(i).id], Handled(i)) /\ row' = row /\ chunks' = chunks
         \/ /\ ~Refused(row[Handled(i).id], Handled(i))
            /\ ReplaceChunks(Handled(i))
            /\ \E summary \in 0..MaxVersion :
                 /\ row' = [row EXCEPT ![Handled(i).id] =
                              Upserted(row[Handled(i).id], Handled(i), summary)]
                 /\ GroupOf(i) # "full" => summary = 0
                 /\ GroupOf(i) = "full" /\ FALSE \notin Summarizing =>
                      summary = Handled(i).version
<1>1. Handled(i).version \in 1..MaxVersion
  BY HandledDoc DEF Doc, Version
<1>2. PICK enabled \in Summarizing :
        IF Refused(row[Handled(i).id], Handled(i))
        THEN UNCHANGED tables
        ELSE /\ row' = [row EXCEPT ![Handled(i).id] =
                         Upserted(row[Handled(i).id], Handled(i), NewSummary(i, enabled))]
             /\ ReplaceChunks(Handled(i))
  BY DEF Upsert
<1>3. CASE Refused(row[Handled(i).id], Handled(i))
  BY <1>2, <1>3 DEF tables
<1>4. CASE ~Refused(row[Handled(i).id], Handled(i))
  <2> DEFINE brought == NewSummary(i, enabled)
  <2>1. /\ brought \in 0..MaxVersion
        /\ GroupOf(i) # "full" => brought = 0
    BY <1>1, MaxVersionAssumption DEF NewSummary
  <2>2. GroupOf(i) = "full" /\ FALSE \notin Summarizing => brought = Handled(i).version
    <3>1. FALSE \notin Summarizing => enabled = TRUE
      BY SummaryAssumption
    <3> QED
      BY <3>1 DEF NewSummary
  <2> QED
    BY <1>2, <1>4, <2>1, <2>2
<1> QED
  BY <1>3, <1>4

\* An upsert leaves well-formed rows and passages (upsert_paper).
LEMMA UpsertTypes ==
  ASSUME TypeInv, NEW i \in Instance, pc[i] \in Busy, Upsert(i)
  PROVE  row' \in [Paper -> Row] /\ chunks' \in [Paper -> Text]
<1> DEFINE doc == Handled(i)
<1>1. doc \in Doc
  BY HandledDoc
<1>2. CASE row' = row /\ chunks' = chunks
  BY <1>2 DEF TypeInv, TypeOK
<1>3. row[doc.id] \in Row
  BY <1>1 DEF Doc, TypeInv, TypeOK
<1>4. row[doc.id].summary \in 0..MaxVersion
  BY <1>3, MaxVersionAssumption DEF Row, NoRow
<1>5. \A summary \in 0..MaxVersion : Upserted(row[doc.id], doc, summary) \in Row
  BY <1>1, <1>4 DEF Upserted, MergedSummary, Row, Doc, TextOf
<1>6. TextOf(doc) \in Text
  BY <1>1 DEF TextOf, Text, Doc
<1>7. ASSUME NEW summary \in 0..MaxVersion,
             row' = [row EXCEPT ![doc.id] = Upserted(row[doc.id], doc, summary)],
             ReplaceChunks(doc)
      PROVE  row' \in [Paper -> Row] /\ chunks' \in [Paper -> Text]
  BY <1>5, <1>6, <1>7 DEF ReplaceChunks, TypeInv, TypeOK
<1> QED
  BY <1>2, <1>7, UpsertCases

\* A failed attempt keeps the program counters and attempt counters in range.
LEMMA FailAttemptTypes ==
  ASSUME TypeOK, NEW i \in Instance, FailAttempt(i)
  PROVE  /\ attempt' \in [Instance -> 1..MaxAttempts]
         /\ \/ pc' = [pc EXCEPT ![i] = "work"]
            \/ pc' = [pc EXCEPT ![i] = "dead"]
  BY BoundAssumption DEF FailAttempt, Goto, TypeOK

\* An injected fault stays within the bound on faults.
LEMMA InjectTypes ==
  ASSUME TypeOK, NEW kind, Inject(kind)
  PROVE  faults' \in 0..MaxFaults
  BY BoundAssumption DEF Inject, TypeOK

\* Recording an outcome keeps the history well typed.
LEMMA FinishTypes ==
  ASSUME TypeOK, NEW i \in Instance, UNCHANGED done \/ Finish(i)
  PROVE  done' \in [Group -> SUBSET Nat]
<1>1. CASE UNCHANGED done
  BY <1>1 DEF TypeOK
<1>2. CASE Finish(i)
  <2>1. done[GroupOf(i)] \cup {cur[i]} \in SUBSET Nat
    BY GroupOfInstance DEF TypeOK
  <2> QED
    BY <1>2, <2>1, GroupOfInstance DEF TypeOK, Finish
<1> QED
  BY <1>1, <1>2

\* A step of one instance that leaves the logs and the offsets alone.
LEMMA LocalStep ==
  ASSUME TypeInv, NEW i \in Instance, NEW l \in Busy \cup {"idle", "down"},
         pc[i] \in Busy \/ l \notin Busy,
         Goto(i, l), UNCHANGED <<new, chunked, offsets, cur>>,
         UNCHANGED done \/ (pc[i] \in Busy /\ Finish(i))
  PROVE  /\ OffsetsOK'
         /\ pc' \in [Instance -> Busy \cup {"idle", "down"}]
         /\ done' \in [Group -> SUBSET Nat]
<1> USE DEF TypeInv, TypeOK, offsets
<1>1. \A g \in Group : Log(g)' = Log(g)
  BY DEF Log
<1>2. \A j \in Instance : pc'[j] \in Busy => pc[j] \in Busy
  BY DEF Goto
<1>3. done' \in [Group -> SUBSET Nat]
  BY FinishTypes
<1>4. \A g \in Group : done'[g] \subseteq 1..Len(Log(g))
  <2>1. CASE UNCHANGED done
    BY <2>1 DEF OffsetsOK
  <2>2. CASE pc[i] \in Busy /\ Finish(i)
    <3>1. cur[i] \in 1..Len(Log(GroupOf(i)))
      BY <2>2 DEF OffsetsOK
    <3> QED
      BY <2>2, <3>1, GroupOfInstance DEF Finish, OffsetsOK
  <2> QED
    BY <2>1, <2>2
<1>5. pc' \in [Instance -> Busy \cup {"idle", "down"}]
  BY DEF Goto
<1> QED
  BY <1>1, <1>2, <1>3, <1>4, <1>5, GroupOfInstance DEF OffsetsOK

\* A topic that grows keeps every offset within it.
LEMMA LogGrows ==
  ASSUME TypeInv, NEW i \in Instance,
         \A g \in Group : Len(Log(g)) \in Nat /\ Len(Log(g)') \in Nat
                            /\ Len(Log(g)) <= Len(Log(g)'),
         \A j \in Instance : pc'[j] \in Busy => pc[j] \in Busy,
         UNCHANGED <<offsets, cur>>,
         \/ UNCHANGED done
         \/ pc[i] \in Busy /\ Finish(i)
  PROVE  OffsetsOK' /\ done' \in [Group -> SUBSET Nat]
<1> USE DEF TypeInv, TypeOK, offsets
<1>1. done' \in [Group -> SUBSET Nat]
  BY FinishTypes
<1>2. \A g \in Group : done'[g] \subseteq 1..Len(Log(g))
  <2>1. CASE UNCHANGED done
    BY <2>1 DEF OffsetsOK
  <2>2. CASE pc[i] \in Busy /\ Finish(i)
    <3>1. cur[i] \in 1..Len(Log(GroupOf(i)))
      BY <2>2 DEF OffsetsOK
    <3> QED
      BY <2>2, <3>1, GroupOfInstance DEF Finish, OffsetsOK
  <2> QED
    BY <2>1, <2>2
<1>3. \A g \in Group : 1..Len(Log(g)) \subseteq 1..Len(Log(g)')
  OBVIOUS
<1>4. \A g \in Group : done'[g] \subseteq 1..Len(Log(g)')
  BY <1>2, <1>3
<1>5. \A j \in Instance : pc'[j] \in Busy => cur'[j] \in 1..Len(Log(GroupOf(j))')
  BY <1>3, GroupOfInstance DEF OffsetsOK
<1>6. \A g \in Group : pos'[g] <= Len(Log(g)') /\ committed'[g] <= Len(Log(g)')
  BY DEF OffsetsOK
<1>7. \A g \in Group : GroupOf(owner'[g]) = g
  BY DEF OffsetsOK
<1> QED
  BY <1>1, <1>4, <1>5, <1>6, <1>7 DEF OffsetsOK, GroupOf

-----------------------------------------------------------------------------
\* The type invariant holds initially.
LEMMA TypeInit == Init => TypeInv
<1> SUFFICES ASSUME Init PROVE TypeInv
  OBVIOUS
<1> USE DEF Init
<1>1. TypeOK
  <2>1. row \in [Paper -> Row] /\ chunks \in [Paper -> Text]
    BY DEF Row, Text
  <2>2. attempt \in [Instance -> 1..MaxAttempts] /\ faults \in 0..MaxFaults
    BY BoundAssumption
  <2>3. new \in Seq(Message) /\ chunked \in Seq(Doc) /\ failed \subseteq Failure
    OBVIOUS
  <2>4. done \in [Group -> SUBSET Nat]
    OBVIOUS
  <2> QED
    BY <2>1, <2>2, <2>3, <2>4 DEF TypeOK
<1>2. OffsetsOK
  BY DEF OffsetsOK, Busy, Log
<1> QED
  BY <1>1, <1>2 DEF TypeInv

\* Only the announcing of messages lengthens papers.new.
LEMMA AnnounceTypes ==
  ASSUME TypeInv, NEW p \in Paper, NEW v \in Version, NEW valid \in BOOLEAN,
         Announce(p, v, valid)
  PROVE  TypeInv'
<1> USE DEF Announce
<1>1. new' \in Seq(Message) /\ Len(new') = Len(new) + 1
  BY DEF Message, TypeInv, TypeOK
<1>2. TypeOK'
  BY <1>1 DEF TypeInv, TypeOK, tables, offsets
<1>3. \A g \in Group : Len(Log(g)) \in Nat /\ Len(Log(g)') \in Nat
                          /\ Len(Log(g)) <= Len(Log(g)')
  BY <1>1 DEF Log, TypeInv, TypeOK
<1>4. \A g \in Group : 1..Len(Log(g)) \subseteq 1..Len(Log(g)')
  BY <1>3
<1>5. OffsetsOK'
  <2> USE DEF TypeInv, TypeOK, OffsetsOK, offsets
  <2>1. \A j \in Instance : pc'[j] \in Busy => cur'[j] \in 1..Len(Log(GroupOf(j))')
    BY <1>4, GroupOfInstance
  <2>2. \A g \in Group : pos'[g] <= Len(Log(g)') /\ committed'[g] <= Len(Log(g)')
    BY <1>3
  <2>3. \A g \in Group : done'[g] \subseteq 1..Len(Log(g)')
    BY <1>4
  <2>4. \A g \in Group : GroupOf(owner'[g]) = g
    OBVIOUS
  <2> QED
    BY <2>1, <2>2, <2>3, <2>4 DEF GroupOf
<1> QED
  BY <1>2, <1>5 DEF TypeInv

\* The fetcher's document is well-formed and lengthens papers.chunked.
LEMMA ChunkGrows ==
  ASSUME TypeInv, NEW i \in Instance, NEW source \in Source, pc[i] = "work",
         UNCHANGED new,
         chunked' = Append(chunked, [Handled(i) EXCEPT !.source = source])
  PROVE  /\ chunked' \in Seq(Doc)
         /\ \A g \in Group : Len(Log(g)) \in Nat /\ Len(Log(g)') \in Nat
                               /\ Len(Log(g)) <= Len(Log(g)')
<1>1. Handled(i) \in Doc
  BY HandledDoc DEF Busy
<1>2. [Handled(i) EXCEPT !.source = source] \in Doc
  BY <1>1 DEF Doc
<1>3. chunked' \in Seq(Doc) /\ Len(chunked') = Len(chunked) + 1
  BY <1>2 DEF TypeInv, TypeOK
<1> QED
  BY <1>3 DEF Log, TypeInv, TypeOK

\* Producing a chunked document, acknowledged or not, preserves the type invariant.
LEMMA ChunkTypes ==
  ASSUME TypeInv, NEW i \in Instance, NEW source \in Source,
         Chunk(i, source) \/ ChunkAmbiguous(i, source)
  PROVE  TypeInv'
<1>1. /\ chunked' \in Seq(Doc)
      /\ \A g \in Group : Len(Log(g)) \in Nat /\ Len(Log(g)') \in Nat
                            /\ Len(Log(g)) <= Len(Log(g)')
  <2>1. /\ pc[i] = "work" /\ UNCHANGED new
        /\ chunked' = Append(chunked, [Handled(i) EXCEPT !.source = source])
    BY DEF Chunk, ChunkAmbiguous
  <2> QED
    BY <2>1, ChunkGrows
<1>2. CASE Chunk(i, source)
  <2>1. OffsetsOK' /\ done' \in [Group -> SUBSET Nat]
    <3>1. \A j \in Instance : pc'[j] \in Busy => pc[j] \in Busy
      BY <1>2 DEF Chunk, Goto, Busy, TypeInv, TypeOK
    <3>2. pc[i] \in Busy /\ Finish(i) /\ UNCHANGED <<offsets, cur>>
      BY <1>2 DEF Chunk, Busy
    <3> QED
      BY <1>1, <3>1, <3>2, LogGrows
  <2>2. TypeOK'
    BY <1>1, <1>2, <2>1 DEF Chunk, Goto, Busy, tables, offsets, TypeInv, TypeOK
  <2> QED
    BY <2>1, <2>2 DEF TypeInv
<1>3. CASE ChunkAmbiguous(i, source)
  <2> USE <1>3 DEF ChunkAmbiguous
  <2>1. /\ attempt' \in [Instance -> 1..MaxAttempts]
        /\ \/ pc' = [pc EXCEPT ![i] = "work"]
           \/ pc' = [pc EXCEPT ![i] = "dead"]
    BY FailAttemptTypes DEF TypeInv
  <2>2. faults' \in 0..MaxFaults
    BY InjectTypes DEF TypeInv
  <2>3. OffsetsOK' /\ done' \in [Group -> SUBSET Nat]
    <3>1. \A j \in Instance : pc'[j] \in Busy => pc[j] \in Busy
      BY <2>1 DEF Busy, TypeInv, TypeOK
    <3>2. UNCHANGED <<offsets, cur, done>>
      OBVIOUS
    <3> QED
      BY <1>1, <3>1, <3>2, LogGrows
  <2>4. pc' \in [Instance -> Busy \cup {"idle", "down"}]
    BY <2>1 DEF Busy, TypeInv, TypeOK
  <2>5. TypeOK'
    BY <1>1, <2>1, <2>2, <2>3, <2>4 DEF tables, offsets, TypeInv, TypeOK
  <2> QED
    BY <2>3, <2>5 DEF TypeInv
<1> QED
  BY <1>2, <1>3

\* Steps that leave the logs and the offsets alone, each of one instance.
LEMMA LocalTypes ==
  ASSUME TypeInv, NEW i \in Instance,
         \/ Poison(i) \/ Skip(i) \/ Embed(i) \/ EmbedCrashes(i)
         \/ AttemptFails(i) \/ DeadLetter(i) \/ DeadLetterLost(i)
         \/ CommitFails(i) \/ Crash(i)
  PROVE  TypeInv'
<1> USE DEF Busy
<1>1. ASSUME NEW l \in Busy \cup {"idle", "down"}, pc[i] \in Busy \/ l \notin Busy,
             Goto(i, l), UNCHANGED <<new, chunked, offsets, cur>>,
             UNCHANGED done \/ (pc[i] \in Busy /\ Finish(i)),
             failed' \subseteq Failure, UNCHANGED tables,
             attempt' \in [Instance -> 1..MaxAttempts], faults' \in 0..MaxFaults
      PROVE  TypeInv'
  <2>1. /\ OffsetsOK'
        /\ pc' \in [Instance -> Busy \cup {"idle", "down"}]
        /\ done' \in [Group -> SUBSET Nat]
    BY <1>1, LocalStep
  <2>2. TypeOK'
    BY <1>1, <2>1 DEF tables, offsets, TypeInv, TypeOK
  <2> QED
    BY <2>1, <2>2 DEF TypeInv
<1> USE DEF TypeInv, TypeOK, topics
<1>2. CASE Poison(i)
  BY <1>1, <1>2 DEF Poison
<1>3. CASE Skip(i)
  BY <1>1, <1>3 DEF Skip
<1>4. CASE Embed(i)
  BY <1>1, <1>4 DEF Embed
<1>5. CASE EmbedCrashes(i)
  BY <1>1, <1>5 DEF EmbedCrashes
<1>6. CASE AttemptFails(i)
  <2>1. /\ attempt' \in [Instance -> 1..MaxAttempts]
        /\ Goto(i, "work") \/ Goto(i, "dead")
    <3>1. FailAttempt(i)
      BY <1>6 DEF AttemptFails
    <3> QED
      BY <3>1, FailAttemptTypes DEF Goto
  <2> QED
    BY <1>1, <1>6, <2>1 DEF AttemptFails
<1>7. CASE DeadLetter(i)
  <2>1. Handled(i) \in Doc
    BY <1>7, HandledDoc DEF DeadLetter
  <2>2. failed' \subseteq Failure
    BY <1>7, <2>1, GroupOfInstance DEF DeadLetter, Failure, Doc
  <2> QED
    BY <1>1, <1>7, <2>2 DEF DeadLetter
<1>8. CASE DeadLetterLost(i)
  <2>1. faults' \in 0..MaxFaults
    BY <1>8, InjectTypes DEF DeadLetterLost
  <2> QED
    BY <1>1, <1>8, <2>1 DEF DeadLetterLost
<1>9. CASE CommitFails(i)
  <2>1. faults' \in 0..MaxFaults
    BY <1>9, InjectTypes DEF CommitFails
  <2> QED
    BY <1>1, <1>9, <2>1 DEF CommitFails
<1>10. CASE Crash(i)
  <2>1. faults' \in 0..MaxFaults
    BY <1>10, InjectTypes DEF Crash
  <2> QED
    BY <1>1, <1>10, <2>1 DEF Crash
<1> QED
  BY <1>2, <1>3, <1>4, <1>5, <1>6, <1>7, <1>8, <1>9, <1>10

\* Storing, whether or not the answer arrives.
LEMMA StoreTypes ==
  ASSUME TypeInv, NEW i \in Instance, Store(i) \/ StoreAmbiguous(i)
  PROVE  TypeInv'
<1> USE DEF Busy
<1>1. row' \in [Paper -> Row] /\ chunks' \in [Paper -> Text]
  BY UpsertTypes DEF Store, StoreAmbiguous
<1>2. \E l \in {"commit", "work", "dead"} : Goto(i, l)
  BY DEF Store, StoreAmbiguous, FailAttempt
<1>3. attempt' \in [Instance -> 1..MaxAttempts] /\ faults' \in 0..MaxFaults
  BY FailAttemptTypes, InjectTypes DEF Store, StoreAmbiguous, TypeInv, TypeOK
<1>4. /\ pc[i] \in Busy /\ UNCHANGED <<topics, offsets, cur>>
      /\ UNCHANGED done \/ Finish(i)
  BY DEF Store, StoreAmbiguous
<1>5. /\ OffsetsOK'
      /\ pc' \in [Instance -> Busy \cup {"idle", "down"}]
      /\ done' \in [Group -> SUBSET Nat]
  BY <1>2, <1>4, LocalStep DEF topics
<1> QED
  BY <1>1, <1>3, <1>4, <1>5 DEF TypeInv, TypeOK, topics, offsets

\* Steps that move a group's position.
LEMMA PollTypes ==
  ASSUME TypeInv, NEW i \in Instance, Poll(i)
  PROVE  TypeInv'
<1> USE DEF Poll, Busy, topics, tables
<1> DEFINE g == GroupOf(i)
<1>1. g \in Group /\ pos[g] + 1 \in 1..Len(Log(g))
  BY GroupOfInstance DEF TypeInv, TypeOK, Log
<1>2. TypeOK'
  <2>1. pos' \in [Group -> Nat] /\ cur' \in [Instance -> Nat]
    BY <1>1 DEF TypeInv, TypeOK
  <2>2. attempt' \in [Instance -> 1..MaxAttempts]
    BY BoundAssumption DEF TypeInv, TypeOK
  <2> QED
    BY <2>1, <2>2 DEF Goto, TypeInv, TypeOK
<1>3. OffsetsOK'
  <2>1. \A h \in Group : Log(h)' = Log(h)
    BY DEF Log
  <2>2. \A j \in Instance : pc'[j] \in Busy => cur'[j] \in 1..Len(Log(GroupOf(j)))
    BY <1>1 DEF Goto, TypeInv, TypeOK, OffsetsOK
  <2>3. \A h \in Group : pos'[h] <= Len(Log(h))
    BY <1>1 DEF TypeInv, TypeOK, OffsetsOK
  <2> QED
    BY <2>1, <2>2, <2>3, GroupOfInstance DEF TypeInv, OffsetsOK
<1> QED
  BY <1>2, <1>3 DEF TypeInv

\* A commit, accepted or refused, keeps the offsets well typed and within the topics.
LEMMA CommitTypes ==
  ASSUME TypeInv, NEW i \in Instance, Commit(i)
  PROVE  TypeInv'
<1> USE DEF Commit, CommitOffset, Busy, topics, tables
<1> DEFINE g == GroupOf(i)
<1>1. g \in Group /\ cur[i] \in 1..Len(Log(g))
  BY GroupOfInstance DEF TypeInv, OffsetsOK
<1>2. TypeOK'
  <2>1. committed' \in [Group -> Nat]
    BY <1>1 DEF TypeInv, TypeOK
  <2> QED
    BY <2>1 DEF Goto, TypeInv, TypeOK
<1>3. OffsetsOK'
  <2>1. \A h \in Group : Log(h)' = Log(h)
    BY DEF Log
  <2>2. \A j \in Instance : pc'[j] \in Busy => cur'[j] \in 1..Len(Log(GroupOf(j)))
    BY DEF Goto, TypeInv, TypeOK, OffsetsOK
  <2>3. \A h \in Group : committed'[h] \in {committed[h], cur[i]}
                          /\ (committed'[h] = committed[h] \/ h = g)
    BY <1>1 DEF TypeInv, TypeOK
  <2>4. \A h \in Group : committed'[h] <= Len(Log(h))
    <3>1. cur[i] <= Len(Log(g))
      BY <1>1 DEF TypeInv, TypeOK, Log
    <3> QED
      BY <1>1, <2>3, <3>1 DEF TypeInv, TypeOK, OffsetsOK
  <2> QED
    BY <2>1, <2>2, <2>4, GroupOfInstance DEF TypeInv, OffsetsOK
<1> QED
  BY <1>2, <1>3 DEF TypeInv

\* Reading again from the committed offset keeps the offsets well typed.
LEMMA RewindTypes ==
  ASSUME TypeInv, NEW i \in Instance, Restart(i) \/ Rebalance(i)
  PROVE  TypeInv'
<1> USE DEF Restart, Rebalance, Rewind, Goto, Busy, topics, tables
<1>1. GroupOf(i) \in Group
  BY GroupOfInstance
<1>2. faults' \in 0..MaxFaults
  BY InjectTypes DEF TypeInv, TypeOK
<1>3. pos' \in [Group -> Nat] /\ \A g \in Group : pos'[g] \in {pos[g], committed[g]}
  BY <1>1 DEF TypeInv, TypeOK
<1>4. owner' \in [Group -> Instance] /\ \A g \in Group : GroupOf(owner'[g]) = g
  BY <1>1 DEF TypeInv, TypeOK, OffsetsOK
<1>5. pc' \in [Instance -> Busy \cup {"idle", "down"}]
      /\ \A j \in Instance : pc'[j] \in Busy => pc[j] \in Busy
  BY DEF TypeInv, TypeOK
<1>6. UNCHANGED <<new, chunked, failed, row, chunks, committed, cur, attempt, done>>
  OBVIOUS
<1>7. TypeOK'
  BY <1>2, <1>3, <1>4, <1>5, <1>6 DEF TypeInv, TypeOK
<1>8. OffsetsOK'
  <2>1. \A h \in Group : Log(h)' = Log(h)
    BY <1>6 DEF Log
  <2> QED
    BY <1>3, <1>4, <1>5, <1>6, <2>1, GroupOfInstance DEF TypeInv, OffsetsOK, GroupOf
<1> QED
  BY <1>7, <1>8 DEF TypeInv

\* The type invariant is inductive.
LEMMA TypeStep ==
  ASSUME TypeInv, [Next]_vars
  PROVE  TypeInv'
<1>1. CASE UNCHANGED vars
  BY <1>1 DEF vars, topics, tables, offsets, TypeInv, TypeOK, OffsetsOK, Log, GroupOf
<1>2. CASE \E p \in Paper, v \in Version, valid \in BOOLEAN : Announce(p, v, valid)
  BY <1>2, AnnounceTypes
<1>3. CASE \E i \in Instance : Step(i) \/ Fault(i)
  <2> PICK i \in Instance : Step(i) \/ Fault(i)
    BY <1>3
  <2> QED
    BY ChunkTypes, LocalTypes, StoreTypes, PollTypes, CommitTypes, RewindTypes
       DEF Step, Fault
<1> QED
  BY <1>1, <1>2, <1>3 DEF Next

\* Types hold, and every offset lies within its topic.
THEOREM TypeCorrect == Spec => [](TypeOK /\ OffsetsOK)
<1> USE DEF TypeInv
<1> QED
  BY TypeInit, TypeStep, PTL DEF Spec

-----------------------------------------------------------------------------
\* The tables change in upserts only.
LEMMA OnlyUpserts ==
  ASSUME [Next]_vars
  PROVE  UNCHANGED tables \/ \E i \in Instance : pc[i] = "write" /\ pc[i] \in Busy /\ Upsert(i)
<1>1. CASE UNCHANGED vars
  BY <1>1 DEF vars
<1>2. CASE \E p \in Paper, v \in Version, valid \in BOOLEAN : Announce(p, v, valid)
  BY <1>2 DEF Announce
<1>3. CASE \E i \in Instance : Step(i)
  BY <1>3 DEF Step, Poll, Poison, Chunk, Skip, Embed, EmbedCrashes, Store,
     AttemptFails, DeadLetter, Commit, Restart, Busy
<1>4. CASE \E i \in Instance : Fault(i)
  BY <1>4 DEF Fault, ChunkAmbiguous, StoreAmbiguous, DeadLetterLost, CommitFails,
     Crash, Rebalance, Busy
<1> QED
  BY <1>1, <1>2, <1>3, <1>4 DEF Next

\* What one upsert does to a paper: it leaves it, or writes row and passages
\* from one document, whose own summary a full text brings along.
LEMMA UpsertEffect ==
  ASSUME TypeInv, NEW i \in Instance, pc[i] \in Busy, Upsert(i), NEW p \in Paper
  PROVE  \/ row'[p] = row[p] /\ chunks'[p] = chunks[p]
         \/ /\ chunks'[p] = [version |-> row'[p].version, source |-> row'[p].source]
            /\ row'[p].source = "full" /\ FALSE \notin Summarizing =>
                 row'[p].summary = row'[p].version
            /\ row[p].source = "full" /\ row'[p].source = "abstract" =>
                 row'[p].version > row[p].version
<1> DEFINE doc == Handled(i)
<1>1. doc \in Doc
  BY HandledDoc
<1>2. CASE Refused(row[doc.id], doc) \/ p # doc.id
  BY <1>1, <1>2, UpsertCases DEF ReplaceChunks, TypeInv, TypeOK
<1>3. CASE ~Refused(row[doc.id], doc) /\ p = doc.id
  <2>0. PICK summary \in 0..MaxVersion :
          /\ row' = [row EXCEPT ![doc.id] = Upserted(row[doc.id], doc, summary)]
          /\ GroupOf(i) = "full" /\ FALSE \notin Summarizing => summary = doc.version
    BY <1>3, UpsertCases
  <2>1. row'[p] = Upserted(row[p], doc, summary) /\ chunks'[p] = TextOf(doc)
    BY <1>1, <1>3, <2>0, UpsertCases DEF ReplaceChunks, TypeInv, TypeOK
  <2>2. /\ row'[p].version = doc.version
        /\ row'[p].source = doc.source
        /\ row'[p].summary = MergedSummary(row[p].summary, summary)
    BY <2>1 DEF Upserted
  <2>3. chunks'[p] = [version |-> row'[p].version, source |-> row'[p].source]
    BY <2>1, <2>2 DEF TextOf
  <2>4. doc.source = "full" => GroupOf(i) = "full"
    BY DEF Handled
  <2>5. row'[p].source = "full" /\ FALSE \notin Summarizing =>
          row'[p].summary = row'[p].version
    BY <1>1, <2>0, <2>2, <2>4 DEF MergedSummary, Doc, Version
  <2>6. ASSUME row[p].source = "full", row'[p].source = "abstract"
        PROVE  row'[p].version > row[p].version
    <3>1. ~(row[p].version >= doc.version)
      BY <1>3, <2>2, <2>6 DEF Refused, HasFullText
    <3>2. row[p].version \in Nat
      BY DEF TypeInv, TypeOK, Row, NoRow, Version
    <3>3. doc.version \in Nat
      BY <1>1 DEF Doc, Version
    <3> QED
      BY <2>2, <3>1, <3>2, <3>3
  <2> QED
    BY <2>3, <2>5, <2>6
<1> QED
  BY <1>2, <1>3

\* The agreement of the row with its passages and summary is inductive.
LEMMA TablesStep ==
  ASSUME TypeInv, TablesInv, [Next]_vars
  PROVE  TablesInv'
<1> USE DEF TablesInv, RowMatchesChunks, FullTextHasOwnSummary
<1>1. CASE UNCHANGED tables
  BY <1>1 DEF tables
<1>2. CASE \E i \in Instance : pc[i] \in Busy /\ Upsert(i)
  BY <1>2, UpsertEffect
<1> QED
  BY <1>1, <1>2, OnlyUpserts

\* The inductive form of what the tables say of each other.
LEMMA TablesHold == Spec => []TablesInv
<1>1. Init => TablesInv
  <2> SUFFICES ASSUME Init PROVE TablesInv
    OBVIOUS
  <2>1. \A p \in Paper : row[p] = NoRow /\ chunks[p] = NoText
    BY DEF Init
  <2>2. RowMatchesChunks
    <3>1. NoRow.version = 0 /\ NoRow.source = "none"
      BY DEF NoRow
    <3> QED
      BY <2>1, <3>1 DEF RowMatchesChunks, NoText
  <2>3. FullTextHasOwnSummary
    BY <2>1 DEF FullTextHasOwnSummary, NoRow
  <2> QED
    BY <2>2, <2>3 DEF TablesInv
<1> QED
  BY <1>1, TypeInit, TypeStep, TablesStep, PTL DEF Spec

\* A paper's row and its passages always tell of the same document, whatever the
\* workers, retries and faults did (one transaction, upsert_paper).
THEOREM TablesAgree == Spec => []RowMatchesChunks
<1>1. TablesInv => RowMatchesChunks
  BY DEF TablesInv
<1> QED
  BY <1>1, TablesHold, PTL

\* upsert_paper never lets the fast path downgrade full text.
THEOREM NeverDowngraded == Spec => FastPathNeverDowngrades
<1>1. ASSUME TypeInv, [Next]_vars
      PROVE  \A p \in Paper :
               row[p].source = "full" /\ row'[p].source = "abstract" =>
                 row'[p].version > row[p].version
  <2> SUFFICES ASSUME NEW p \in Paper,
                      row[p].source = "full", row'[p].source = "abstract"
               PROVE  row'[p].version > row[p].version
    OBVIOUS
  <2>1. ~UNCHANGED tables
    <3>1. row'[p].source # row[p].source
      OBVIOUS
    <3> QED
      BY <3>1 DEF tables
  <2>2. CASE \E i \in Instance : pc[i] \in Busy /\ Upsert(i)
    <3> PICK i \in Instance : pc[i] \in Busy /\ Upsert(i)
      BY <2>2
    <3>1. ~(row'[p] = row[p])
      OBVIOUS
    <3> QED
      BY <1>1, <3>1, UpsertEffect
  <2> QED
    BY <1>1, <2>1, <2>2, OnlyUpserts
<1> QED
  BY <1>1, TypeInit, TypeStep, PTL DEF Spec, FastPathNeverDowngrades

-----------------------------------------------------------------------------
\* What the type invariant says of one instance and its group.
LEMMA InstanceFacts ==
  ASSUME TypeInv
  PROVE  /\ \A g \in Group : owner[g] \in Instance /\ GroupOf(owner[g]) = g
         /\ \A g \in Group : pos[g] \in Nat /\ committed[g] \in Nat
         /\ \A i \in Instance : GroupOf(i) \in Group /\ cur[i] \in Nat
         /\ DOMAIN pc = Instance /\ DOMAIN cur = Instance
         /\ DOMAIN done = Group /\ DOMAIN pos = Group /\ DOMAIN owner = Group
         /\ DOMAIN committed = Group
  BY GroupOfInstance DEF TypeInv, TypeOK, OffsetsOK

\* An outcome is never taken back.
LEMMA OutcomesStay ==
  ASSUME TypeInv, NEW i \in Instance, UNCHANGED done \/ Finish(i)
  PROVE  \A g \in Group : done[g] \subseteq done'[g]
  BY InstanceFacts DEF Finish

\* A busy instance goes on with its message, commits it once it has an outcome,
\* or dies.
LEMMA LossLocal ==
  ASSUME TypeInv, LossInv, NEW i \in Instance, NEW l \in Busy \cup {"down"},
         Goto(i, l), UNCHANGED <<offsets, cur>>,
         pc[i] \in Busy \/ l = "down",
         UNCHANGED done \/ Finish(i),
         l = "commit" => cur[i] \in done'[GroupOf(i)]
  PROVE  LossInv'
<1> USE InstanceFacts DEF Busy, offsets
<1>1. \A g \in Group : done[g] \subseteq done'[g]
  BY OutcomesStay
<1>2. NoSilentLoss'
  BY <1>1 DEF LossInv, NoSilentLoss
<1>3. \A j \in Instance : pc'[j] = IF j = i THEN l ELSE pc[j]
  BY DEF Goto
<1>4. NothingSkipped'
  <2> SUFFICES ASSUME NEW g \in Group
               PROVE  /\ pc'[owner[g]] = "idle" => 1..pos[g] \subseteq done'[g]
                      /\ pc'[owner[g]] \in Busy =>
                           cur[owner[g]] = pos[g] /\ 1..(pos[g] - 1) \subseteq done'[g]
    BY DEF NothingSkipped
  <2>1. /\ pc[owner[g]] = "idle" => 1..pos[g] \subseteq done[g]
        /\ pc[owner[g]] \in Busy =>
             cur[owner[g]] = pos[g] /\ 1..(pos[g] - 1) \subseteq done[g]
    BY DEF LossInv, NothingSkipped
  <2>2. pc'[owner[g]] = "idle" => pc[owner[g]] = "idle"
    BY <1>3
  <2>3. pc'[owner[g]] \in Busy => pc[owner[g]] \in Busy
    BY <1>3
  <2> QED
    BY <1>1, <2>1, <2>2, <2>3
<1>5. CommitsOutcomes'
  <2> SUFFICES ASSUME NEW j \in Instance, pc'[j] = "commit"
               PROVE  cur[j] \in done'[GroupOf(j)]
    BY DEF CommitsOutcomes, GroupOf
  <2>1. CASE j = i
    BY <1>3, <2>1
  <2>2. CASE j # i
    BY <1>1, <1>3, <2>2 DEF LossInv, CommitsOutcomes
  <2> QED
    BY <2>1, <2>2
<1> QED
  BY <1>2, <1>4, <1>5 DEF LossInv

\* Handing out a message skips no offset.
LEMMA LossPoll ==
  ASSUME TypeInv, LossInv, NEW i \in Instance, Poll(i)
  PROVE  LossInv'
<1> USE InstanceFacts DEF Poll, Busy
<1>1. \A j \in Instance : pc'[j] = IF j = i THEN "work" ELSE pc[j]
  BY DEF Goto
<1>2. NothingSkipped'
  <2> SUFFICES ASSUME NEW g \in Group
               PROVE  /\ pc'[owner[g]] = "idle" => 1..pos'[g] \subseteq done[g]
                      /\ pc'[owner[g]] \in Busy =>
                           cur'[owner[g]] = pos'[g] /\ 1..(pos'[g] - 1) \subseteq done[g]
    BY DEF NothingSkipped
  <2>1. /\ pc[owner[g]] = "idle" => 1..pos[g] \subseteq done[g]
        /\ pc[owner[g]] \in Busy =>
             cur[owner[g]] = pos[g] /\ 1..(pos[g] - 1) \subseteq done[g]
    BY DEF LossInv, NothingSkipped
  <2>2. CASE g = GroupOf(i)
    BY <1>1, <2>1, <2>2
  <2>3. CASE g # GroupOf(i)
    <3>1. owner[g] # i /\ pos'[g] = pos[g] /\ cur'[owner[g]] = cur[owner[g]]
      BY <2>3
    <3> QED
      BY <1>1, <2>1, <3>1
  <2> QED
    BY <2>2, <2>3
<1>3. CommitsOutcomes'
  BY <1>1 DEF LossInv, CommitsOutcomes, GroupOf
<1> QED
  BY <1>2, <1>3 DEF LossInv, NoSilentLoss

\* A commit covers only offsets with an outcome.
LEMMA LossCommit ==
  ASSUME TypeInv, LossInv, NEW i \in Instance, Commit(i) \/ CommitFails(i)
  PROVE  LossInv'
<1> USE InstanceFacts DEF Busy
<1>1. /\ pc[i] = "commit" /\ UNCHANGED <<owner, pos, cur, done>>
      /\ \A j \in Instance : pc'[j] = IF j = i THEN "idle" ELSE pc[j]
  BY DEF Commit, CommitFails, Goto, offsets
<1>2. cur[i] \in done[GroupOf(i)]
  BY <1>1 DEF LossInv, CommitsOutcomes
<1>3. \A g \in Group :
        owner[g] = i => cur[i] = pos[g] /\ 1..pos[g] \subseteq done[g]
  BY <1>1, <1>2 DEF LossInv, NothingSkipped
<1>4. NoSilentLoss'
  <2>1. \A g \in Group : committed'[g] = committed[g]
                           \/ (owner[g] = i /\ committed'[g] = cur[i])
    BY DEF Commit, CommitFails, CommitOffset, offsets
  <2> QED
    BY <1>1, <1>3, <2>1 DEF LossInv, NoSilentLoss
<1>5. NothingSkipped'
  BY <1>1, <1>3 DEF LossInv, NothingSkipped
<1>6. CommitsOutcomes'
  BY <1>1 DEF LossInv, CommitsOutcomes, GroupOf
<1> QED
  BY <1>4, <1>5, <1>6 DEF LossInv

\* Starting over at the committed offset skips no offset.
LEMMA LossRewind ==
  ASSUME TypeInv, LossInv, NEW i \in Instance, Restart(i) \/ Rebalance(i)
  PROVE  LossInv'
<1> USE InstanceFacts DEF Busy
<1>1. /\ pc'[i] = "idle" /\ UNCHANGED <<committed, cur, done>>
      /\ \A j \in Instance : j # i => pc'[j] = pc[j]
  BY DEF Restart, Rebalance, Goto
<1>2. \A g \in Group :
        \/ owner'[g] = i /\ pos'[g] = committed[g]
        \/ owner'[g] # i /\ owner'[g] = owner[g] /\ pos'[g] = pos[g]
  BY DEF Restart, Rebalance, Rewind
<1>3. NothingSkipped'
  BY <1>1, <1>2 DEF LossInv, NothingSkipped, NoSilentLoss
<1>4. CommitsOutcomes'
  BY <1>1 DEF LossInv, CommitsOutcomes, GroupOf
<1> QED
  BY <1>1, <1>3, <1>4 DEF LossInv, NoSilentLoss

\* NothingSkipped and CommitsOutcomes are preserved by every step that loses no dead letter.
LEMMA LossStep ==
  ASSUME "dlqLost" \notin Faults, TypeInv, LossInv, [Next]_vars
  PROVE  LossInv'
<1>1. CASE \/ UNCHANGED vars
           \/ \E p \in Paper, v \in Version, valid \in BOOLEAN : Announce(p, v, valid)
  <2>1. UNCHANGED <<offsets, pc, cur, done>>
    BY <1>1 DEF vars, Announce
  <2> QED
    BY <2>1 DEF offsets, LossInv, NoSilentLoss, NothingSkipped, CommitsOutcomes, GroupOf
<1>2. CASE \E i \in Instance : Step(i) \/ Fault(i)
  <2> PICK i \in Instance : Step(i) \/ Fault(i)
    BY <1>2
  <2> USE DEF Busy, topics
  <2>1. ASSUME FailAttempt(i), pc[i] \in Busy, UNCHANGED <<offsets, cur, done>>
        PROVE  LossInv'
    BY <2>1, LossLocal DEF FailAttempt
  <2>2. ASSUME Goto(i, "commit"), Finish(i), pc[i] \in Busy, UNCHANGED <<offsets, cur>>
        PROVE  LossInv'
    <3>1. cur[i] \in done'[GroupOf(i)]
      BY <2>2, InstanceFacts DEF Finish
    <3> QED
      BY <2>2, <3>1, LossLocal
  <2>3. CASE Poison(i)
    BY <2>3, LossLocal DEF Poison
  <2>4. CASE \E source \in Source : Chunk(i, source)
    BY <2>2, <2>4 DEF Chunk
  <2>5. CASE \E source \in Source : ChunkAmbiguous(i, source)
    BY <2>1, <2>5 DEF ChunkAmbiguous
  <2>6. CASE Skip(i) \/ Store(i) \/ DeadLetter(i)
    BY <2>2, <2>6 DEF Skip, Store, DeadLetter
  <2>7. CASE Embed(i)
    BY <2>7, LossLocal DEF Embed
  <2>8. CASE EmbedCrashes(i) \/ Crash(i)
    BY <2>8, LossLocal DEF EmbedCrashes, Crash
  <2>9. CASE AttemptFails(i) \/ StoreAmbiguous(i)
    BY <2>1, <2>9 DEF AttemptFails, StoreAmbiguous
  <2>10. ~DeadLetterLost(i)
    BY DEF DeadLetterLost, Inject
  <2> QED
    BY <2>3, <2>4, <2>5, <2>6, <2>7, <2>8, <2>9, <2>10,
       LossPoll, LossCommit, LossRewind DEF Step, Fault
<1> QED
  BY <1>1, <1>2 DEF Next

\* As long as papers.failed acknowledges every dead letter, a committed message
\* has an outcome, through crashes, failed commits and rebalances.
THEOREM NoLoss ==
  ASSUME "dlqLost" \notin Faults
  PROVE  Spec => []NoSilentLoss
<1>1. Init => LossInv
  BY DEF Init, LossInv, NoSilentLoss, NothingSkipped, CommitsOutcomes, Busy
<1>2. LossInv => NoSilentLoss
  BY DEF LossInv
<1>3. TypeInv /\ LossInv /\ [Next]_vars => LossInv'
  BY LossStep
<1> QED
  BY <1>1, <1>2, <1>3, TypeInit, TypeStep, PTL DEF Spec

-----------------------------------------------------------------------------
\* Steps that move no offset start no work either.
LEMMA OffsetsMove ==
  ASSUME TypeInv, [Next]_vars
  PROVE  \/ /\ UNCHANGED <<offsets, cur>>
            /\ \A j \in Instance : pc'[j] \in Busy => pc[j] \in Busy
         \/ \E i \in Instance : Poll(i) \/ Commit(i) \/ Restart(i) \/ Rebalance(i)
<1>1. CASE \/ UNCHANGED vars
           \/ \E p \in Paper, v \in Version, valid \in BOOLEAN : Announce(p, v, valid)
  BY <1>1 DEF vars, Announce
<1>2. CASE \E i \in Instance : Step(i) \/ Fault(i)
  <2> PICK i \in Instance : Step(i) \/ Fault(i)
    BY <1>2
  <2> USE DEF Busy
  <2>1. ASSUME NEW l, Goto(i, l), pc[i] \in Busy \/ l \notin Busy
        PROVE  \A j \in Instance : pc'[j] \in Busy => pc[j] \in Busy
    BY <2>1, InstanceFacts DEF Goto
  <2>2. ASSUME FailAttempt(i), pc[i] \in Busy
        PROVE  \A j \in Instance : pc'[j] \in Busy => pc[j] \in Busy
    BY <2>1, <2>2 DEF FailAttempt
  <2>3. CASE Poison(i) \/ Skip(i) \/ Embed(i) \/ EmbedCrashes(i) \/ Store(i)
               \/ DeadLetter(i) \/ DeadLetterLost(i) \/ CommitFails(i) \/ Crash(i)
    BY <2>1, <2>3 DEF Poison, Skip, Embed, EmbedCrashes, Store, DeadLetter,
       DeadLetterLost, CommitFails, Crash
  <2>4. CASE AttemptFails(i) \/ StoreAmbiguous(i)
    BY <2>2, <2>4 DEF AttemptFails, StoreAmbiguous
  <2>5. CASE \E source \in Source : Chunk(i, source)
    BY <2>1, <2>5 DEF Chunk
  <2>6. CASE \E source \in Source : ChunkAmbiguous(i, source)
    BY <2>2, <2>6 DEF ChunkAmbiguous
  <2> QED
    BY <2>3, <2>4, <2>5, <2>6 DEF Step, Fault
<1> QED
  BY <1>1, <1>2 DEF Next

\* Commits never run ahead of what was delivered.
LEMMA BehindStep ==
  ASSUME TypeInv, LossInv, CommitsBehind, [Next]_vars
  PROVE  CommitsBehind'
<1> USE InstanceFacts DEF Busy
<1>1. CASE /\ UNCHANGED <<offsets, cur>>
           /\ \A j \in Instance : pc'[j] \in Busy => pc[j] \in Busy
  BY <1>1 DEF offsets, CommitsBehind
<1>2. CASE \E i \in Instance : Poll(i)
  <2> PICK i \in Instance : Poll(i)
    BY <1>2
  <2>1. \A g \in Group : committed'[g] = committed[g]
                           /\ (pos'[g] = pos[g] + 1 \/ (pos'[g] = pos[g] /\ owner[g] # i))
    BY DEF Poll
  <2>2. owner' = owner /\ \A j \in Instance : j # i => pc'[j] = pc[j]
    BY DEF Poll, Goto
  <2> QED
    BY <2>1, <2>2 DEF CommitsBehind
<1>3. CASE \E i \in Instance : Commit(i)
  <2> PICK i \in Instance : Commit(i)
    BY <1>3
  <2>1. /\ pc[i] = "commit" /\ UNCHANGED <<owner, pos>>
        /\ \A j \in Instance : pc'[j] = IF j = i THEN "idle" ELSE pc[j]
    BY DEF Commit, Goto
  <2>2. \A g \in Group :
          committed'[g] = IF owner[g] = i THEN cur[i] ELSE committed[g]
    BY DEF Commit, CommitOffset
  <2>3. \A g \in Group : owner[g] = i => cur[i] = pos[g]
    BY <2>1 DEF LossInv, NothingSkipped
  <2> QED
    BY <2>1, <2>2, <2>3 DEF CommitsBehind
<1>4. CASE \E i \in Instance : Restart(i) \/ Rebalance(i)
  <2> PICK i \in Instance : Restart(i) \/ Rebalance(i)
    BY <1>4
  <2>1. /\ pc'[i] = "idle" /\ UNCHANGED committed
        /\ \A j \in Instance : j # i => pc'[j] = pc[j]
    BY DEF Restart, Rebalance, Goto
  <2>2. \A g \in Group :
          \/ owner'[g] = i /\ pos'[g] = committed[g]
          \/ owner'[g] # i /\ owner'[g] = owner[g] /\ pos'[g] = pos[g]
    BY DEF Restart, Rebalance, Rewind
  <2> QED
    BY <2>1, <2>2 DEF CommitsBehind
<1> QED
  BY <1>1, <1>2, <1>3, <1>4, OffsetsMove

\* What one step does to one group's topic, outcomes and committed offset.
StepOf(g) ==
  \/ /\ Len(Log(g)') = Len(Log(g)) + 1
     /\ done'[g] = done[g] /\ committed'[g] = committed[g]
  \/ /\ \E n \in 1..Len(Log(g)) : done'[g] = done[g] \cup {n}
     /\ Len(Log(g)') = Len(Log(g)) /\ committed'[g] = committed[g]
  \/ /\ \E n \in 1..Len(Log(g)) :
          committed[g] < n /\ 1..n \subseteq done[g] /\ committed'[g] = n
     /\ Len(Log(g)') = Len(Log(g)) /\ done'[g] = done[g]
  \/ /\ Len(Log(g)') = Len(Log(g))
     /\ done'[g] = done[g] /\ committed'[g] = committed[g]

\* Every step of the pipeline is a step, or a stutter, of a group's at-least-once consumer.
LEMMA GroupStep ==
  ASSUME TypeInv, LossInv, CommitsBehind, [Next]_vars, NEW g \in Group
  PROVE  StepOf(g)
<1> USE InstanceFacts DEF Busy, offsets, topics
<1>1. CASE UNCHANGED vars
  BY <1>1 DEF vars, StepOf, Log
<1>2. CASE \E p \in Paper, v \in Version, valid \in BOOLEAN : Announce(p, v, valid)
  <2>1. /\ Len(new') = Len(new) + 1 /\ UNCHANGED <<chunked, done, committed>>
    BY <1>2 DEF Announce, TypeInv, TypeOK
  <2> QED
    BY <2>1 DEF StepOf, Log
<1>3. CASE \E i \in Instance : Step(i) \/ Fault(i)
  <2> PICK i \in Instance : Step(i) \/ Fault(i)
    BY <1>3
  <2>1. ASSUME pc[i] \in Busy, Finish(i), UNCHANGED <<new, chunked, committed>>
        PROVE  StepOf(g)
    <3>1. cur[i] \in 1..Len(Log(GroupOf(i)))
      BY <2>1 DEF TypeInv, OffsetsOK
    <3>2. done'[g] = IF g = GroupOf(i) THEN done[g] \cup {cur[i]} ELSE done[g]
      BY <2>1 DEF Finish
    <3>3. Len(Log(g)') = Len(Log(g)) /\ committed'[g] = committed[g]
      BY <2>1 DEF Log
    <3> QED
      BY <3>1, <3>2, <3>3 DEF StepOf
  <2>2. ASSUME UNCHANGED <<new, chunked, done, committed>>
        PROVE  StepOf(g)
    BY <2>2 DEF StepOf, Log
  <2>3. CASE \E source \in Source : Chunk(i, source)
    <3>1. /\ Len(chunked') = Len(chunked) + 1 /\ UNCHANGED <<new, committed>>
          /\ GroupOf(i) = "fetcher" /\ pc[i] \in Busy /\ Finish(i)
      BY <2>3 DEF Chunk, TypeInv, TypeOK
    <3>2. cur[i] \in 1..Len(new)
      BY <3>1 DEF TypeInv, OffsetsOK, Log
    <3>3. done'[g] = IF g = "fetcher" THEN done[g] \cup {cur[i]} ELSE done[g]
      BY <3>1 DEF Finish
    <3>4. CASE g = "full"
      BY <3>1, <3>3, <3>4 DEF StepOf, Log
    <3>5. CASE g # "full"
      BY <3>1, <3>2, <3>3, <3>5 DEF StepOf, Log
    <3> QED
      BY <3>4, <3>5
  <2>4. CASE \E source \in Source : ChunkAmbiguous(i, source)
    <3>1. /\ Len(chunked') = Len(chunked) + 1 /\ UNCHANGED <<new, done, committed>>
      BY <2>4 DEF ChunkAmbiguous, TypeInv, TypeOK
    <3> QED
      BY <3>1 DEF StepOf, Log
  <2>5. CASE Skip(i) \/ Store(i) \/ DeadLetter(i)
    BY <2>1, <2>5 DEF Skip, Store, DeadLetter
  <2>6. CASE Commit(i)
    <3>1. pc[i] = "commit" /\ UNCHANGED <<new, chunked, done>>
      BY <2>6 DEF Commit
    <3>2. cur[i] \in done[GroupOf(i)] /\ cur[i] \in 1..Len(Log(GroupOf(i)))
      BY <3>1 DEF LossInv, CommitsOutcomes, TypeInv, OffsetsOK
    <3>3. committed'[g] = IF g = GroupOf(i) /\ owner[g] = i THEN cur[i] ELSE committed[g]
      BY <2>6 DEF Commit, CommitOffset
    <3>4. owner[g] = i =>
            cur[i] = pos[g] /\ committed[g] < pos[g] /\ 1..(pos[g] - 1) \subseteq done[g]
      BY <3>1 DEF LossInv, NothingSkipped, CommitsBehind
    <3>5. Len(Log(g)') = Len(Log(g)) /\ done'[g] = done[g]
      BY <3>1 DEF Log
    <3>6. CASE g = GroupOf(i) /\ owner[g] = i
      <4>1. 1..cur[i] \subseteq done[g]
        BY <3>2, <3>4, <3>6
      <4> QED
        BY <3>2, <3>3, <3>4, <3>5, <3>6, <4>1 DEF StepOf
    <3>7. CASE ~(g = GroupOf(i) /\ owner[g] = i)
      BY <3>3, <3>5, <3>7 DEF StepOf
    <3> QED
      BY <3>6, <3>7
  <2>7. CASE \/ Poll(i) \/ Poison(i) \/ Embed(i) \/ EmbedCrashes(i) \/ AttemptFails(i)
             \/ Restart(i) \/ StoreAmbiguous(i) \/ DeadLetterLost(i) \/ CommitFails(i)
             \/ Crash(i) \/ Rebalance(i)
    BY <2>2, <2>7 DEF Poll, Poison, Embed, EmbedCrashes, AttemptFails, Restart,
       StoreAmbiguous, DeadLetterLost, CommitFails, Crash, Rebalance
  <2> QED
    BY <2>3, <2>4, <2>5, <2>6, <2>7 DEF Step, Fault
<1> QED
  BY <1>1, <1>2, <1>3 DEF Next

\* What every step of the pipeline keeps as long as no dead letter is lost.
BaseInv == TypeInv /\ LossInv /\ CommitsBehind

\* It holds before anything is announced.
LEMMA BaseInit == Init => BaseInv
<1>1. Init => LossInv /\ CommitsBehind
  BY DEF Init, LossInv, NoSilentLoss, NothingSkipped, CommitsOutcomes, CommitsBehind, Busy
<1> QED
  BY <1>1, TypeInit DEF BaseInv

\* Each of the three groups is an at-least-once consumer of its topic, as long
\* as papers.failed acknowledges every dead letter.
THEOREM GroupsAtLeastOnce ==
  ASSUME "dlqLost" \notin Faults
  PROVE  Spec => ConsumersAtLeastOnce
<1>1. Init => BaseInv
  BY BaseInit
<1>2. BaseInv /\ [Next]_vars => BaseInv'
  BY TypeStep, LossStep, BehindStep DEF BaseInv
<1>3. Init => FetcherConsumer!Init /\ FastConsumer!Init /\ FullConsumer!Init
  BY DEF Init, Group, FetcherConsumer!Init, FastConsumer!Init, FullConsumer!Init
<1>4. ASSUME BaseInv, [Next]_vars
      PROVE  /\ [FetcherConsumer!Next]_(FetcherConsumer!vars)
             /\ [FastConsumer!Next]_(FastConsumer!vars)
             /\ [FullConsumer!Next]_(FullConsumer!vars)
  <2>1. StepOf("fetcher") /\ StepOf("fast") /\ StepOf("full")
    BY <1>4, GroupStep DEF BaseInv, Group
  <2>2. [FetcherConsumer!Next]_(FetcherConsumer!vars)
    BY <2>1 DEF StepOf, Log, FetcherConsumer!Next, FetcherConsumer!vars,
       FetcherConsumer!Publish, FetcherConsumer!Finish, FetcherConsumer!Commit
  <2>3. [FastConsumer!Next]_(FastConsumer!vars)
    BY <2>1 DEF StepOf, Log, FastConsumer!Next, FastConsumer!vars,
       FastConsumer!Publish, FastConsumer!Finish, FastConsumer!Commit
  <2>4. [FullConsumer!Next]_(FullConsumer!vars)
    BY <2>1 DEF StepOf, Log, FullConsumer!Next, FullConsumer!vars,
       FullConsumer!Publish, FullConsumer!Finish, FullConsumer!Commit
  <2> QED
    BY <2>2, <2>3, <2>4
<1> QED
  BY <1>1, <1>2, <1>3, <1>4, PTL DEF Spec, ConsumersAtLeastOnce, FetcherConsumer!Spec,
     FastConsumer!Spec, FullConsumer!Spec

-----------------------------------------------------------------------------
(* Both paths settle on the latest version *)

\* The last entry of a topic about a paper.
LastOf(topic, p, n) ==
  /\ n \in DOMAIN topic /\ topic[n].id = p
  /\ \A k \in DOMAIN topic : topic[k].id = p => k <= n

\* The group is done with the message at n and will not read it again: it has
\* been committed, or its owner lives and has gone past it.
Past(g, n) ==
  \/ n <= committed[g]
  \/ pc[owner[g]] \in {"idle", "commit"} /\ n <= pos[g]
  \/ pc[owner[g]] \in {"work", "write", "dead"} /\ n < pos[g]

AllPast(g, p) == \A n \in DOMAIN new : new[n].id = p => Past(g, n)

Newest(p, v) == \A w \in Announced(p) : w <= v

\* Without rebalances only a group's owner handles messages; writing is the
\* workers' part.
OwnersWork ==
  \A i \in Instance :
    /\ owner[GroupOf(i)] # i => pc[i] \in {"idle", "down"}
    /\ pc[i] = "write" => GroupOf(i) # "fetcher"

InOrder ==
  \A k, n \in DOMAIN new :
    k <= n /\ new[k].id = new[n].id => new[k].version <= new[n].version

\* Every version anywhere in the system has been announced.
KnownVersions ==
  /\ \A p \in Paper : row[p].version \in Announced(p) \cup {0}
  /\ \A k \in DOMAIN chunked : chunked[k].version \in Announced(chunked[k].id)

\* A fetcher that is past all announcements of a paper has chunked the newest last.
FetchedNewest ==
  \A p \in Paper :
    Announced(p) # {} /\ AllPast("fetcher", p) /\ NeverFailed(p) =>
      \E k \in DOMAIN chunked : LastOf(chunked, p, k) /\ Newest(p, chunked[k].version)

\* The last document of the paper is of the newest version, and the full-text
\* worker is past it.
NewestStored(p, k) ==
  /\ LastOf(chunked, p, k) /\ Newest(p, chunked[k].version)
  /\ Past("full", k) /\ NeverFailed(p)

\* Its full text stays, whatever the fast path still brings.
FullTextStays ==
  \A p \in Paper, k \in DOMAIN chunked :
    NewestStored(p, k) /\ chunked[k].source = "full" =>
      row[p].source = "full" /\ row[p].version = chunked[k].version

\* An abstract may be replaced by an older one as long as the fast path is behind.
VersionStays ==
  \A p \in Paper, k \in DOMAIN chunked :
    NewestStored(p, k) /\ AllPast("fast", p) => row[p].version = chunked[k].version

SettleInv ==
  OwnersWork /\ InOrder /\ KnownVersions /\ FetchedNewest /\ FullTextStays /\ VersionStays

\* The first faults a settled index cannot stand, the third loses failures.
Orderly == Faults \cap {"anyOrder", "rebalance", "dlqLost"} = {}

\* What has been announced of a paper.
LEMMA AnnouncedFacts ==
  ASSUME NEW p
  PROVE  \A v : v \in Announced(p) <=> \E n \in DOMAIN new : new[n].id = p /\ new[n].version = v
  BY DEF Announced

\* Topics and rows are made of papers and versions.
LEMMA SettleTypes ==
  ASSUME TypeInv
  PROVE  /\ DOMAIN new = 1..Len(new) /\ Len(new) \in Nat
         /\ DOMAIN chunked = 1..Len(chunked) /\ Len(chunked) \in Nat
         /\ \A n \in DOMAIN new : new[n].id \in Paper /\ new[n].version \in Nat
         /\ \A k \in DOMAIN chunked : /\ chunked[k].id \in Paper /\ chunked[k].version \in Nat
                                      /\ chunked[k].source \in Source
         /\ \A p \in Paper : row[p].version \in Nat
         /\ "full" \in Group /\ "fast" \in Group /\ "fetcher" \in Group
         /\ \A p \in Paper : Announced(p) \subseteq Nat
<1>1. /\ DOMAIN new = 1..Len(new) /\ Len(new) \in Nat
      /\ DOMAIN chunked = 1..Len(chunked) /\ Len(chunked) \in Nat
      /\ \A n \in DOMAIN new : new[n] \in Message
      /\ \A k \in DOMAIN chunked : chunked[k] \in Doc
      /\ \A p \in Paper : row[p] \in Row
  BY DEF TypeInv, TypeOK
<1>2. \A n \in DOMAIN new : new[n].id \in Paper /\ new[n].version \in Nat
  BY <1>1 DEF Message, Version
<1>3. \A k \in DOMAIN chunked : /\ chunked[k].id \in Paper /\ chunked[k].version \in Nat
                                /\ chunked[k].source \in Source
  BY <1>1 DEF Doc, Version
<1>4. ASSUME NEW p \in Paper PROVE row[p].version \in Nat
  <2>1. \/ row[p] = NoRow
        \/ row[p] \in [version : Version, source : Source, summary : 0..MaxVersion]
    BY <1>1 DEF Row
  <2> QED
    BY <2>1 DEF NoRow, Version
<1>5. \A p \in Paper : Announced(p) \subseteq Nat
  BY <1>2, AnnouncedFacts
<1> QED
  BY <1>1, <1>2, <1>3, <1>4, <1>5 DEF Group

\* A message comes to be past its group only by being handled to an outcome.
LEMMA PastStep ==
  ASSUME Orderly, BaseInv, OwnersWork, [Next]_vars, NEW g \in Group, NEW n \in Nat, Past(g, n)'
  PROVE  \/ Past(g, n)
         \/ \E i \in Instance :
              /\ i = owner[g] /\ GroupOf(i) = g /\ pc[i] \in {"work", "write", "dead"}
              /\ cur[i] = n /\ pos[g] = n
              /\ \/ \E source \in Source : Chunk(i, source)
                 \/ Skip(i) \/ Store(i) \/ DeadLetter(i)
<1> USE InstanceFacts DEF BaseInv
<1> DEFINE o == owner[g]
<1>0. /\ o \in Instance /\ GroupOf(o) = g /\ pos[g] \in Nat /\ committed[g] \in Nat
      /\ pc[o] \in Busy => cur[o] = pos[g] /\ committed[g] < pos[g]
      /\ committed[g] <= pos[g]
      /\ pc[o] \in {"work", "write", "dead", "commit", "idle", "down"}
  BY DEF LossInv, NothingSkipped, CommitsBehind, TypeInv, TypeOK, Busy
<1>1. CASE UNCHANGED vars
  BY <1>1 DEF vars, offsets, Past
<1>2. CASE \E p \in Paper, v \in Version, valid \in BOOLEAN : Announce(p, v, valid)
  BY <1>2 DEF Announce, offsets, Past
<1>3. ASSUME NEW i \in Instance, i # o, Step(i) \/ Fault(i) PROVE Past(g, n)
  <2>1. owner' = owner /\ pc'[o] = pc[o]
    BY <1>3 DEF Orderly, Step, Fault, Poll, Poison, Chunk, Skip, Embed, EmbedCrashes, Store,
       AttemptFails, DeadLetter, Commit, Restart, ChunkAmbiguous, StoreAmbiguous,
       DeadLetterLost, CommitFails, Crash, Rebalance, Inject, FailAttempt, Goto, offsets
  <2>2. pos'[g] = pos[g]
    BY <1>0, <1>3 DEF Orderly, Step, Fault, Poll, Poison, Chunk, Skip, Embed, EmbedCrashes, Store,
       AttemptFails, DeadLetter, Commit, Restart, ChunkAmbiguous, StoreAmbiguous,
       DeadLetterLost, CommitFails, Crash, Rebalance, Inject, Rewind, offsets
  <2>3. committed'[g] = committed[g]
    BY <1>0, <1>3 DEF Orderly, Step, Fault, Poll, Poison, Chunk, Skip, Embed, EmbedCrashes, Store,
       AttemptFails, DeadLetter, Commit, CommitOffset, Restart, ChunkAmbiguous, StoreAmbiguous,
       DeadLetterLost, CommitFails, Crash, Rebalance, Inject, offsets
  <2> QED
    BY <2>1, <2>2, <2>3 DEF Past
<1>4. CASE Step(o) \/ Fault(o)
  <2>1. CASE Poll(o)
    <3>1. /\ pc[o] = "idle" /\ pc'[o] = "work" /\ pos'[g] = pos[g] + 1
          /\ UNCHANGED <<owner, committed>>
      BY <1>0, <2>1 DEF Poll, Goto
    <3> QED
      BY <1>0, <3>1 DEF Past
  <2>2. CASE \/ Poison(o) \/ Embed(o) \/ AttemptFails(o) \/ StoreAmbiguous(o)
             \/ \E source \in Source : ChunkAmbiguous(o, source)
    <3>1. /\ pc[o] \in {"work", "write"} /\ pc'[o] \in {"work", "write", "dead"}
          /\ UNCHANGED offsets
      BY <1>0, <2>2 DEF Poison, Embed, AttemptFails, StoreAmbiguous, ChunkAmbiguous, FailAttempt,
         Goto
    <3> QED
      BY <1>0, <3>1 DEF Past, offsets
  <2>3. CASE EmbedCrashes(o) \/ Crash(o)
    <3>1. pc'[o] = "down" /\ UNCHANGED offsets
      BY <1>0, <2>3 DEF EmbedCrashes, Crash, Goto
    <3> QED
      BY <1>0, <3>1 DEF Past, offsets
  <2>4. CASE Commit(o) \/ CommitFails(o)
    <3>1. /\ pc[o] = "commit" /\ pc'[o] = "idle" /\ UNCHANGED <<owner, pos>>
          /\ committed'[g] \in {committed[g], cur[o]}
      BY <1>0, <2>4 DEF Commit, CommitFails, CommitOffset, Goto, offsets
    <3> QED
      BY <1>0, <3>1 DEF Past, Busy
  <2>5. CASE Restart(o)
    <3>1. /\ pc'[o] = "idle" /\ pos'[g] = committed[g] /\ UNCHANGED <<owner, committed>>
      BY <1>0, <2>5 DEF Restart, Rewind, Goto
    <3> QED
      BY <1>0, <3>1 DEF Past
  <2>6. CASE Skip(o) \/ Store(o) \/ DeadLetter(o) \/ \E source \in Source : Chunk(o, source)
    <3>1. /\ pc[o] \in {"work", "write", "dead"} /\ pc'[o] = "commit"
          /\ UNCHANGED offsets
      BY <1>0, <2>6 DEF Skip, Store, DeadLetter, Chunk, Goto
    <3>2. Past(g, n) \/ n = pos[g]
      BY <1>0, <3>1 DEF Past, offsets
    <3>3. cur[o] = pos[g]
      BY <1>0, <3>1 DEF Busy
    <3> QED
      BY <1>0, <2>6, <3>1, <3>2, <3>3
  <2> QED
    BY <1>4, <2>1, <2>2, <2>3, <2>4, <2>5, <2>6
       DEF Step, Fault, Orderly, Inject, DeadLetterLost, Rebalance
<1> QED
  BY <1>1, <1>2, <1>3, <1>4 DEF Next

\* Who does not own its group's partition gets nothing to do (Poll, Rebalance).
LEMMA OwnersWorkStep ==
  ASSUME Orderly, TypeInv, OwnersWork, [Next]_vars
  PROVE  OwnersWork'
<1> USE InstanceFacts
<1>1. CASE \/ UNCHANGED vars
           \/ \E p \in Paper, v \in Version, valid \in BOOLEAN : Announce(p, v, valid)
  BY <1>1 DEF vars, Announce, offsets, OwnersWork, GroupOf
<1>2. CASE \E i \in Instance : Step(i) \/ Fault(i)
  <2> PICK i \in Instance : Step(i) \/ Fault(i)
    BY <1>2
  <2>1. owner' = owner
    BY DEF Orderly, Step, Fault, Poll, Poison, Chunk, Skip, Embed, EmbedCrashes, Store,
       AttemptFails, DeadLetter, Commit, Restart, ChunkAmbiguous, StoreAmbiguous,
       DeadLetterLost, CommitFails, Crash, Rebalance, Inject, offsets
  <2>2. \A j \in Instance : j # i => pc'[j] = pc[j]
    BY DEF Orderly, Step, Fault, Poll, Poison, Chunk, Skip, Embed, EmbedCrashes, Store,
       AttemptFails, DeadLetter, Commit, Restart, ChunkAmbiguous, StoreAmbiguous,
       DeadLetterLost, CommitFails, Crash, Rebalance, Inject, FailAttempt, Goto
  <2>3. \/ pc'[i] \in {"idle", "down"}
        \/ owner[GroupOf(i)] = i /\ pc'[i] # "write"
        \/ owner[GroupOf(i)] = i /\ GroupOf(i) # "fetcher"
    <3>1. CASE Restart(i) \/ Crash(i) \/ EmbedCrashes(i) \/ Commit(i) \/ CommitFails(i)
      BY <3>1 DEF Restart, Crash, EmbedCrashes, Commit, CommitFails, Goto
    <3>2. CASE Poll(i)
      BY <3>2 DEF Poll, Goto
    <3>3. CASE \/ Poison(i) \/ Skip(i) \/ AttemptFails(i) \/ DeadLetter(i) \/ DeadLetterLost(i)
               \/ Store(i) \/ StoreAmbiguous(i)
               \/ \E source \in Source : Chunk(i, source) \/ ChunkAmbiguous(i, source)
      <4>1. pc[i] \in {"work", "write", "dead"} /\ pc'[i] \in {"work", "dead", "commit"}
        BY <3>3 DEF Poison, Skip, AttemptFails, DeadLetter, DeadLetterLost, Store, StoreAmbiguous,
           Chunk, ChunkAmbiguous, FailAttempt, Goto
      <4> QED
        BY <4>1 DEF OwnersWork
    <3>4. CASE Embed(i)
      BY <3>4 DEF Embed, OwnersWork
    <3> QED
      BY <3>1, <3>2, <3>3, <3>4 DEF Step, Fault, Orderly, Inject, Rebalance
  <2> QED
    BY <2>1, <2>2, <2>3 DEF OwnersWork, GroupOf
<1> QED
  BY <1>1, <1>2 DEF Next

\* A new announcement is of the newest version and not past anybody.
LEMMA AnnounceSettles ==
  ASSUME Orderly, BaseInv, SettleInv, NEW q \in Paper, NEW v \in Version, NEW valid \in BOOLEAN,
         Announce(q, v, valid)
  PROVE  /\ InOrder' /\ KnownVersions' /\ FetchedNewest' /\ FullTextStays' /\ VersionStays'
         /\ \A p \in Paper, k \in DOMAIN chunked : NewestStored(p, k)' => NewestStored(p, k)
<1> USE DEF BaseInv, SettleInv
<1>1. /\ new' = Append(new, [id |-> q, version |-> v, valid |-> valid])
      /\ \A n \in DOMAIN new : new[n].id = q => new[n].version <= v
      /\ UNCHANGED <<chunked, failed, row, owner, pos, committed, pc>>
  BY DEF Announce, Orderly, tables, offsets
<1>2. /\ DOMAIN new = 1..Len(new) /\ Len(new) \in Nat /\ DOMAIN new' = 1..(Len(new) + 1)
      /\ \A n \in DOMAIN new : new'[n] = new[n]
      /\ new'[Len(new) + 1] = [id |-> q, version |-> v, valid |-> valid]
  BY <1>1 DEF TypeInv, TypeOK
<1>3. \A p : Announced(p) \subseteq Announced(p)' /\ (p # q => Announced(p)' = Announced(p))
  BY <1>2 DEF Announced
<1>4. \A g, n : Past(g, n)' <=> Past(g, n)
  BY <1>1 DEF Past
<1>5. \A p : NeverFailed(p)' <=> NeverFailed(p)
  BY <1>1 DEF NeverFailed
<1>6. ASSUME NEW g \in {"fetcher", "fast"} PROVE ~Past(g, Len(new) + 1)
  <2>1. pos[g] \in Nat /\ committed[g] \in Nat /\ pos[g] <= Len(new) /\ committed[g] <= Len(new)
    BY InstanceFacts DEF TypeInv, OffsetsOK, Log, Group
  <2> QED
    BY <1>2, <2>1 DEF Past
<1>7. ASSUME NEW p \in Paper, NEW g \in {"fetcher", "fast"}, AllPast(g, p)'
      PROVE  p # q /\ AllPast(g, p)
  BY <1>2, <1>4, <1>6, <1>7 DEF AllPast
<1>8. InOrder'
  BY <1>1, <1>2, SettleTypes DEF InOrder, Version
<1>9. KnownVersions'
  BY <1>1, <1>3 DEF KnownVersions
<1>10. FetchedNewest'
  BY <1>1, <1>3, <1>5, <1>7 DEF FetchedNewest, Newest, LastOf
<1>11. ASSUME NEW p \in Paper, NEW k \in DOMAIN chunked, NewestStored(p, k)'
       PROVE  NewestStored(p, k)
  BY <1>1, <1>3, <1>4, <1>5, <1>11 DEF NewestStored, LastOf, Newest
<1>12. FullTextStays'
  BY <1>1, <1>11 DEF FullTextStays
<1>13. VersionStays'
  BY <1>1, <1>7, <1>11 DEF VersionStays
<1> QED
  BY <1>8, <1>9, <1>10, <1>11, <1>12, <1>13

\* A busy owner is not past the message it handles.
LEMMA NotPastCurrent ==
  ASSUME BaseInv, NEW i \in Instance, i = owner[GroupOf(i)], pc[i] \in {"work", "write", "dead"}
  PROVE  ~Past(GroupOf(i), cur[i]) /\ cur[i] \in DOMAIN Log(GroupOf(i))
<1>1. GroupOf(i) \in Group
  BY GroupOfInstance
<1>2. /\ cur[i] = pos[GroupOf(i)] /\ committed[GroupOf(i)] < pos[GroupOf(i)]
      /\ pos[GroupOf(i)] \in Nat /\ committed[GroupOf(i)] \in Nat
      /\ cur[i] \in 1..Len(Log(GroupOf(i)))
  BY <1>1, InstanceFacts DEF BaseInv, LossInv, NothingSkipped, CommitsBehind, Busy, TypeInv, OffsetsOK
<1>3. DOMAIN Log(GroupOf(i)) = 1..Len(Log(GroupOf(i)))
  BY SettleTypes DEF BaseInv, Log
<1> QED
  BY <1>2, <1>3 DEF Past

\* In a group past its last message, everything about the paper was announced at or
\* before that message, which is therefore the newest.
LEMMA HandledNewest ==
  ASSUME Orderly, BaseInv, SettleInv, [Next]_vars, UNCHANGED new,
         NEW p \in Paper, NEW g \in {"fetcher", "fast"}, AllPast(g, p)', ~AllPast(g, p)
  PROVE  \E i \in Instance :
           /\ i = owner[g] /\ GroupOf(i) = g /\ pc[i] \in {"work", "write", "dead"}
           /\ cur[i] \in DOMAIN new /\ new[cur[i]].id = p /\ Newest(p, new[cur[i]].version)
           /\ \/ \E source \in Source : Chunk(i, source)
              \/ Skip(i) \/ Store(i) \/ DeadLetter(i)
<1> USE DEF SettleInv
<1>0. g \in Group
  BY DEF Group
<1>1. PICK n \in DOMAIN new : new[n].id = p /\ ~Past(g, n)
  BY DEF AllPast
<1>2. n \in Nat /\ Past(g, n)'
  BY <1>1, SettleTypes DEF AllPast, BaseInv
<1>3. PICK i \in Instance :
        /\ i = owner[g] /\ GroupOf(i) = g /\ pc[i] \in {"work", "write", "dead"}
        /\ cur[i] = n /\ pos[g] = n
        /\ \/ \E source \in Source : Chunk(i, source)
           \/ Skip(i) \/ Store(i) \/ DeadLetter(i)
  BY <1>0, <1>1, <1>2, PastStep
<1>4. ASSUME NEW k \in DOMAIN new, new[k].id = p PROVE k <= n
  <2>1. Past(g, k)' /\ k \in Nat
    BY <1>4, SettleTypes DEF AllPast, BaseInv
  <2>2. Past(g, k) \/ k = n
    BY <1>0, <1>3, <2>1, PastStep
  <2>3. committed[g] \in Nat /\ committed[g] <= n
    BY <1>0, <1>3, InstanceFacts DEF BaseInv, CommitsBehind
  <2> QED
    BY <1>2, <1>3, <2>1, <2>2, <2>3 DEF Past
<1>5. Newest(p, new[n].version)
  BY <1>1, <1>4, AnnouncedFacts DEF Newest, InOrder
<1> QED
  BY <1>1, <1>3, <1>5

\* The fetcher's document becomes the last one of its paper, which the full-text
\* worker has not reached.
LEMMA ChunkSettles ==
  ASSUME Orderly, BaseInv, SettleInv, [Next]_vars, NEW i \in Instance, NEW source \in Source,
         Chunk(i, source) \/ ChunkAmbiguous(i, source)
  PROVE  /\ InOrder' /\ KnownVersions' /\ FetchedNewest' /\ FullTextStays' /\ VersionStays'
         /\ \A p \in Paper, k \in DOMAIN chunked' : NewestStored(p, k)' =>
              k \in DOMAIN chunked /\ NewestStored(p, k) /\ chunked'[k] = chunked[k]
<1> USE DEF BaseInv, SettleInv
<1> DEFINE doc == [Handled(i) EXCEPT !.source = source]
           last == Len(chunked) + 1
<1>1. /\ GroupOf(i) = "fetcher" /\ i = owner["fetcher"] /\ pc[i] = "work"
      /\ chunked' = Append(chunked, doc)
      /\ UNCHANGED <<new, failed, row, owner, pos, committed>>
  BY DEF Chunk, ChunkAmbiguous, OwnersWork, tables, offsets
<1>2. /\ cur[i] \in DOMAIN new /\ ~Past("fetcher", cur[i])
      /\ doc.id = new[cur[i]].id /\ doc.version = new[cur[i]].version /\ doc \in Doc
  <2>1. cur[i] \in DOMAIN new /\ ~Past("fetcher", cur[i])
    BY <1>1, NotPastCurrent DEF Log
  <2>2. Handled(i) = [id |-> new[cur[i]].id, version |-> new[cur[i]].version, source |-> "abstract"]
    BY <1>1 DEF Handled
  <2>3. doc = [id |-> new[cur[i]].id, version |-> new[cur[i]].version, source |-> source]
    BY <2>2
  <2>4. new[cur[i]] \in Message
    BY <2>1 DEF TypeInv, TypeOK
  <2> QED
    BY <2>1, <2>3, <2>4 DEF Message, Doc
<1> HIDE DEF doc
<1>3. /\ DOMAIN chunked = 1..Len(chunked) /\ Len(chunked) \in Nat /\ DOMAIN chunked' = 1..last
      /\ \A k \in DOMAIN chunked : chunked'[k] = chunked[k]
      /\ chunked'[last] = doc
  BY <1>1, <1>2 DEF TypeInv, TypeOK
<1>4. \A p : Announced(p)' = Announced(p) /\ (NeverFailed(p)' <=> NeverFailed(p))
  BY <1>1 DEF Announced, NeverFailed
<1>5. ASSUME NEW g \in {"fast", "full"} PROVE \A n : Past(g, n)' <=> Past(g, n)
  <2>1. owner[g] # i /\ pc'[owner[g]] = pc[owner[g]]
    BY <1>1, InstanceFacts DEF Group, Chunk, ChunkAmbiguous, FailAttempt, Goto
  <2> QED
    BY <1>1, <2>1 DEF Past
<1>6. ~Past("full", last)
  <2>1. pos["full"] \in Nat /\ committed["full"] \in Nat /\ pos["full"] <= Len(chunked)
        /\ committed["full"] <= Len(chunked)
    BY InstanceFacts DEF TypeInv, OffsetsOK, Log, Group
  <2> QED
    BY <1>3, <2>1 DEF Past
<1>7. InOrder'
  BY <1>1 DEF InOrder
<1>8. KnownVersions'
  <2>1. doc.version \in Announced(doc.id)
    BY <1>2, AnnouncedFacts
  <2> QED
    BY <1>1, <1>3, <1>4, <2>1 DEF KnownVersions
<1>9. FetchedNewest'
  <2> SUFFICES ASSUME NEW p \in Paper, Announced(p)' # {}, AllPast("fetcher", p)', NeverFailed(p)'
               PROVE  (\E k \in DOMAIN chunked :
                         LastOf(chunked, p, k) /\ Newest(p, chunked[k].version))'
    BY DEF FetchedNewest
  <2>1. CASE AllPast("fetcher", p)
    <3>1. PICK k \in DOMAIN chunked : LastOf(chunked, p, k) /\ Newest(p, chunked[k].version)
      BY <1>4, <2>1 DEF FetchedNewest
    <3>2. doc.id # p
      BY <1>2, <2>1 DEF AllPast
    <3>3. k \in DOMAIN chunked' /\ LastOf(chunked, p, k)'
      BY <1>3, <3>1, <3>2 DEF LastOf
    <3>4. Newest(p, chunked[k].version)'
      BY <1>3, <1>4, <3>1 DEF Newest
    <3> QED
      BY <3>3, <3>4
  <2>2. CASE ~AllPast("fetcher", p)
    <3>1. PICK j \in Instance :
            /\ j = owner["fetcher"] /\ new[cur[j]].id = p /\ Newest(p, new[cur[j]].version)
      BY <1>1, <2>2, HandledNewest
    <3>2. doc.id = p /\ Newest(p, doc.version)
      BY <1>1, <1>2, <3>1
    <3>3. last \in DOMAIN chunked' /\ chunked'[last].id = p /\ chunked'[last].version = doc.version
      BY <1>3, <3>2
    <3>4. \A k \in DOMAIN chunked' : k <= last
      BY <1>3
    <3>5. \E k \in DOMAIN chunked' :
            /\ chunked'[k].id = p
            /\ \A m \in DOMAIN chunked' : chunked'[m].id = p => m <= k
            /\ \A w \in Announced(p)' : w <= chunked'[k].version
      BY <1>4, <3>2, <3>3, <3>4 DEF Newest
    <3> QED
      BY <3>5 DEF LastOf, Newest
  <2> QED
    BY <2>1, <2>2
<1>10. ASSUME NEW p \in Paper, NEW k \in DOMAIN chunked', NewestStored(p, k)'
       PROVE  k \in DOMAIN chunked /\ NewestStored(p, k)
  <2>1. Past("full", k)
    BY <1>5, <1>10 DEF NewestStored
  <2>2. k \in DOMAIN chunked
    BY <1>3, <1>6, <2>1
  <2>3. LastOf(chunked, p, k)' /\ Newest(p, chunked[k].version)' /\ NeverFailed(p)'
    BY <1>10 DEF NewestStored
  <2>4. LastOf(chunked, p, k)
    BY <1>3, <2>2, <2>3 DEF LastOf
  <2>5. Newest(p, chunked[k].version) /\ NeverFailed(p)
    BY <1>3, <1>4, <2>2, <2>3 DEF Newest
  <2> QED
    BY <2>1, <2>2, <2>4, <2>5 DEF NewestStored
<1>11. FullTextStays'
  BY <1>1, <1>3, <1>10 DEF FullTextStays
<1>12. VersionStays'
  <2>1. \A p \in Paper : AllPast("fast", p)' => AllPast("fast", p)
    BY <1>1, <1>5 DEF AllPast
  <2> QED
    BY <1>1, <1>3, <1>10, <2>1 DEF VersionStays
<1> QED
  BY <1>3, <1>7, <1>8, <1>9, <1>10, <1>11, <1>12

\* Everything but the tables and the group's progress stays where it was.
SameTopics == UNCHANGED <<new, chunked>> /\ failed \subseteq failed'

\* What a step that leaves the topics alone keeps of an announced or chunked version.
LEMMA SameTopicsFacts ==
  ASSUME SameTopics
  PROVE  /\ \A p : Announced(p)' = Announced(p) /\ (NeverFailed(p)' => NeverFailed(p))
         /\ \A p, k : Newest(p, chunked[k].version)' <=> Newest(p, chunked[k].version)
         /\ \A p, k : NewestStored(p, k)' /\ Past("full", k) => NewestStored(p, k)
<1>1. \A p : Announced(p)' = Announced(p) /\ (NeverFailed(p)' => NeverFailed(p))
  BY DEF SameTopics, Announced, NeverFailed
<1>2. \A p, k : Newest(p, chunked[k].version)' <=> Newest(p, chunked[k].version)
  BY <1>1 DEF Newest, SameTopics
<1>3. \A p, k : LastOf(chunked, p, k)' <=> LastOf(chunked, p, k)
  BY DEF SameTopics, LastOf
<1>4. ASSUME NEW p, NEW k, NewestStored(p, k)', Past("full", k) PROVE NewestStored(p, k)
  <2>1. LastOf(chunked, p, k)' /\ Newest(p, chunked[k].version)' /\ NeverFailed(p)'
    BY <1>4 DEF NewestStored
  <2>2. LastOf(chunked, p, k) /\ Newest(p, chunked[k].version) /\ NeverFailed(p)
    BY <1>1, <1>2, <1>3, <2>1
  <2> QED
    BY <1>4, <2>2 DEF NewestStored
<1> QED
  BY <1>1, <1>2, <1>4

\* The fetcher's part of the invariant when it chunks nothing: a message it gives up
\* is on papers.failed.
LEMMA FetchedStays ==
  ASSUME Orderly, BaseInv, SettleInv, [Next]_vars, SameTopics,
         \A i \in Instance, source \in Source : ~Chunk(i, source)
  PROVE  FetchedNewest'
<1>1. ASSUME NEW p \in Paper, AllPast("fetcher", p)', NeverFailed(p)' PROVE AllPast("fetcher", p)
  <2> SUFFICES ASSUME ~AllPast("fetcher", p) PROVE FALSE
    OBVIOUS
  <2>0. UNCHANGED new
    BY DEF SameTopics
  <2>1. PICK i \in Instance :
          /\ i = owner["fetcher"] /\ GroupOf(i) = "fetcher" /\ pc[i] \in {"work", "write", "dead"}
          /\ cur[i] \in DOMAIN new /\ new[cur[i]].id = p
          /\ Skip(i) \/ Store(i) \/ DeadLetter(i)
    BY <1>1, <2>0, HandledNewest
  <2>2. DeadLetter(i)
    BY <2>1 DEF Skip, Store, SettleInv, OwnersWork
  <2>3. Handled(i).id = p
    BY <2>1 DEF Handled
  <2> DEFINE dead == [id |-> Handled(i).id, version |-> Handled(i).version, stage |-> GroupOf(i)]
  <2>4. dead \in failed'
    BY <2>2 DEF DeadLetter
  <2>5. dead.id = p
    BY <2>3
  <2> QED
    BY <1>1, <2>4, <2>5 DEF NeverFailed
<1>2. \A p, k : LastOf(chunked, p, k)' <=> LastOf(chunked, p, k)
  BY DEF SameTopics, LastOf
<1> SUFFICES ASSUME NEW p \in Paper, Announced(p)' # {}, AllPast("fetcher", p)', NeverFailed(p)'
             PROVE  (\E k \in DOMAIN chunked :
                       LastOf(chunked, p, k) /\ Newest(p, chunked[k].version))'
  BY DEF FetchedNewest
<1>3. Announced(p) # {} /\ AllPast("fetcher", p) /\ NeverFailed(p)
  BY <1>1, SameTopicsFacts
<1>4. PICK k \in DOMAIN chunked : LastOf(chunked, p, k) /\ Newest(p, chunked[k].version)
  BY <1>3 DEF SettleInv, FetchedNewest
<1>5. /\ k \in DOMAIN chunked' /\ chunked'[k].id = p
      /\ \A m \in DOMAIN chunked' : chunked'[m].id = p => m <= k
      /\ \A w \in Announced(p)' : w <= chunked'[k].version
  BY <1>4, SameTopicsFacts DEF SameTopics, LastOf, Newest
<1> QED
  BY <1>5 DEF LastOf, Newest

\* What one upsert leaves in the row of a paper.
LEMMA UpsertRow ==
  ASSUME TypeInv, NEW i \in Instance, pc[i] \in Busy, Upsert(i)
  PROVE  /\ \A p \in Paper : p # Handled(i).id => row'[p] = row[p]
         /\ Refused(row[Handled(i).id], Handled(i)) => row' = row
         /\ ~Refused(row[Handled(i).id], Handled(i)) =>
              /\ row'[Handled(i).id].version = Handled(i).version
              /\ row'[Handled(i).id].source = Handled(i).source
              /\ GroupOf(i) # "full" =>
                   row'[Handled(i).id].summary = row[Handled(i).id].summary
              /\ GroupOf(i) = "full" /\ FALSE \notin Summarizing =>
                   row'[Handled(i).id].summary = Handled(i).version
<1> DEFINE doc == Handled(i)
<1>1. doc \in Doc
  BY HandledDoc
<1>2. doc.id \in Paper /\ row \in [Paper -> Row]
  BY <1>1 DEF Doc, TypeInv, TypeOK
<1>3. CASE Refused(row[doc.id], doc)
  BY <1>3, UpsertCases
<1>4. CASE ~Refused(row[doc.id], doc)
  <2>1. PICK summary \in 0..MaxVersion :
          /\ row' = [row EXCEPT ![doc.id] = Upserted(row[doc.id], doc, summary)]
          /\ GroupOf(i) # "full" => summary = 0
          /\ GroupOf(i) = "full" /\ FALSE \notin Summarizing => summary = doc.version
    BY <1>4, UpsertCases
  <2>2. row'[doc.id] = Upserted(row[doc.id], doc, summary)
    BY <1>2, <2>1
  <2>3. /\ row'[doc.id].version = doc.version /\ row'[doc.id].source = doc.source
        /\ row'[doc.id].summary = MergedSummary(row[doc.id].summary, summary)
    BY <2>2 DEF Upserted
  <2>4. doc.version # 0
    BY <1>1 DEF Doc, Version
  <2>5. /\ GroupOf(i) # "full" => row'[doc.id].summary = row[doc.id].summary
        /\ GroupOf(i) = "full" /\ FALSE \notin Summarizing =>
             row'[doc.id].summary = doc.version
    BY <2>1, <2>3, <2>4 DEF MergedSummary
  <2> QED
    BY <1>2, <1>4, <2>1, <2>3, <2>5
<1> QED
  BY <1>3, <1>4

\* The fast path handles announcements; the full-text worker handles its topic.
LEMMA HandledMessage ==
  ASSUME TypeInv, NEW i \in Instance, pc[i] \in Busy
  PROVE  /\ GroupOf(i) = "full" =>
              cur[i] \in DOMAIN chunked /\ Handled(i) = chunked[cur[i]]
         /\ GroupOf(i) # "full" =>
              /\ cur[i] \in DOMAIN new /\ Handled(i).source = "abstract"
              /\ Handled(i).id = new[cur[i]].id /\ Handled(i).version = new[cur[i]].version
         /\ Handled(i) \in Doc /\ Handled(i).id \in Paper /\ Handled(i).version \in Nat
<1>1. cur[i] \in 1..Len(Log(GroupOf(i)))
  BY DEF TypeInv, OffsetsOK
<1>2. CASE GroupOf(i) = "full"
  BY <1>1, <1>2, SettleTypes, HandledDoc DEF Handled, Log, Doc, Version
<1>3. CASE GroupOf(i) # "full"
  <2>1. Handled(i) = [id |-> new[cur[i]].id, version |-> new[cur[i]].version, source |-> "abstract"]
    BY <1>3 DEF Handled
  <2> QED
    BY <1>1, <1>3, <2>1, SettleTypes, HandledDoc DEF Log, Doc, Version
<1> QED
  BY <1>2, <1>3

\* A handled version has been announced.
LEMMA HandledAnnounced ==
  ASSUME TypeInv, KnownVersions, NEW i \in Instance, pc[i] \in Busy
  PROVE  Handled(i).version \in Announced(Handled(i).id)
<1>1. CASE GroupOf(i) = "full"
  BY <1>1, HandledMessage DEF KnownVersions
<1>2. CASE GroupOf(i) # "full"
  BY <1>2, HandledMessage, AnnouncedFacts
<1> QED
  BY <1>1, <1>2

\* Who is past a message is past those before it.
LEMMA PastBefore ==
  ASSUME BaseInv, NEW g \in Group, NEW n \in Nat, NEW k \in Nat, k <= n, Past(g, n)
  PROVE  Past(g, k)
  BY InstanceFacts DEF BaseInv, TypeInv, TypeOK, Past

\* No version is newer than the newest one that was announced.
LEMMA NewestIsLargest ==
  ASSUME BaseInv, KnownVersions, NEW p \in Paper, NEW v \in Announced(p), Newest(p, v)
  PROVE  /\ row[p].version <= v
         /\ \A w \in Announced(p) : Newest(p, w) => w = v
<1>1. \A w \in Announced(p) : w \in Nat /\ w <= v
  BY SettleTypes DEF BaseInv, Newest
<1>2. row[p].version <= v
  <2>1. CASE row[p].version \in Announced(p)
    BY <1>1, <2>1
  <2>2. CASE row[p].version = 0
    <3>1. v \in Nat
      BY <1>1
    <3> QED
      BY <2>2, <3>1
  <2> QED
    BY <2>1, <2>2 DEF KnownVersions
<1>3. ASSUME NEW w \in Announced(p), Newest(p, w) PROVE w = v
  <2>1. v <= w
    BY <1>3 DEF Newest
  <2> QED
    BY <1>1, <2>1
<1> QED
  BY <1>2, <1>3

\* No upsert touches the version of a settled row: the fast path is refused or past
\* the paper, and the full-text worker past its last document.
LEMMA SettledRowStays ==
  ASSUME BaseInv, SettleInv, [Next]_vars, NEW p \in Paper, NEW k \in DOMAIN chunked,
         NewestStored(p, k), chunked[k].source = "full" \/ AllPast("fast", p)
  PROVE  row'[p] = row[p]
<1> USE DEF SettleInv
<1>1. CASE UNCHANGED tables
  BY <1>1 DEF tables
<1>2. CASE \E i \in Instance : pc[i] = "write" /\ pc[i] \in Busy /\ Upsert(i)
  <2> PICK i \in Instance : pc[i] = "write" /\ pc[i] \in Busy /\ Upsert(i)
    BY <1>2
  <2>1. i = owner[GroupOf(i)] /\ GroupOf(i) \in {"fast", "full"}
    BY GroupOfInstance DEF OwnersWork, Group
  <2>2. ~Past(GroupOf(i), cur[i])
    BY <2>1, NotPastCurrent
  <2>3. CASE p # Handled(i).id
    BY <2>3, UpsertRow DEF BaseInv
  <2>4. CASE p = Handled(i).id /\ GroupOf(i) = "full"
    <3>1. cur[i] \in DOMAIN chunked /\ chunked[cur[i]].id = p
      BY <2>4, HandledMessage DEF BaseInv
    <3>2. cur[i] <= k /\ cur[i] \in Nat /\ k \in Nat /\ Past("full", k)
      BY <3>1, SettleTypes DEF NewestStored, LastOf, BaseInv
    <3> QED
      BY <2>2, <2>4, <3>2, PastBefore DEF Group
  <2>5. CASE p = Handled(i).id /\ GroupOf(i) = "fast"
    <3>1. cur[i] \in DOMAIN new /\ new[cur[i]].id = p /\ Handled(i).source = "abstract"
      BY <2>5, HandledMessage DEF BaseInv
    <3>2. ~AllPast("fast", p)
      BY <2>2, <2>5, <3>1 DEF AllPast
    <3>3. row[p].source = "full" /\ row[p].version = chunked[k].version
      BY <3>2 DEF FullTextStays
    <3>4. Handled(i).version <= chunked[k].version
      BY <2>5, HandledAnnounced DEF NewestStored, Newest, BaseInv
    <3>5. Handled(i).version \in Nat /\ chunked[k].version \in Nat
      BY SettleTypes, HandledMessage DEF BaseInv
    <3>6. Refused(row[p], Handled(i))
      BY <3>1, <3>3, <3>4, <3>5 DEF Refused, HasFullText
    <3> QED
      BY <2>5, <3>6, UpsertRow DEF BaseInv
  <2> QED
    BY <2>1, <2>3, <2>4, <2>5
<1> QED
  BY <1>1, <1>2, OnlyUpserts

\* A worker that finishes a message of the newest version leaves the row at it, and
\* at full text if the message has some.
LEMMA FinishedNewest ==
  ASSUME BaseInv, SettleInv, NEW i \in Instance, pc[i] \in Busy,
         Skip(i) \/ Store(i), Newest(Handled(i).id, Handled(i).version)
  PROVE  /\ row'[Handled(i).id].version = Handled(i).version
         /\ Handled(i).source = "full" => row'[Handled(i).id].source = "full"
<1> DEFINE doc == Handled(i)
<1> USE DEF SettleInv
<1>1. /\ doc.id \in Paper /\ doc.version \in Nat /\ doc.version \in Announced(doc.id)
      /\ row[doc.id].version \in Nat
  BY HandledMessage, HandledAnnounced, SettleTypes DEF BaseInv
<1>2. row[doc.id].version <= doc.version
  BY <1>1, NewestIsLargest
<1>3. CASE doc.source = "abstract" /\ HasFullText(row[doc.id], doc.version) /\ row' = row
  BY <1>1, <1>2, <1>3 DEF HasFullText
<1>4. CASE Store(i) /\ ~Refused(row[doc.id], doc)
  BY <1>4, UpsertRow DEF BaseInv, Store
<1>5. CASE Store(i) /\ Refused(row[doc.id], doc)
  BY <1>3, <1>5, UpsertRow DEF BaseInv, Store, Refused
<1>6. CASE Skip(i)
  BY <1>3, <1>6 DEF Skip, Superfluous, tables
<1> QED
  BY <1>4, <1>5, <1>6

\* The full-text worker gets past the last document of a settled paper by finishing it.
LEMMA FullTextFinished ==
  ASSUME Orderly, BaseInv, SettleInv, [Next]_vars, SameTopics,
         NEW p \in Paper, NEW k \in DOMAIN chunked, NewestStored(p, k)', ~Past("full", k)
  PROVE  \E i \in Instance :
           /\ GroupOf(i) = "full" /\ pc[i] \in Busy /\ Handled(i) = chunked[k]
           /\ chunked[k].id = p /\ Newest(p, chunked[k].version)
           /\ Skip(i) \/ Store(i)
<1> USE DEF SettleInv
<1>1. k \in Nat /\ Past("full", k)'
  BY SettleTypes DEF BaseInv, NewestStored
<1>2. PICK i \in Instance :
        /\ GroupOf(i) = "full" /\ pc[i] \in {"work", "write", "dead"} /\ cur[i] = k
        /\ \/ \E source \in Source : Chunk(i, source)
           \/ Skip(i) \/ Store(i) \/ DeadLetter(i)
  BY <1>1, PastStep DEF Group
<1>3. pc[i] \in Busy /\ Handled(i) = chunked[k]
  BY <1>2 DEF Busy, Handled
<1>4. chunked[k].id = p /\ Newest(p, chunked[k].version) /\ NeverFailed(p)'
  <2>1. LastOf(chunked, p, k)' /\ Newest(p, chunked[k].version)' /\ NeverFailed(p)'
    BY DEF NewestStored
  <2> QED
    BY <2>1, SameTopicsFacts DEF LastOf, SameTopics
<1>5. ~DeadLetter(i)
  <2> DEFINE dead == [id |-> Handled(i).id, version |-> Handled(i).version, stage |-> GroupOf(i)]
  <2> SUFFICES ASSUME DeadLetter(i) PROVE FALSE
    OBVIOUS
  <2>1. dead \in failed'
    BY DEF DeadLetter
  <2>2. dead.id = p
    BY <1>3, <1>4
  <2> QED
    BY <1>4, <2>1, <2>2 DEF NeverFailed
<1>6. Skip(i) \/ Store(i)
  BY <1>2, <1>5 DEF Chunk
<1> QED
  BY <1>2, <1>3, <1>4, <1>6

\* It leaves the row at the document's version, and at full text if it has some.
LEMMA FullTextArrives ==
  ASSUME Orderly, BaseInv, SettleInv, [Next]_vars, SameTopics,
         NEW p \in Paper, NEW k \in DOMAIN chunked, NewestStored(p, k)', ~Past("full", k)
  PROVE  /\ row'[p].version = chunked[k].version
         /\ chunked[k].source = "full" => row'[p].source = "full"
<1>1. PICK i \in Instance :
        /\ GroupOf(i) = "full" /\ pc[i] \in Busy /\ Handled(i) = chunked[k]
        /\ chunked[k].id = p /\ Newest(p, chunked[k].version)
        /\ Skip(i) \/ Store(i)
  BY FullTextFinished
<1> QED
  BY <1>1, FinishedNewest

\* The fast path gets past the last announcement of a paper by finishing it.
LEMMA AbstractArrives ==
  ASSUME Orderly, BaseInv, SettleInv, [Next]_vars, SameTopics, NEW p \in Paper,
         AllPast("fast", p)', ~AllPast("fast", p), NeverFailed(p)',
         NEW v \in Announced(p), Newest(p, v)
  PROVE  row'[p].version = v
<1> USE DEF SettleInv
<1>0. UNCHANGED new
  BY DEF SameTopics
<1>1. PICK i \in Instance :
        /\ GroupOf(i) = "fast" /\ pc[i] \in {"work", "write", "dead"}
        /\ cur[i] \in DOMAIN new /\ new[cur[i]].id = p /\ Newest(p, new[cur[i]].version)
        /\ \/ \E source \in Source : Chunk(i, source)
           \/ Skip(i) \/ Store(i) \/ DeadLetter(i)
  BY <1>0, HandledNewest
<1>2. /\ pc[i] \in Busy /\ Handled(i).id = p /\ Newest(p, Handled(i).version)
  <2>1. pc[i] \in Busy
    BY <1>1 DEF Busy
  <2> QED
    BY <1>1, <2>1, HandledMessage DEF BaseInv
<1>3. Handled(i).version = v
  BY <1>2, HandledAnnounced, NewestIsLargest DEF BaseInv
<1>4. ~DeadLetter(i)
  <2> DEFINE dead == [id |-> Handled(i).id, version |-> Handled(i).version, stage |-> GroupOf(i)]
  <2> SUFFICES ASSUME DeadLetter(i) PROVE FALSE
    OBVIOUS
  <2>1. dead \in failed'
    BY DEF DeadLetter
  <2>2. dead.id = p
    BY <1>2
  <2> QED
    BY <2>1, <2>2 DEF NeverFailed
<1>5. Skip(i) \/ Store(i)
  BY <1>1, <1>4 DEF Chunk
<1> QED
  BY <1>2, <1>3, <1>5, FinishedNewest

\* Steps that leave papers.new and papers.chunked alone keep the index settling.
LEMMA TableSettles ==
  ASSUME Orderly, BaseInv, SettleInv, [Next]_vars, SameTopics
  PROVE  InOrder' /\ KnownVersions' /\ FetchedNewest' /\ FullTextStays' /\ VersionStays'
<1> USE DEF SettleInv
<1>1. InOrder'
  BY DEF InOrder, SameTopics
<1>2. KnownVersions'
  <2>1. ASSUME NEW p \in Paper PROVE row'[p].version \in Announced(p) \cup {0}
    <3>1. CASE row'[p] = row[p]
      BY <3>1 DEF KnownVersions
    <3>2. CASE row'[p] # row[p]
      <4>1. PICK i \in Instance : pc[i] \in Busy /\ Upsert(i)
        BY <3>2, OnlyUpserts DEF tables
      <4> QED
        BY <3>2, <4>1, UpsertRow, HandledAnnounced DEF BaseInv
    <3> QED
      BY <3>1, <3>2
  <2> QED
    BY <2>1, SameTopicsFacts DEF KnownVersions, SameTopics
<1>3. FetchedNewest'
  <2>1. \A i \in Instance, source \in Source : ~Chunk(i, source)
    BY DEF SameTopics, Chunk, BaseInv, TypeInv, TypeOK
  <2> QED
    BY <2>1, FetchedStays
<1>4. ASSUME NEW p \in Paper, NEW k \in DOMAIN chunked, NewestStored(p, k)',
             Past("full", k), chunked[k].source = "full"
      PROVE  row'[p].source = "full" /\ row'[p].version = chunked[k].version
  <2>1. NewestStored(p, k)
    BY <1>4, SameTopicsFacts
  <2> QED
    BY <1>4, <2>1, SettledRowStays DEF FullTextStays
<1>5. FullTextStays'
  BY <1>4, FullTextArrives DEF FullTextStays, SameTopics
<1>6. ASSUME NEW p \in Paper, NEW k \in DOMAIN chunked, NewestStored(p, k)',
             Past("full", k), AllPast("fast", p)'
      PROVE  row'[p].version = chunked[k].version
  <2>1. NewestStored(p, k)
    BY <1>6, SameTopicsFacts
  <2>2. CASE AllPast("fast", p)
    BY <2>1, <2>2, SettledRowStays DEF VersionStays
  <2>3. CASE ~AllPast("fast", p)
    <3>1. chunked[k].version \in Announced(p) /\ Newest(p, chunked[k].version)
      BY <2>1 DEF KnownVersions, NewestStored, LastOf
    <3>2. NeverFailed(p)'
      BY <1>6 DEF NewestStored
    <3> QED
      BY <1>6, <2>3, <3>1, <3>2, AbstractArrives
  <2> QED
    BY <2>2, <2>3
<1>7. VersionStays'
  BY <1>6, FullTextArrives DEF VersionStays, SameTopics
<1> QED
  BY <1>1, <1>2, <1>3, <1>5, <1>7

\* A step announces, chunks, or leaves the topics alone.
LEMMA StepKinds ==
  ASSUME [Next]_vars
  PROVE  \/ \E p \in Paper, v \in Version, valid \in BOOLEAN : Announce(p, v, valid)
         \/ \E i \in Instance, source \in Source : Chunk(i, source) \/ ChunkAmbiguous(i, source)
         \/ SameTopics
<1>1. CASE UNCHANGED vars
  BY <1>1 DEF vars, topics, SameTopics
<1>2. ASSUME NEW i \in Instance, Step(i) \/ Fault(i),
             \A source \in Source : ~Chunk(i, source) /\ ~ChunkAmbiguous(i, source)
      PROVE  SameTopics
  BY <1>2 DEF SameTopics, topics, Step, Fault, Poll, Poison, Skip, Embed, EmbedCrashes, Store,
     AttemptFails, DeadLetter, Commit, Restart, StoreAmbiguous, DeadLetterLost, CommitFails,
     Crash, Rebalance
<1> QED
  BY <1>1, <1>2 DEF Next

\* The settling of the index is inductive.
LEMMA SettleStep ==
  ASSUME Orderly, BaseInv, SettleInv, [Next]_vars
  PROVE  SettleInv'
<1>1. OwnersWork'
  BY OwnersWorkStep DEF BaseInv, SettleInv
<1>2. CASE \E p \in Paper, v \in Version, valid \in BOOLEAN : Announce(p, v, valid)
  BY <1>1, <1>2, AnnounceSettles DEF SettleInv
<1>3. CASE \E i \in Instance, source \in Source : Chunk(i, source) \/ ChunkAmbiguous(i, source)
  BY <1>1, <1>3, ChunkSettles DEF SettleInv
<1>4. CASE SameTopics
  BY <1>1, <1>4, TableSettles DEF SettleInv
<1> QED
  BY <1>2, <1>3, <1>4, StepKinds

\* Before anything is announced the index is settled.
LEMMA SettleInit == Init => SettleInv
<1> SUFFICES ASSUME Init PROVE SettleInv
  OBVIOUS
<1>1. /\ DOMAIN new = {} /\ DOMAIN chunked = {} /\ \A i \in Instance : pc[i] = "idle"
      /\ \A p \in Paper : row[p].version = 0
  BY DEF Init, NoRow
<1>2. \A p \in Paper : Announced(p) = {}
  BY <1>1 DEF Announced
<1> QED
  BY <1>1, <1>2 DEF SettleInv, OwnersWork, InOrder, KnownVersions, FetchedNewest, FullTextStays,
     VersionStays

\* In a settled pipeline every group is past everything.
LEMMA SettledIsPast ==
  ASSUME BaseInv, Settled
  PROVE  /\ \A p : AllPast("fetcher", p) /\ AllPast("fast", p)
         /\ \A k \in DOMAIN chunked : Past("full", k)
  BY SettleTypes DEF BaseInv, Settled, CaughtUp, Group, Log, AllPast, Past

\* A settled pipeline holds every paper at its latest version.
LEMMA SettledNewest ==
  ASSUME BaseInv, SettleInv
  PROVE  SettledOnLatest
<1> SUFFICES ASSUME Settled, NEW p \in Paper, Announced(p) # {}, NeverFailed(p)
             PROVE  /\ \A v \in Announced(p) : v <= row[p].version
                    /\ \A n \in DOMAIN chunked :
                         /\ chunked[n].id = p /\ chunked[n].source = "full"
                         /\ \A k \in DOMAIN chunked : chunked[k].id = p => k <= n
                         => row[p].source = "full"
  BY DEF SettledOnLatest
<1>1. PICK k \in DOMAIN chunked : LastOf(chunked, p, k) /\ Newest(p, chunked[k].version)
  BY SettledIsPast DEF SettleInv, FetchedNewest
<1>2. NewestStored(p, k)
  BY <1>1, SettledIsPast DEF NewestStored
<1>3. \A v \in Announced(p) : v <= row[p].version
  BY <1>1, <1>2, SettledIsPast DEF SettleInv, VersionStays, Newest
<1>4. ASSUME NEW n \in DOMAIN chunked, chunked[n].id = p, chunked[n].source = "full",
             \A m \in DOMAIN chunked : chunked[m].id = p => m <= n
      PROVE  row[p].source = "full"
  <2>1. n = k
    BY <1>1, <1>4, SettleTypes DEF LastOf, BaseInv
  <2> QED
    BY <1>2, <1>4, <2>1 DEF SettleInv, FullTextStays
<1> QED
  BY <1>3, <1>4

\* Once every group has caught up, a paper none of whose messages failed is in the index
\* at its latest version, with full text if the fetcher last produced some, whatever
\* crashed, was delivered twice or reported an error after it had happened.  It takes
\* announcements in version order, groups that stay with their instance and a broker
\* that takes the dead letters: an older announcement may otherwise be handled last
\* (by a replay, or by an instance that was evicted while it was busy).
THEOREM SettlesOnLatest ==
  ASSUME Orderly
  PROVE  Spec => []SettledOnLatest
<1>1. Init => BaseInv /\ SettleInv
  BY BaseInit, SettleInit
<1>2. BaseInv /\ SettleInv /\ [Next]_vars => BaseInv' /\ SettleInv'
  BY TypeStep, LossStep, BehindStep, SettleStep DEF BaseInv, Orderly
<1>3. BaseInv /\ SettleInv => SettledOnLatest
  BY SettledNewest
<1> QED
  BY <1>1, <1>2, <1>3, PTL DEF Spec

-----------------------------------------------------------------------------
(* A settled paper carries the summary of its own version *)

\* From when the full-text worker has finished a paper's last document, the row's
\* summary is of that document's version, whatever the fast path still brings.
SummaryStays ==
  \A p \in Paper, k \in DOMAIN chunked :
    NewestStored(p, k) => row[p].summary = chunked[k].version

\* No upsert touches it: the fast path brings no summary, and the full-text worker is
\* past the paper's last document.
LEMMA SummaryKept ==
  ASSUME BaseInv, SettleInv, [Next]_vars, NEW p \in Paper, NEW k \in DOMAIN chunked,
         NewestStored(p, k)
  PROVE  row'[p].summary = row[p].summary
<1> USE DEF SettleInv
<1>1. CASE UNCHANGED tables
  BY <1>1 DEF tables
<1>2. CASE \E i \in Instance : pc[i] = "write" /\ pc[i] \in Busy /\ Upsert(i)
  <2> PICK i \in Instance : pc[i] = "write" /\ pc[i] \in Busy /\ Upsert(i)
    BY <1>2
  <2>1. i = owner[GroupOf(i)] /\ GroupOf(i) \in {"fast", "full"}
    BY GroupOfInstance DEF OwnersWork, Group
  <2>2. ~Past(GroupOf(i), cur[i])
    BY <2>1, NotPastCurrent
  <2>3. CASE p # Handled(i).id
    BY <2>3, UpsertRow DEF BaseInv
  <2>4. CASE p = Handled(i).id /\ GroupOf(i) = "full"
    <3>1. cur[i] \in DOMAIN chunked /\ chunked[cur[i]].id = p
      BY <2>4, HandledMessage DEF BaseInv
    <3>2. cur[i] <= k /\ cur[i] \in Nat /\ k \in Nat /\ Past("full", k)
      BY <3>1, SettleTypes DEF NewestStored, LastOf, BaseInv
    <3> QED
      BY <2>2, <2>4, <3>2, PastBefore DEF Group
  <2>5. CASE p = Handled(i).id /\ GroupOf(i) = "fast"
    BY <2>5, UpsertRow DEF BaseInv
  <2> QED
    BY <2>1, <2>3, <2>4, <2>5
<1> QED
  BY <1>1, <1>2, OnlyUpserts

\* A worker that always summarizes leaves the row with the summary of the newest
\* document: it writes it, or finds full text of that version, which has its own.
LEMMA SummaryArrives ==
  ASSUME Orderly, FALSE \notin Summarizing, BaseInv, SettleInv, TablesInv, [Next]_vars,
         SameTopics, NEW p \in Paper, NEW k \in DOMAIN chunked, NewestStored(p, k)',
         ~Past("full", k)
  PROVE  row'[p].summary = chunked[k].version
<1> USE DEF SettleInv
<1>1. PICK i \in Instance :
        /\ GroupOf(i) = "full" /\ pc[i] \in Busy /\ Handled(i) = chunked[k]
        /\ chunked[k].id = p /\ Newest(p, chunked[k].version)
        /\ Skip(i) \/ Store(i)
  BY FullTextFinished
<1>2. CASE Store(i) /\ ~Refused(row[p], chunked[k])
  BY <1>1, <1>2, UpsertRow DEF BaseInv, Store
<1>3. CASE HasFullText(row[p], chunked[k].version) /\ row' = row
  <2>1. chunked[k].version \in Announced(p)
    BY <1>1 DEF KnownVersions
  <2>2. row[p].version <= chunked[k].version
    BY <1>1, <2>1, NewestIsLargest
  <2>3. row[p].version = chunked[k].version /\ row[p].source = "full"
    <3>1. row[p].version >= chunked[k].version /\ row[p].source = "full"
      BY <1>3 DEF HasFullText
    <3>2. row[p].version \in Nat /\ chunked[k].version \in Nat
      BY SettleTypes DEF BaseInv
    <3> QED
      BY <2>2, <3>1, <3>2
  <2>4. row[p].summary = row[p].version
    BY <2>3 DEF TablesInv, FullTextHasOwnSummary
  <2> QED
    BY <1>3, <2>3, <2>4
<1>4. CASE Store(i) /\ Refused(row[p], chunked[k])
  BY <1>1, <1>3, <1>4, UpsertRow DEF BaseInv, Store, Refused
<1>5. CASE Skip(i)
  BY <1>1, <1>3, <1>5 DEF Skip, Superfluous, tables
<1> QED
  BY <1>1, <1>2, <1>4, <1>5

\* The summaries of settled papers are inductive.
LEMMA SummaryStep ==
  ASSUME Orderly, FALSE \notin Summarizing, BaseInv, SettleInv, TablesInv, SummaryStays,
         [Next]_vars
  PROVE  SummaryStays'
<1>1. CASE \E p \in Paper, v \in Version, valid \in BOOLEAN : Announce(p, v, valid)
  <2>1. \A p \in Paper, k \in DOMAIN chunked : NewestStored(p, k)' => NewestStored(p, k)
    BY <1>1, AnnounceSettles
  <2>2. UNCHANGED <<chunked, row>>
    BY <1>1 DEF Announce, tables
  <2> QED
    BY <2>1, <2>2 DEF SummaryStays
<1>2. CASE \E i \in Instance, source \in Source : Chunk(i, source) \/ ChunkAmbiguous(i, source)
  <2>1. \A p \in Paper, k \in DOMAIN chunked' : NewestStored(p, k)' =>
          k \in DOMAIN chunked /\ NewestStored(p, k) /\ chunked'[k] = chunked[k]
    BY <1>2, ChunkSettles
  <2>2. UNCHANGED row
    BY <1>2 DEF Chunk, ChunkAmbiguous, tables
  <2> QED
    BY <2>1, <2>2 DEF SummaryStays
<1>3. CASE SameTopics
  <2>1. ASSUME NEW p \in Paper, NEW k \in DOMAIN chunked, NewestStored(p, k)'
        PROVE  row'[p].summary = chunked[k].version
    <3>1. CASE Past("full", k)
      <4>1. NewestStored(p, k)
        BY <2>1, <3>1, <1>3, SameTopicsFacts
      <4> QED
        BY <4>1, SummaryKept DEF SummaryStays
    <3>2. CASE ~Past("full", k)
      BY <1>3, <2>1, <3>2, SummaryArrives
    <3> QED
      BY <3>1, <3>2
  <2> QED
    BY <1>3, <2>1 DEF SummaryStays, SameTopics
<1> QED
  BY <1>1, <1>2, <1>3, StepKinds

\* Before anything is chunked there is nothing to be kept.
LEMMA SummaryInit == Init => SummaryStays
  BY DEF Init, SummaryStays

\* With summaries on, a settled paper without failures carries the summary of the version
\* it is at, through crashes, redeliveries and ambiguous replies: COALESCE never leaves an
\* older version's beside it.  The assumptions are those of SettlesOnLatest, and that every
\* full-text worker summarizes.
THEOREM SettlesOnOwnSummary ==
  ASSUME Orderly, FALSE \notin Summarizing
  PROVE  Spec => []SettledOnOwnSummary
<1>1. Init => BaseInv /\ SettleInv /\ SummaryStays
  BY BaseInit, SettleInit, SummaryInit
<1>2. BaseInv /\ SettleInv /\ TablesInv /\ SummaryStays /\ [Next]_vars =>
        BaseInv' /\ SettleInv' /\ SummaryStays'
  BY TypeStep, LossStep, BehindStep, SettleStep, SummaryStep DEF BaseInv, Orderly
<1>3. ASSUME BaseInv, SettleInv, SummaryStays, Settled, NEW p \in Paper, Announced(p) # {},
             NeverFailed(p)
      PROVE  row[p].summary = row[p].version
  <2>1. PICK k \in DOMAIN chunked : LastOf(chunked, p, k) /\ Newest(p, chunked[k].version)
    BY <1>3, SettledIsPast DEF SettleInv, FetchedNewest
  <2>2. NewestStored(p, k)
    BY <1>3, <2>1, SettledIsPast DEF NewestStored
  <2> QED
    BY <1>3, <2>2, SettledIsPast DEF SettleInv, VersionStays, SummaryStays
<1>4. BaseInv /\ SettleInv /\ SummaryStays => SettledOnOwnSummary
  BY <1>3 DEF SettledOnOwnSummary
<1> QED
  BY <1>1, <1>2, <1>4, TablesHold, PTL DEF Spec
=============================================================================
