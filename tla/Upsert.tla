-------------------------------- MODULE Upsert -------------------------------
(***************************************************************************)
(* The transaction of upsert_paper in its statements, as the workers'      *)
(* connections interleave in Postgres.  The first statement locks the      *)
(* paper's row until the transaction ends and judges the document against  *)
(* it; then the rows of its authors are locked one by one in the order of  *)
(* their normalized names.  What a transaction writes is seen by others    *)
(* when it commits.                                                        *)
(*                                                                         *)
(* An author is the rank of his normalized name.  Positions count from one *)
(* here, from zero in the code.  Which locks a connection holds follows    *)
(* from how far it has got, so they are no variables.                      *)
(***************************************************************************)
EXTENDS PaperStore, Sequences

CONSTANTS
  Writer,      \* connections, one per worker process
  NumAuthors,  \* bound on the authors
  Byline,      \* author lists of documents, in the order printed
  MaxUpserts   \* bound on the transactions begun

Author == 1..NumAuthors

ASSUME BylineAssumption == NumAuthors \in Nat /\ Byline \subseteq Seq(Author)
ASSUME UpsertBoundAssumption == MaxUpserts \in Nat

VARIABLES
  row,       \* table papers
  authors,   \* table authors
  links,     \* table paper_authors: pairs <<author, position>> of each paper
  chunks,    \* table chunks: the text each paper's passages come from
  pc,        \* "idle", or the rows being locked: "paper", "authors"
  job,       \* the document a connection is storing
  newRow,    \* uncommitted row
  newLinks,  \* uncommitted links
  todo,      \* positions of the byline still to be linked
  begun      \* transactions begun

tables == <<row, authors, links, chunks>>
vars == <<tables, pc, job, newRow, newLinks, todo, begun>>

\* Only full text comes with a summary, and not always.
Job ==
  {j \in [doc : Doc, byline : Byline, summary : 0..MaxVersion] :
     j.summary # 0 => j.summary = j.doc.version /\ j.doc.source = "full"}
Position == Nat \ {0}
NoJob == [doc |-> [id |-> "none", version |-> 0, source |-> "none"],
          byline |-> <<>>, summary |-> 0]

TypeOK ==
  /\ row \in [Paper -> Row]
  /\ authors \subseteq Author
  /\ links \in [Paper -> SUBSET (Author \X Position)]
  /\ chunks \in [Paper -> Text]
  /\ pc \in [Writer -> {"idle", "paper", "authors"}]
  /\ job \in [Writer -> Job \cup {NoJob}]
  /\ newRow \in [Writer -> Row]
  /\ newLinks \in [Writer -> SUBSET (Author \X Position)]
  /\ todo \in [Writer -> SUBSET Position]
  /\ begun \in 0..MaxUpserts
  /\ \A w \in Writer : pc[w] # "idle" => job[w] \in Job
  /\ \A w \in Writer :
       IF pc[w] = "authors" THEN todo[w] \subseteq DOMAIN job[w].byline ELSE todo[w] = {}

Init ==
  /\ row = [p \in Paper |-> NoRow]
  /\ authors = {}
  /\ links = [p \in Paper |-> {}]
  /\ chunks = [p \in Paper |-> NoText]
  /\ pc = [w \in Writer |-> "idle"]
  /\ job = [w \in Writer |-> NoJob]
  /\ newRow = [w \in Writer |-> NoRow]
  /\ newLinks = [w \in Writer |-> {}]
  /\ todo = [w \in Writer |-> {}]
  /\ begun = 0

-----------------------------------------------------------------------------
PaperOf(w) == job[w].doc.id
BylineOf(w) == job[w].byline
Named(byline) == {byline[k] : k \in DOMAIN byline}

\* Mutant: the row is read without being locked.
HoldsNothing(w, p) == FALSE

\* The lock on the paper's row is kept from the first statement on.
HoldsPaper(w, p) == pc[w] = "authors" /\ PaperOf(w) = p

HoldsAuthor(w, a) ==
  pc[w] = "authors" /\ \E k \in DOMAIN BylineOf(w) \ todo[w] : BylineOf(w)[k] = a

PaperFree(w) == \A v \in Writer \ {w} : ~HoldsPaper(v, PaperOf(w))
AuthorFree(w, a) == \A v \in Writer \ {w} : ~HoldsAuthor(v, a)

\* Mutant: the authors are locked in the order they are printed.
IsPrintedNext(w, k) == k \in todo[w] /\ \A j \in todo[w] : k <= j

\* sorted(enumerate(authors), key = author_norm) is stable: equal names come in
\* the order they are printed.
IsNext(w, k) ==
  /\ k \in todo[w]
  /\ \A j \in todo[w] :
       \/ BylineOf(w)[k] < BylineOf(w)[j]
       \/ BylineOf(w)[k] = BylineOf(w)[j] /\ k <= j

\* Mutant: an author is linked one position early.
LinkedTooEarly(made, a, k) == made \cup {<<a, k - 1>>}

\* ON CONFLICT (arxiv_id, author_id) DO NOTHING.
Linked(made, a, k) ==
  IF \E link \in made : link[1] = a THEN made ELSE made \cup {<<a, k>>}

-----------------------------------------------------------------------------
Goto(w, l) == pc' = [pc EXCEPT ![w] = l]

Begin(w, j) ==
  /\ pc[w] = "idle"
  /\ begun < MaxUpserts
  /\ begun' = begun + 1
  /\ job' = [job EXCEPT ![w] = j]
  /\ Goto(w, "paper")
  /\ UNCHANGED <<tables, newRow, newLinks, todo>>

\* The end of a transaction lets go of its locks and of what it had in mind.
End(w) ==
  /\ Goto(w, "idle")
  /\ job' = [job EXCEPT ![w] = NoJob]
  /\ newRow' = [newRow EXCEPT ![w] = NoRow]
  /\ newLinks' = [newLinks EXCEPT ![w] = {}]
  /\ todo' = [todo EXCEPT ![w] = {}]
  /\ UNCHANGED begun

\* INSERT ... ON CONFLICT DO UPDATE ... WHERE finds better text: the transaction
\* ends with nothing written.
Refuse(w) ==
  /\ pc[w] = "paper" /\ PaperFree(w)
  /\ Refused(row[PaperOf(w)], job[w].doc)
  /\ End(w)
  /\ UNCHANGED tables

\* It writes the row; the old links are deleted.
WriteRow(w) ==
  /\ pc[w] = "paper" /\ PaperFree(w)
  /\ ~Refused(row[PaperOf(w)], job[w].doc)
  /\ newRow' = [newRow EXCEPT
       ![w] = Upserted(row[PaperOf(w)], job[w].doc, job[w].summary)]
  /\ newLinks' = [newLinks EXCEPT ![w] = {}]
  /\ todo' = [todo EXCEPT ![w] = DOMAIN BylineOf(w)]
  /\ Goto(w, "authors")
  /\ UNCHANGED <<tables, job, begun>>

\* The next author's row is inserted or touched, which locks it, and linked.
LinkAuthor(w, k) ==
  /\ pc[w] = "authors"
  /\ IsNext(w, k)
  /\ AuthorFree(w, BylineOf(w)[k])
  /\ newLinks' = [newLinks EXCEPT ![w] = Linked(@, BylineOf(w)[k], k)]
  /\ todo' = [todo EXCEPT ![w] = @ \ {k}]
  /\ UNCHANGED <<tables, pc, job, newRow, begun>>

\* The passages are replaced and the transaction commits.
Commit(w) ==
  /\ pc[w] = "authors" /\ todo[w] = {}
  /\ row' = [row EXCEPT ![PaperOf(w)] = newRow[w]]
  /\ authors' = authors \cup Named(BylineOf(w))
  /\ links' = [links EXCEPT ![PaperOf(w)] = newLinks[w]]
  /\ chunks' = [chunks EXCEPT ![PaperOf(w)] = TextOf(job[w].doc)]
  /\ End(w)

\* lock_timeout, an error or a lost connection.
Rollback(w) ==
  /\ pc[w] # "idle"
  /\ End(w)
  /\ UNCHANGED tables

Step(w) ==
  \/ Refuse(w) \/ WriteRow(w) \/ Commit(w)
  \/ \E k \in todo[w] : LinkAuthor(w, k)

Next == \E w \in Writer : (\E j \in Job : Begin(w, j)) \/ Step(w) \/ Rollback(w)

Spec == Init /\ [][Next]_vars

\* A statement whose locks are free is carried out, and Postgres grants a lock to
\* those waiting for it in turn.  Nobody has to begin or to roll back.
FairSpec == Spec /\ \A w \in Writer : SF_vars(Step(w))

-----------------------------------------------------------------------------
\* The transactions implement the atomic store: whatever they interleave with,
\* each is judged against the committed row it replaces and none is lost or half
\* done (docstring of upsert_paper; db.py, "One transaction per paper").
Store == INSTANCE AtomicStore
UpsertIsAtomic == Store!Spec

WaitsFor(w, v) ==
  /\ v # w
  /\ \/ pc[w] = "paper" /\ HoldsPaper(v, PaperOf(w))
     \/ \E k \in todo[w] :
          pc[w] = "authors" /\ IsNext(w, k) /\ HoldsAuthor(v, BylineOf(w)[k])

\* No set of connections wait for one another: "Lock shared author rows in one
\* global order so two writers cannot deadlock on them" (db.py).
NoDeadlock ==
  \A S \in SUBSET Writer :
    S # {} => \E w \in S : \A v \in S : ~WaitsFor(w, v)

\* Every transaction ends, however long the queue for a row.
EveryUpsertEnds == \A w \in Writer : pc[w] # "idle" ~> pc[w] = "idle"
=============================================================================
