----------------------------- MODULE AtomicStore -----------------------------
(***************************************************************************)
(* What upsert_paper promises of the tables: a document is merged into them*)
(* in one step, judged against the row as it is at that moment, or leaves  *)
(* them alone.                                                             *)
(***************************************************************************)
EXTENDS PaperStore, Sequences

CONSTANT Byline   \* author lists, sequences of authors

VARIABLES
  row,      \* table papers
  authors,  \* table authors
  links,    \* table paper_authors: pairs <<author, position>> of each paper
  chunks    \* table chunks: the text each paper's passages come from

tables == <<row, authors, links, chunks>>

Init ==
  /\ row = [p \in Paper |-> NoRow]
  /\ authors = {}
  /\ links = [p \in Paper |-> {}]
  /\ chunks = [p \in Paper |-> NoText]

Named(byline) == {byline[k] : k \in DOMAIN byline}

\* An author named twice keeps the first position.
FirstPositions(byline) ==
  {<<byline[k], k>> : k \in {n \in DOMAIN byline : \A j \in 1..(n - 1) : byline[j] # byline[n]}}

Merge(doc, byline, summary) ==
  /\ ~Refused(row[doc.id], doc)
  /\ row' = [row EXCEPT ![doc.id] = Upserted(row[doc.id], doc, summary)]
  /\ authors' = authors \cup Named(byline)
  /\ links' = [links EXCEPT ![doc.id] = FirstPositions(byline)]
  /\ chunks' = [chunks EXCEPT ![doc.id] = TextOf(doc)]

Next ==
  \E doc \in Doc, byline \in Byline, summary \in 0..MaxVersion : Merge(doc, byline, summary)

Spec == Init /\ [][Next]_tables
=============================================================================
