----------------------------- MODULE PaperStore ------------------------------
(***************************************************************************)
(* What the papers table keeps of a document and how upsert_paper merges   *)
(* one into it.  html and pdf count alike in every condition of the code   *)
(* and are the one source "full"; a row's texts are told apart by the      *)
(* version they come from.                                                 *)
(***************************************************************************)
EXTENDS Naturals

CONSTANTS
  Paper,       \* arXiv ids
  MaxVersion   \* bound on the versions of one paper

ASSUME MaxVersionAssumption == MaxVersion \in Nat \ {0}

Version == 1..MaxVersion
Source == {"abstract", "full"}

\* A document as a worker receives it, and what the row holds of one.
Doc == [id : Paper, version : Version, source : Source]
NoText == [version |-> 0, source |-> "none"]
Text == {NoText} \cup [version : Version, source : Source]

\* A row; summary is the version its summary was written from, 0 for NULL.
NoRow == [version |-> 0, source |-> "none", summary |-> 0]
Row == {NoRow} \cup [version : Version, source : Source, summary : 0..MaxVersion]

HasFullText(row, version) == row.source = "full" /\ row.version >= version

\* Mutant: the upsert forgets the guard and trusts the earlier check.
NeverRefused(row, doc) == FALSE

\* The WHERE of the upsert: the fast path never replaces full text of the same
\* or a newer version.
Refused(row, doc) == doc.source = "abstract" /\ HasFullText(row, doc.version)

\* Mutant: COALESCE with its arguments swapped keeps the older summary.
OldestSummary(old, new) == IF old # 0 THEN old ELSE new

\* COALESCE(EXCLUDED.summary, papers.summary).
MergedSummary(old, new) == IF new # 0 THEN new ELSE old

TextOf(doc) == [version |-> doc.version, source |-> doc.source]

Upserted(row, doc, summary) ==
  [version |-> doc.version, source |-> doc.source,
   summary |-> MergedSummary(row.summary, summary)]
=============================================================================
