---------------------------- MODULE UpsertProofs -----------------------------
(***************************************************************************)
(* The upsert transaction, for any number of connections, papers and       *)
(* authors: it implements the atomic store, and its locks cannot deadlock. *)
(***************************************************************************)
EXTENDS Upsert, WellFoundedInduction, TLAPS

\* At most one connection holds a paper's row.
OneWriterPerPaper ==
  \A w, v \in Writer :
    w # v /\ pc[w] = "authors" /\ pc[v] = "authors" => PaperOf(w) # PaperOf(v)

\* What a connection is going to write was judged against the committed row.
RowCurrent ==
  \A w \in Writer : pc[w] = "authors" =>
    /\ ~Refused(row[PaperOf(w)], job[w].doc)
    /\ newRow[w] = Upserted(row[PaperOf(w)], job[w].doc, job[w].summary)

\* k is where the author printed there is named first.
IsFirst(b, k) == k \in DOMAIN b /\ \A j \in 1..(k - 1) : b[j] # b[k]

\* The authors taken so far are linked, each at the first position he is named.
LinksSoFar ==
  \A w \in Writer : pc[w] = "authors" =>
    /\ todo[w] \subseteq DOMAIN BylineOf(w)
    /\ \A link \in newLinks[w] :
         \E k \in DOMAIN BylineOf(w) \ todo[w] :
           link = <<BylineOf(w)[k], k>> /\ IsFirst(BylineOf(w), k)
    /\ \A k \in DOMAIN BylineOf(w) \ todo[w] :
         \E link \in newLinks[w] : link[1] = BylineOf(w)[k]

\* A connection never holds an author that comes after one it still needs.
LocksAscend ==
  \A w \in Writer : \A k \in todo[w] : \A a \in Author :
    HoldsAuthor(w, a) => a <= BylineOf(w)[k]

\* No two connections hold one author.
OneWriterPerAuthor ==
  \A w, v \in Writer : \A a \in Author :
    w # v /\ HoldsAuthor(w, a) => ~HoldsAuthor(v, a)

UpsertInv == OneWriterPerPaper /\ RowCurrent /\ LinksSoFar
LockInv == LocksAscend /\ OneWriterPerAuthor

-----------------------------------------------------------------------------
\* What a document in hand consists of (ChunkedPaper and its byline).
LEMMA JobFacts ==
  ASSUME TypeOK, NEW w \in Writer, pc[w] # "idle"
  PROVE  /\ job[w].doc \in Doc /\ PaperOf(w) \in Paper
         /\ BylineOf(w) \in Byline /\ BylineOf(w) \in Seq(Author)
         /\ DOMAIN BylineOf(w) \subseteq Position
         /\ \A k \in DOMAIN BylineOf(w) : BylineOf(w)[k] \in Author
         /\ job[w].summary \in 0..MaxVersion
  BY BylineAssumption DEF TypeOK, Job, Doc, PaperOf, BylineOf, Position

\* Merging a document gives a row (the SET clause of the upsert).
LEMMA UpsertedTyped ==
  ASSUME NEW r \in Row, NEW doc \in Doc, NEW s \in 0..MaxVersion
  PROVE  Upserted(r, doc, s) \in Row /\ TextOf(doc) \in Text
  BY MaxVersionAssumption DEF Upserted, TextOf, Row, NoRow, Doc, Text, Version, Source, MergedSummary

\* The statements of the transaction keep the types.
THEOREM TypeCorrect == Spec => []TypeOK
<1>1. Init => TypeOK
  BY UpsertBoundAssumption DEF Init, TypeOK, Row, Text
<1>2. TypeOK /\ [Next]_vars => TypeOK'
  <2> SUFFICES ASSUME TypeOK, [Next]_vars PROVE TypeOK'
    OBVIOUS
  <2>1. CASE UNCHANGED vars
    BY <2>1 DEF vars, tables, TypeOK
  <2>2. ASSUME NEW w \in Writer, End(w),
               row' \in [Paper -> Row], authors' \subseteq Author,
               links' \in [Paper -> SUBSET (Author \X Position)],
               chunks' \in [Paper -> Text]
        PROVE  TypeOK'
    <3>1. /\ pc' \in [Writer -> {"idle", "paper", "authors"}]
          /\ job' \in [Writer -> Job \cup {NoJob}]
          /\ newRow' \in [Writer -> Row]
          /\ newLinks' \in [Writer -> SUBSET (Author \X Position)]
          /\ todo' \in [Writer -> SUBSET Position]
          /\ begun' \in 0..MaxUpserts
      BY <2>2 DEF End, Goto, TypeOK, Row
    <3>2. \A v \in Writer : pc'[v] # "idle" => job'[v] \in Job
      BY <2>2 DEF End, Goto, TypeOK
    <3>3. \A v \in Writer :
            IF pc'[v] = "authors"
              THEN todo'[v] \subseteq DOMAIN job'[v].byline ELSE todo'[v] = {}
      BY <2>2 DEF End, Goto, TypeOK
    <3> QED
      BY <2>2, <3>1, <3>2, <3>3 DEF TypeOK
  <2>3. ASSUME NEW w \in Writer, NEW j \in Job, Begin(w, j) PROVE TypeOK'
    BY <2>3, UpsertBoundAssumption DEF Begin, Goto, tables, TypeOK
  <2>4. ASSUME NEW w \in Writer, Refuse(w) \/ Rollback(w) PROVE TypeOK'
    BY <2>2, <2>4 DEF Refuse, Rollback, tables, TypeOK
  <2>5. ASSUME NEW w \in Writer, WriteRow(w) PROVE TypeOK'
    <3>1. newRow' \in [Writer -> Row]
      BY <2>5, JobFacts, UpsertedTyped DEF WriteRow, TypeOK
    <3>2. todo' \in [Writer -> SUBSET Position]
      BY <2>5, JobFacts DEF WriteRow, TypeOK
    <3> QED
      BY <2>5, <3>1, <3>2 DEF WriteRow, Goto, BylineOf, tables, TypeOK
  <2>6. ASSUME NEW w \in Writer, NEW k \in todo[w], LinkAuthor(w, k) PROVE TypeOK'
    <3>1. k \in Position /\ k \in DOMAIN BylineOf(w)
      BY <2>6 DEF LinkAuthor, BylineOf, TypeOK
    <3>2. <<BylineOf(w)[k], k>> \in Author \X Position
      BY <2>6, <3>1, JobFacts DEF LinkAuthor
    <3>3. newLinks' \in [Writer -> SUBSET (Author \X Position)]
      BY <2>6, <3>2 DEF LinkAuthor, Linked, TypeOK
    <3> QED
      BY <2>6, <3>3 DEF LinkAuthor, tables, TypeOK
  <2>7. ASSUME NEW w \in Writer, Commit(w) PROVE TypeOK'
    <3>1. /\ PaperOf(w) \in Paper
          /\ TextOf(job[w].doc) \in Text
          /\ Named(BylineOf(w)) \subseteq Author
      BY <2>7, JobFacts, UpsertedTyped DEF Commit, Named, TypeOK
    <3>2. /\ row' \in [Paper -> Row]
          /\ authors' \subseteq Author
          /\ links' \in [Paper -> SUBSET (Author \X Position)]
          /\ chunks' \in [Paper -> Text]
      BY <2>7, <3>1 DEF Commit, TypeOK
    <3> QED
      BY <2>2, <2>7, <3>2 DEF Commit, TypeOK
  <2> QED
    BY <2>1, <2>3, <2>4, <2>5, <2>6, <2>7 DEF Next, Step
<1> QED
  BY <1>1, <1>2, PTL DEF Spec

-----------------------------------------------------------------------------
\* What a transaction writes is true of the committed tables until it ends: its
\* row lock keeps the row it judged, and IsNext hands it a twice named author in
\* printed order.
LEMMA UpsertInvStep ==
  ASSUME TypeOK, UpsertInv, [Next]_vars
  PROVE  UpsertInv'
<1>1. CASE UNCHANGED vars
  BY <1>1 DEF vars, tables, UpsertInv, OneWriterPerPaper, RowCurrent, LinksSoFar, PaperOf, BylineOf
<1>2. ASSUME NEW w \in Writer, End(w), UNCHANGED row PROVE UpsertInv'
  BY <1>2 DEF End, Goto, TypeOK, UpsertInv, OneWriterPerPaper, RowCurrent, LinksSoFar,
              PaperOf, BylineOf
<1>3. ASSUME NEW w \in Writer, NEW j \in Job, Begin(w, j) PROVE UpsertInv'
  BY <1>3 DEF Begin, Goto, tables, TypeOK, UpsertInv, OneWriterPerPaper, RowCurrent, LinksSoFar,
              PaperOf, BylineOf
<1>4. ASSUME NEW w \in Writer, Refuse(w) \/ Rollback(w) PROVE UpsertInv'
  BY <1>2, <1>4 DEF Refuse, Rollback, tables
<1>5. ASSUME NEW w \in Writer, WriteRow(w) PROVE UpsertInv'
  <2>1. OneWriterPerPaper'
    BY <1>5 DEF WriteRow, Goto, PaperFree, HoldsPaper, TypeOK, UpsertInv, OneWriterPerPaper, PaperOf
  <2>2. RowCurrent'
    BY <1>5 DEF WriteRow, Goto, tables, TypeOK, UpsertInv, RowCurrent, PaperOf
  <2>3. LinksSoFar'
    BY <1>5 DEF WriteRow, Goto, TypeOK, UpsertInv, LinksSoFar, BylineOf
  <2> QED
    BY <2>1, <2>2, <2>3 DEF UpsertInv
<1>6. ASSUME NEW w \in Writer, NEW k \in todo[w], LinkAuthor(w, k) PROVE UpsertInv'
  <2>1. OneWriterPerPaper' /\ RowCurrent'
    BY <1>6 DEF LinkAuthor, tables, UpsertInv, OneWriterPerPaper, RowCurrent, PaperOf
  <2> DEFINE b == BylineOf(w)
  <2>2. /\ k \in DOMAIN b /\ \A i \in DOMAIN b : i \in Nat /\ b[i] \in Nat
        /\ pc[w] = "authors" /\ w \in DOMAIN newLinks /\ w \in DOMAIN todo
    BY <1>6, JobFacts DEF LinkAuthor, TypeOK, UpsertInv, LinksSoFar, Author, Position
  <2>3. ASSUME \A link \in newLinks[w] : link[1] # b[k] PROVE IsFirst(b, k)
    <3> SUFFICES ASSUME NEW i \in 1..(k - 1), b[i] = b[k] PROVE FALSE
      BY <2>2 DEF IsFirst
    <3>1. i \in DOMAIN b
      BY <1>6, <2>2, JobFacts DEF LinkAuthor
    <3>2. i \notin todo[w]
      BY <1>6, <2>2, <3>1 DEF LinkAuthor, IsNext
    <3> QED
      BY <2>2, <2>3, <3>1, <3>2 DEF UpsertInv, LinksSoFar
  <2>4. /\ newLinks'[w] = Linked(newLinks[w], b[k], k)
        /\ todo'[w] = todo[w] \ {k}
        /\ BylineOf(w)' = b /\ pc' = pc
    BY <1>6, <2>2 DEF LinkAuthor, BylineOf
  <2>5. \A v \in Writer \ {w} : newLinks'[v] = newLinks[v] /\ todo'[v] = todo[v]
    BY <1>6 DEF LinkAuthor, TypeOK
  <2>6. \A v \in Writer : BylineOf(v)' = BylineOf(v)
    BY <1>6 DEF LinkAuthor, BylineOf
  <2>7. /\ todo'[w] \subseteq DOMAIN b
        /\ DOMAIN b \ todo'[w] = (DOMAIN b \ todo[w]) \cup {k}
    BY <2>2, <2>4 DEF UpsertInv, LinksSoFar
  <2>8. \A link \in newLinks'[w] :
          \E i \in DOMAIN b \ todo'[w] : link = <<b[i], i>> /\ IsFirst(b, i)
    BY <2>2, <2>3, <2>4, <2>7 DEF Linked, UpsertInv, LinksSoFar
  <2>9. \A i \in DOMAIN b \ todo'[w] : \E link \in newLinks'[w] : link[1] = b[i]
    <3>1. \E link \in newLinks'[w] : link[1] = b[k]
      <4> DEFINE a == b[k]
      <4>1. newLinks'[w] = Linked(newLinks[w], a, k) /\ <<a, k>>[1] = a
        BY <2>4
      <4> HIDE DEF a
      <4>2. \E link \in newLinks'[w] : link[1] = a
        BY <4>1 DEF Linked
      <4> QED
        BY <4>2 DEF a
    <3>2. newLinks[w] \subseteq newLinks'[w]
      BY <2>4 DEF Linked
    <3> QED
      BY <2>2, <2>7, <3>1, <3>2 DEF UpsertInv, LinksSoFar
  <2>10. LinksSoFar'
    BY <2>4, <2>5, <2>6, <2>7, <2>8, <2>9 DEF UpsertInv, LinksSoFar, IsFirst
  <2> QED
    BY <2>1, <2>10 DEF UpsertInv
<1>7. ASSUME NEW w \in Writer, Commit(w) PROVE UpsertInv'
  <2>1. OneWriterPerPaper'
    BY <1>7 DEF Commit, End, Goto, TypeOK, UpsertInv, OneWriterPerPaper, PaperOf
  <2>2. RowCurrent'
    BY <1>7 DEF Commit, End, Goto, TypeOK, UpsertInv, OneWriterPerPaper, RowCurrent, PaperOf
  <2>3. LinksSoFar'
    BY <1>7 DEF Commit, End, Goto, TypeOK, UpsertInv, LinksSoFar, BylineOf
  <2> QED
    BY <2>1, <2>2, <2>3 DEF UpsertInv
<1> QED
  BY <1>1, <1>3, <1>4, <1>5, <1>6, <1>7 DEF Next, Step

\* Every author of the byline is linked at the first position he is printed at
\* when the transaction commits.
LEMMA LinksComplete ==
  ASSUME TypeOK, UpsertInv, NEW w \in Writer, Commit(w)
  PROVE  newLinks[w] = Store!FirstPositions(BylineOf(w))
<1> DEFINE b == BylineOf(w)
<1>1. /\ \A i \in DOMAIN b : i \in Nat \ {0}
      /\ \A link \in newLinks[w] :
           \E k \in DOMAIN b : link = <<b[k], k>> /\ IsFirst(b, k)
      /\ \A k \in DOMAIN b : \E link \in newLinks[w] : link[1] = b[k]
  BY JobFacts DEF Commit, UpsertInv, LinksSoFar, Position
<1> HIDE DEF b
<1>2. ASSUME NEW k \in DOMAIN b, IsFirst(b, k) PROVE <<b[k], k>> \in newLinks[w]
  <2>1. PICK i \in DOMAIN b : <<b[i], i>> \in newLinks[w] /\ IsFirst(b, i) /\ b[i] = b[k]
    BY <1>1
  <2>2. i \in Nat /\ k \in Nat
    BY <1>1
  <2>3. ~(i < k)
    <3>1. i < k /\ i # 0 => i \in 1..(k - 1)
      BY <2>2
    <3> QED
      BY <1>1, <1>2, <2>1, <2>2, <3>1 DEF IsFirst
  <2>4. ~(k < i)
    <3>1. k < i /\ k # 0 => k \in 1..(i - 1)
      BY <2>2
    <3> QED
      BY <1>1, <1>2, <2>1, <2>2, <3>1 DEF IsFirst
  <2> QED
    BY <2>1, <2>2, <2>3, <2>4
<1>3. Store!FirstPositions(b) = {<<b[k], k>> : k \in {n \in DOMAIN b : IsFirst(b, n)}}
  BY DEF Store!FirstPositions, IsFirst
<1>4. newLinks[w] = Store!FirstPositions(b)
  BY <1>1, <1>2, <1>3
<1> QED
  BY <1>4 DEF b

\* The transaction of upsert_paper is one step of the store: whatever commits
\* was judged against the row it replaces (docstring of upsert_paper: the fast
\* path never downgrades the slow path's work, in whatever order they run).
THEOREM Atomicity == Spec => UpsertIsAtomic
<1>1. Init => Store!Init /\ UpsertInv
  BY DEF Init, Store!Init, NoRow, NoText, Store!NoRow, Store!NoText,
         UpsertInv, OneWriterPerPaper, RowCurrent, LinksSoFar
<1>2. TypeOK /\ UpsertInv /\ [Next]_vars => [Store!Next]_(Store!tables)
  <2> SUFFICES ASSUME TypeOK, UpsertInv, [Next]_vars
               PROVE  Store!Next \/ UNCHANGED tables
    BY DEF tables, Store!tables
  <2>1. ASSUME NEW w \in Writer, Commit(w) PROVE Store!Next
    <3> DEFINE doc == job[w].doc
    <3>1. doc \in Store!Doc /\ BylineOf(w) \in Byline /\ job[w].summary \in 0..MaxVersion
      BY <2>1, JobFacts DEF Commit, Doc, Store!Doc, Version, Store!Version, Source, Store!Source
    <3>2. /\ ~Store!Refused(row[doc.id], doc)
          /\ row' = [row EXCEPT ![doc.id] = Store!Upserted(row[doc.id], doc, job[w].summary)]
      BY <2>1 DEF Commit, UpsertInv, RowCurrent, PaperOf, Refused, Store!Refused, HasFullText,
                  Store!HasFullText, Upserted, Store!Upserted, MergedSummary, Store!MergedSummary
    <3>3. /\ authors' = authors \cup Store!Named(BylineOf(w))
          /\ links' = [links EXCEPT ![doc.id] = Store!FirstPositions(BylineOf(w))]
          /\ chunks' = [chunks EXCEPT ![doc.id] = Store!TextOf(doc)]
      BY <2>1, LinksComplete DEF Commit, PaperOf, Named, Store!Named, TextOf, Store!TextOf
    <3>4. Store!Merge(doc, BylineOf(w), job[w].summary)
      BY <3>2, <3>3 DEF Store!Merge
    <3> QED
      BY <3>1, <3>4 DEF Store!Next
  <2> QED
    BY <2>1 DEF Next, Step, Begin, Refuse, WriteRow, LinkAuthor, Rollback, vars, tables
<1>3. TypeOK /\ UpsertInv /\ [Next]_vars => UpsertInv'
  BY UpsertInvStep
<1> QED
  BY <1>1, <1>2, <1>3, TypeCorrect, PTL DEF Spec, UpsertIsAtomic, Store!Spec

-----------------------------------------------------------------------------
\* Authors are finitely many, so one of them comes last (author_norm orders them).
LEMMA LastAuthor ==
  ASSUME NEW T \in SUBSET Author, T # {}
  PROVE  \E a \in T : \A b \in T : b <= a
<1> DEFINE D == {NumAuthors - a : a \in T}
           Less == OpToRel(<, Nat)
<1>1. D \subseteq Nat /\ D # {}
  BY BylineAssumption DEF Author
<1>2. IsWellFoundedOn(Less, Nat)
  BY NatLessThanWellFounded
<1> HIDE DEF Less, D
<1>3. PICK d \in D : \A e \in D : <<e, d>> \notin Less
  BY <1>1, <1>2, WFMin
<1>4. \A e \in D : ~(e < d)
  <2> SUFFICES ASSUME NEW e \in D, e < d PROVE FALSE
    OBVIOUS
  <2>1. <<e, d>> \in Nat \X Nat /\ <<e, d>>[1] < <<e, d>>[2]
    BY <1>1
  <2>2. <<e, d>> \in Less
    BY <2>1 DEF Less, OpToRel
  <2> QED
    BY <1>3, <2>2
<1>5. PICK a \in T : d = NumAuthors - a
  BY DEF D
<1>6. \A b \in T : ~(NumAuthors - b < NumAuthors - a)
  BY <1>4, <1>5 DEF D
<1>7. \A b \in T : b <= a
  BY <1>6, BylineAssumption DEF Author
<1> QED
  BY <1>7

\* What a connection holds changes only when it takes an author or ends.
LEMMA LockInvStep ==
  ASSUME TypeOK, LockInv, [Next]_vars
  PROVE  LockInv'
<1>1. CASE UNCHANGED vars
  BY <1>1 DEF vars, LockInv, LocksAscend, OneWriterPerAuthor, HoldsAuthor, BylineOf
<1>2. ASSUME NEW w \in Writer,
             \A v \in Writer \ {w} :
               /\ todo'[v] = todo[v] /\ BylineOf(v)' = BylineOf(v)
               /\ (pc'[v] = "authors") <=> (pc[v] = "authors"),
             \A a \in Author : ~HoldsAuthor(w, a)'
      PROVE  LockInv'
  <2>1. \A v \in Writer \ {w} : \A a \in Author : HoldsAuthor(v, a)' <=> HoldsAuthor(v, a)
    BY <1>2 DEF HoldsAuthor
  <2>2. LocksAscend'
    BY <1>2, <2>1 DEF LockInv, LocksAscend
  <2>3. OneWriterPerAuthor'
    BY <1>2, <2>1 DEF LockInv, OneWriterPerAuthor
  <2> QED
    BY <2>2, <2>3 DEF LockInv
<1>3. ASSUME NEW w \in Writer, End(w) PROVE LockInv'
  BY <1>2, <1>3 DEF End, Goto, TypeOK, HoldsAuthor, BylineOf
<1>4. ASSUME NEW w \in Writer, NEW j \in Job, Begin(w, j) PROVE LockInv'
  BY <1>2, <1>4 DEF Begin, Goto, TypeOK, HoldsAuthor, BylineOf
<1>5. ASSUME NEW w \in Writer, WriteRow(w) PROVE LockInv'
  BY <1>2, <1>5 DEF WriteRow, Goto, TypeOK, HoldsAuthor, BylineOf
<1>6. ASSUME NEW w \in Writer, NEW k \in todo[w], LinkAuthor(w, k) PROVE LockInv'
  <2> DEFINE c == BylineOf(w)[k]
  <2>1. /\ \A v \in Writer : BylineOf(v)' = BylineOf(v)
        /\ \A v \in Writer \ {w} : todo'[v] = todo[v]
        /\ todo'[w] = todo[w] \ {k}
        /\ pc' = pc
    BY <1>6 DEF LinkAuthor, BylineOf, TypeOK
  <2>2. /\ c \in Author /\ \A i \in todo[w] : BylineOf(w)[i] \in Author /\ c <= BylineOf(w)[i]
        /\ k \in DOMAIN BylineOf(w)
    <3>1. \A i \in todo[w] : i \in DOMAIN BylineOf(w) /\ BylineOf(w)[i] \in Author
      BY <1>6, JobFacts DEF LinkAuthor, TypeOK, BylineOf
    <3> QED
      BY <1>6, <3>1, BylineAssumption DEF LinkAuthor, IsNext, Author
  <2>3. \A v \in Writer \ {w} : \A a \in Author : HoldsAuthor(v, a)' <=> HoldsAuthor(v, a)
    BY <2>1 DEF HoldsAuthor
  <2>4. \A a \in Author : HoldsAuthor(w, a)' => HoldsAuthor(w, a) \/ a = c
    BY <2>1 DEF HoldsAuthor
  <2> HIDE DEF c
  <2>5. LocksAscend'
    <3> SUFFICES ASSUME NEW v \in Writer, NEW i \in todo'[v], NEW a \in Author, HoldsAuthor(v, a)'
                 PROVE  a <= BylineOf(v)'[i]
      BY DEF LocksAscend
    <3>1. CASE v = w
      BY <2>1, <2>2, <2>4, <3>1 DEF LockInv, LocksAscend
    <3>2. CASE v # w
      BY <2>1, <2>3, <3>2 DEF LockInv, LocksAscend
    <3> QED
      BY <3>1, <3>2
  <2>6. OneWriterPerAuthor'
    <3>1. \A v \in Writer \ {w} : ~HoldsAuthor(v, c)
      BY <1>6 DEF LinkAuthor, AuthorFree, c
    <3> QED
      BY <2>3, <2>4, <3>1 DEF LockInv, OneWriterPerAuthor
  <2> QED
    BY <2>5, <2>6 DEF LockInv
<1> QED
  BY <1>1, <1>3, <1>4, <1>5, <1>6 DEF Next, Step, Refuse, Commit, Rollback

\* The two-writer promise of the sort in upsert_paper, for any number of writers:
\* no set of connections wait for one another.  The connection whose missing
\* author comes last waits for one that misses none that come later.
THEOREM DeadlockFree == Spec => []NoDeadlock
<1>1. Init => LockInv
  BY DEF Init, LockInv, LocksAscend, OneWriterPerAuthor, HoldsAuthor
<1>2. TypeOK /\ LockInv => NoDeadlock
  <2> SUFFICES ASSUME TypeOK, LockInv, NEW S \in SUBSET Writer, S # {},
                      \A w \in S : \E v \in S : WaitsFor(w, v)
               PROVE  FALSE
    BY DEF NoDeadlock
  <2> DEFINE Waits(w, k, v) ==
               /\ v # w /\ pc[w] = "authors" /\ IsNext(w, k) /\ HoldsAuthor(v, BylineOf(w)[k])
             T == {a \in Author : \E w, v \in S : \E k \in todo[w] :
                                    Waits(w, k, v) /\ a = BylineOf(w)[k]}
  <2>1. \A w, v \in S : WaitsFor(w, v) => pc[v] = "authors"
    BY DEF WaitsFor, HoldsPaper, HoldsAuthor
  <2>2. \A w \in S : pc[w] = "authors" =>
          \E v \in S : \E k \in todo[w] : Waits(w, k, v)
    BY DEF WaitsFor
  <2>3. \A w \in S : \A k \in todo[w] : pc[w] = "authors" => BylineOf(w)[k] \in Author
    BY JobFacts DEF TypeOK, BylineOf
  <2> HIDE DEF Waits
  <2>4. \A w \in S : pc[w] = "authors" =>
          \E v \in S : \E k \in todo[w] : Waits(w, k, v) /\ BylineOf(w)[k] \in T
    BY <2>2, <2>3
  <2>5. T # {}
    BY <2>1, <2>4
  <2>6. PICK a \in T : \A b \in T : b <= a
    BY <2>5, LastAuthor
  <2>7. PICK w \in S, v \in S : \E k \in todo[w] : Waits(w, k, v) /\ a = BylineOf(w)[k]
    OBVIOUS
  <2> HIDE DEF T
  <2>8. pc[v] = "authors" /\ v # w /\ HoldsAuthor(v, a)
    BY <2>7 DEF Waits, HoldsAuthor
  <2>9. PICK u \in S, m \in todo[v] : Waits(v, m, u) /\ BylineOf(v)[m] \in T
    BY <2>4, <2>8
  <2>10. a \in Author /\ BylineOf(v)[m] \in Author
    BY <2>6, <2>9 DEF T
  <2>11. a <= BylineOf(v)[m]
    BY <2>8, <2>10 DEF LockInv, LocksAscend
  <2>12. BylineOf(v)[m] = a
    BY <2>6, <2>9, <2>10, <2>11, BylineAssumption DEF Author
  <2>13. u # v /\ HoldsAuthor(u, a)
    BY <2>9, <2>12 DEF Waits
  <2> QED
    BY <2>8, <2>10, <2>13 DEF LockInv, OneWriterPerAuthor
<1>3. TypeOK /\ LockInv /\ [Next]_vars => LockInv'
  BY LockInvStep
<1> QED
  BY <1>1, <1>2, <1>3, TypeCorrect, PTL DEF Spec
=============================================================================
