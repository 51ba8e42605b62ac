--------------------------- MODULE ProducersProofs ---------------------------
(***************************************************************************)
(* The poller for any number of categories, members, pages and faults:     *)
(* types, that nothing is marked seen that was not produced, and how often *)
(* a member can be produced. The backfill for any list and any records:    *)
(* what is marked was delivered but for what the client's buffer loses,    *)
(* and a run that ends has seen the whole list. The replay of one paper's  *)
(* failures for any versions, failures and runs: once the latest failure   *)
(* is dealt with, the paper is stored as they ask.                         *)
(***************************************************************************)
EXTENDS Producers, FiniteSetTheorems, SequenceTheorems, TLAPS

-----------------------------------------------------------------------------
\* The first element of a sequence, and the rest.
LEMMA HeadAndRest ==
  ASSUME NEW S, NEW s \in Seq(S), s # <<>>
  PROVE  /\ Head(s) \in S /\ Tail(s) \in Seq(S)
         /\ ToSet(s) = {Head(s)} \cup ToSet(Tail(s))
<1>1. Head(s) \in S /\ Tail(s) \in Seq(S) /\ Len(s) \in Nat \ {0} /\ Len(Tail(s)) = Len(s) - 1
    OBVIOUS
<1>2. Head(s) = s[1] /\ \A i \in 1..(Len(s) - 1) : Tail(s)[i] = s[i + 1]
    OBVIOUS
<1>3. ASSUME NEW x \in ToSet(s) PROVE x \in {Head(s)} \cup ToSet(Tail(s))
    <2>1. PICK i \in 1..Len(s) : x = s[i]
        BY <1>3 DEF ToSet
    <2>2. CASE i = 1
        BY <1>2, <2>1, <2>2
    <2>3. CASE i # 1
        <3>1. i - 1 \in 1..(Len(s) - 1) /\ (i - 1) + 1 = i
            BY <1>1, <2>1, <2>3
        <3>2. x = Tail(s)[i - 1]
            BY <1>2, <2>1, <3>1
        <3>3. i - 1 \in DOMAIN Tail(s)
            BY <1>1, <3>1
        <3> QED BY <3>2, <3>3 DEF ToSet
    <2> QED BY <2>2, <2>3
<1>4. ToSet(Tail(s)) \subseteq ToSet(s) /\ Head(s) \in ToSet(s)
    BY <1>1, <1>2 DEF ToSet
<1> QED BY <1>1, <1>3, <1>4

-----------------------------------------------------------------------------
(* The poller *)


\* The record being marked is on papers.new.
MarkAfterSend == pc = "mark" => page # <<>> /\ produced[Head(page)] > 0

\* A member that is neither seen nor about to be marked was produced in faults
\* only.
RepeatsByFaults ==
  \A m \in Member :
    m \notin seen /\ ~(pc = "mark" /\ Head(page) = m) => produced[m] <= faults

ProduceInv == SeenIsProduced /\ DuplicatesBounded /\ MarkAfterSend /\ RepeatsByFaults

-----------------------------------------------------------------------------
\* Entries are members and can be counted (category_page).
LEMMA EntriesTyped ==
  ASSUME TypeOK
  PROVE  Entries \in Seq(Member) /\ Parsed(Entries) \in Nat
<1> DEFINE l == listing[category]
           end == IF start + PageSize <= Len(l) THEN start + PageSize ELSE Len(l)
<1>1. l \in Seq(Member) /\ start \in Nat /\ PageSize \in Nat
  BY SizeAssumption DEF TypeOK
<1>2. end \in Nat /\ end <= Len(l)
  BY <1>1
<1>3. Entries = SubSeq(l, start + 1, end)
  BY DEF Entries
<1>4. Entries \in Seq(Member)
  <2>1. CASE start + 1 <= end
    <3>1. \A i \in (start + 1)..end : l[i] \in Member
      BY <1>1, <2>1
    <3> QED
      BY <1>1, <1>3, <2>1, <3>1, SubSeqProperties
  <2>2. CASE ~(start + 1 <= end)
    <3>1. Entries = <<>>
      BY <1>1, <1>3, <2>2, SubSeqEmpty
    <3> QED
      BY <3>1
  <2> QED
    BY <2>1, <2>2
<1>5. DOMAIN Entries = 1..Len(Entries) /\ Len(Entries) \in Nat
  BY <1>4
<1>6. IsFiniteSet({k \in DOMAIN Entries : Entries[k] \notin Unparseable})
  <2>1. IsFiniteSet(1..Len(Entries))
    BY <1>5, FS_Interval
  <2>2. {k \in DOMAIN Entries : Entries[k] \notin Unparseable} \subseteq 1..Len(Entries)
    BY <1>5
  <2> QED
    BY <2>1, <2>2, FS_Subset
<1>7. Parsed(Entries) \in Nat
  BY <1>6, FS_CardinalityType DEF Parsed
<1> QED
  BY <1>4, <1>7

\* The variables of a walk that starts over.
LEMMA FreshWalk ==
  ASSUME NEW c \in Category, WalkFromTop(c)
  PROVE  /\ category' \in Category /\ start' \in Nat /\ pages' \in 0..MaxPages
         /\ attempt' \in 1..MaxFetches /\ page' \in Seq(Member)
         /\ more' \in BOOLEAN /\ foundInPage' \in BOOLEAN
<1>1. 0 \in Nat /\ 0 \in 0..MaxPages /\ 1 \in 1..MaxFetches
  BY SizeAssumption
<1>2. <<>> \in Seq(Member)
  OBVIOUS
<1> QED
  BY <1>1, <1>2 DEF WalkFromTop

\* The variables a walk leaves behind when it ends, and where the poller goes.
LEMMA EndWalkTypes ==
  ASSUME TypeOK, NEW failure \in BOOLEAN, NEW capped \in BOOLEAN,
         EndWalk(failure, capped)
  PROVE  /\ category' \in Category /\ start' \in Nat /\ pages' \in 0..MaxPages
         /\ attempt' \in 1..MaxFetches /\ page' \in Seq(Member)
         /\ more' \in BOOLEAN /\ foundInPage' \in BOOLEAN
         /\ failed' \in BOOLEAN /\ covered' \in 0..MaxMembers
         /\ pc' \in {"rest", "fetch"}
<1>1. \E c \in Category : WalkFromTop(c)
  BY SizeAssumption DEF EndWalk, Category, TypeOK
<1> QED
  BY <1>1, FreshWalk DEF EndWalk, TypeOK

\* A fault is one more.
LEMMA InjectTypes ==
  ASSUME TypeOK, NEW kind, Inject(kind)
  PROVE  faults' = faults + 1 /\ faults' \in 0..MaxFaults
  BY SizeAssumption DEF Inject, TypeOK

\* Nothing in the feed but members, whatever arrives.
LEMMA FeedTypes ==
  ASSUME TypeOK, Feed
  PROVE  TypeOK'
<1>1. Arrive
  BY DEF Feed, Submit, Revise
<1>2. arrived' \in Member /\ burst' \in 0..MaxBurst
  <2>1. arrived' \in Member
    BY <1>1, SizeAssumption DEF Arrive, Member, TypeOK
  <2>2. burst' = burst \/ (burst < MaxBurst /\ burst' = burst + 1)
    BY <1>1 DEF Arrive
  <2>3. burst' \in 0..MaxBurst
    BY <2>2, SizeAssumption DEF TypeOK
  <2> QED
    BY <2>1, <2>3
<1>3. listing' \in [Category -> Seq(Member)] /\ paper' \in [Member -> Member]
  <2>1. CASE \E categories \in (SUBSET Category) \ {{}} : Submit(categories)
    BY <1>2, <2>1 DEF Submit, TypeOK
  <2>2. CASE \E m \in Member : Revise(m)
    <3> PICK m \in Member : Revise(m)
      BY <2>2
    <3>1. ASSUME NEW c \in Category, m \in ToSet(listing[c]),
                 NEW k, k = (CHOOSE j \in DOMAIN listing[c] : listing[c][j] = m)
          PROVE  RemoveAt(listing[c], k) \in Seq(Member)
      <4> DEFINE l == listing[c]
      <4>1. l \in Seq(Member) /\ k \in 1..Len(l)
        BY <3>1 DEF TypeOK, ToSet
      <4>2. SubSeq(l, 1, k - 1) \in Seq(Member) /\ SubSeq(l, k + 1, Len(l)) \in Seq(Member)
        BY <4>1
      <4> QED
        BY <4>2 DEF RemoveAt
    <3>2. ASSUME NEW c \in Category
          PROVE  listing'[c] \in Seq(Member)
      <4>1. CASE m \in ToSet(listing[c])
        <5> DEFINE k == CHOOSE j \in DOMAIN listing[c] : listing[c][j] = m
        <5>1. RemoveAt(listing[c], k) \in Seq(Member)
          BY <3>1, <4>1
        <5>2. listing'[c] = <<arrived'>> \o RemoveAt(listing[c], k)
          BY <4>1 DEF Revise
        <5> QED
          BY <1>2, <5>1, <5>2
      <4>2. CASE m \notin ToSet(listing[c])
        BY <4>2 DEF Revise, TypeOK
      <4> QED
        BY <4>1, <4>2
    <3>3. listing' \in [Category -> Seq(Member)]
      BY <3>2 DEF Revise
    <3> QED
      BY <1>2, <3>3 DEF Revise, TypeOK
  <2> QED
    BY <2>1, <2>2 DEF Feed
<1> QED
  BY <1>1, <1>2, <1>3 DEF Arrive, walk, logged, TypeOK, Member

-----------------------------------------------------------------------------
\* The type invariant holds initially.
LEMMA TypeInit == Init => TypeOK
<1> SUFFICES ASSUME Init PROVE TypeOK
  OBVIOUS
<1>1. <<>> \in Seq(Member)
  OBVIOUS
<1>2. 0 \in 0..MaxMembers /\ 0 \in 0..MaxBurst /\ 0 \in 0..MaxFaults /\ 0 \in 0..MaxPages
      /\ 1 \in 1..MaxFetches /\ 1 \in Category
  BY SizeAssumption DEF Category
<1> QED
  BY <1>1, <1>2 DEF Init, TypeOK

\* The fetching of a page, whatever comes of it.
LEMMA FetchTypes ==
  ASSUME TypeOK, pages <= MaxPages,
         \/ FetchPage /\ pages < MaxPages
         \/ FetchNothing \/ FetchEmptyPage \/ FetchFails
  PROVE  TypeOK'
<1>1. faults' \in 0..MaxFaults
  BY InjectTypes DEF FetchPage, FetchNothing, FetchEmptyPage, FetchFails, TypeOK
<1>2. CASE FetchPage /\ pages < MaxPages
  <2>1. Entries \in Seq(Member) /\ Parsed(Entries) \in Nat
    BY EntriesTyped
  <2>2. page' \in Seq(Member) /\ start' \in Nat /\ more' \in BOOLEAN
    BY <1>2, <2>1 DEF FetchPage, TypeOK
  <2>3. pages' \in 0..MaxPages /\ attempt' \in 1..MaxFetches /\ burst' \in 0..MaxBurst
    BY <1>2, SizeAssumption DEF FetchPage, TypeOK
  <2> QED
    BY <1>1, <1>2, <2>2, <2>3 DEF FetchPage, feed, logged, TypeOK
<1>3. CASE FetchNothing \/ FetchEmptyPage \/ FetchFails
  <2>1. UNCHANGED <<feed, seen, produced, begun, burst>>
    BY <1>3 DEF FetchNothing, FetchEmptyPage, FetchFails
  <2>2. CASE /\ attempt < MaxFetches /\ attempt' = attempt + 1
             /\ UNCHANGED <<pc, category, start, pages, page, more, foundInPage, logged>>
    <3>1. attempt' \in 1..MaxFetches
      BY <2>2, SizeAssumption DEF TypeOK
    <3> QED
      BY <1>1, <2>1, <2>2, <3>1 DEF feed, logged, TypeOK
  <2>3. CASE \E failure, capped \in BOOLEAN : EndWalk(failure, capped)
    BY <1>1, <2>1, <2>3, EndWalkTypes DEF feed, TypeOK
  <2>4. (pages + 1 >= MaxPages /\ foundInPage) \in BOOLEAN
    OBVIOUS
  <2> QED
    BY <1>3, <2>2, <2>3, <2>4 DEF FetchNothing, FetchEmptyPage, FetchFails
<1> QED
  BY <1>2, <1>3

\* A page is asked for below the cap only, and a walk begins there.
PagesBelowCap == pc \in {"down", "rest", "fetch"} => pages < MaxPages

\* Handling one entry of a page preserves the types.
LEMMA EntryTypes ==
  ASSUME TypeOK, MarkAfterSend,
         PassOver \/ Send \/ SendFails \/ Mark \/ RedisFails \/ EndPage
  PROVE  TypeOK'
<1>1. faults' \in 0..MaxFaults
  BY InjectTypes DEF PassOver, Send, SendFails, Mark, RedisFails, EndPage, TypeOK
<1>2. ASSUME page # <<>>
      PROVE  Head(page) \in Member /\ Tail(page) \in Seq(Member)
  BY <1>2, HeadTailProperties DEF TypeOK
<1>3. ASSUME page # <<>>, Sent
      PROVE  produced' \in [Member -> Nat] /\ seen' = seen
  BY <1>2, <1>3 DEF Sent, TypeOK
<1>4. CASE PassOver
  BY <1>1, <1>2, <1>4 DEF PassOver, feed, logged, TypeOK
<1>5. CASE Send
  BY <1>1, <1>3, <1>5 DEF Send, NeedsSending, feed, walk, logged, TypeOK
<1>6. CASE SendFails
  <2>1. produced' \in [Member -> Nat] /\ seen' \subseteq Member
    BY <1>3, <1>6 DEF SendFails, NeedsSending, TypeOK
  <2> QED
    BY <1>1, <1>6, <2>1, EndWalkTypes DEF SendFails, feed, TypeOK
<1>7. CASE Mark
  <2>1. page # <<>>
    BY <1>7 DEF Mark, MarkAfterSend
  <2> QED
    BY <1>1, <1>2, <1>7, <2>1 DEF Mark, feed, logged, TypeOK
<1>8. CASE RedisFails
  BY <1>1, <1>8, EndWalkTypes DEF RedisFails, feed, TypeOK
<1>9. CASE EndPage
  <2>1. CapReached \in BOOLEAN
    BY DEF CapReached
  <2> QED
    BY <1>1, <1>9, <2>1, EndWalkTypes DEF EndPage, feed, walk, logged, TypeOK
<1> QED
  BY <1>4, <1>5, <1>6, <1>7, <1>8, <1>9

\* Starting and crashing preserve the types.
LEMMA CycleTypes ==
  ASSUME TypeOK, Start \/ BeginCycle \/ Crash
  PROVE  TypeOK'
<1>1. faults' \in 0..MaxFaults
  BY InjectTypes DEF Start, BeginCycle, Crash, TypeOK
<1>2. CASE Start
  BY <1>1, <1>2 DEF Start, feed, walk, logged, TypeOK
<1>3. CASE BeginCycle
  <2>1. 0 \in 0..MaxBurst
    BY SizeAssumption
  <2> QED
    BY <1>1, <1>3, <2>1 DEF BeginCycle, feed, walk, TypeOK
<1>4. CASE Crash
  <2>1. begun' \in 0..MaxMembers
    BY <1>4, SizeAssumption DEF Crash, TypeOK
  <2>2. 1 \in Category
    BY SizeAssumption DEF Category
  <2> QED
    BY <1>1, <1>4, <2>1, <2>2, FreshWalk DEF Crash, feed, logged, TypeOK
<1> QED
  BY <1>2, <1>3, <1>4

\* A page is only fetched below the cap.
LEMMA CapStep ==
  ASSUME TypeOK, PagesBelowCap, [Next]_vars
  PROVE  PagesBelowCap'
<1> USE SizeAssumption DEF PagesBelowCap
<1>1. ASSUME NEW failure, NEW capped, EndWalk(failure, capped)
      PROVE  PagesBelowCap'
  BY <1>1 DEF EndWalk, WalkFromTop
<1>2. ASSUME UNCHANGED <<pc, pages>>
      PROVE  PagesBelowCap'
  BY <1>2
<1>3. CASE UNCHANGED vars \/ Feed \/ PassOver
  <2>1. UNCHANGED <<pc, pages>>
    BY <1>3 DEF vars, walk, Feed, Submit, Revise, Arrive, PassOver
  <2> QED
    BY <1>2, <2>1
<1>4. CASE FetchPage \/ Send \/ Mark
  <2>1. pc' \in {"entry", "mark"}
    BY <1>4 DEF FetchPage, Send, Mark
  <2> QED
    BY <2>1
<1>5. CASE FetchNothing \/ FetchEmptyPage \/ FetchFails
  <2>1. UNCHANGED <<pc, pages>> \/ \E failure, capped : EndWalk(failure, capped)
    BY <1>5 DEF FetchNothing, FetchEmptyPage, FetchFails
  <2> QED
    BY <1>1, <1>2, <2>1
<1>6. CASE SendFails \/ RedisFails
  BY <1>1, <1>6 DEF SendFails, RedisFails
<1>7. CASE EndPage
  <2>1. (pages < MaxPages /\ UNCHANGED walk) \/ EndWalk(FALSE, CapReached)
    BY <1>7 DEF EndPage, BelowCap
  <2>2. CASE pages < MaxPages /\ UNCHANGED walk
    BY <2>2 DEF walk
  <2> QED
    BY <1>1, <2>1, <2>2
<1>8. CASE Start \/ BeginCycle
  BY <1>8 DEF Start, BeginCycle, walk
<1>9. CASE Crash
  BY <1>9 DEF Crash, WalkFromTop
<1> QED
  BY <1>3, <1>4, <1>5, <1>6, <1>7, <1>8, <1>9 DEF Next, Step, Fault

\* The type invariant is inductive.
LEMMA TypeStep ==
  ASSUME TypeOK, PagesBelowCap, MarkAfterSend, [Next]_vars
  PROVE  TypeOK'
<1>1. CASE UNCHANGED vars
  BY <1>1 DEF vars, feed, walk, logged, TypeOK
<1>2. CASE FetchPage \/ FetchNothing \/ FetchEmptyPage \/ FetchFails
  <2>1. pages < MaxPages
    BY <1>2 DEF FetchPage, FetchNothing, FetchEmptyPage, FetchFails, PagesBelowCap
  <2>2. pages <= MaxPages
    BY DEF TypeOK
  <2> QED
    BY <1>2, <2>1, <2>2, FetchTypes
<1> QED
  BY <1>1, <1>2, FeedTypes, EntryTypes, CycleTypes DEF Next, Step, Fault

-----------------------------------------------------------------------------
\* Steps that produce and mark nothing: a record that was to be marked stays
\* so, or a fault intervenes.
LEMMA NothingProduced ==
  ASSUME TypeOK, ProduceInv, UNCHANGED <<seen, produced>>,
         faults' \in {faults, faults + 1},
         \/ pc' # "mark" /\ (pc = "mark" => faults' = faults + 1)
         \/ UNCHANGED <<pc, page>>
  PROVE  ProduceInv'
<1> USE DEF ProduceInv
<1>1. faults \in Nat /\ \A m \in Member : produced[m] \in Nat
  BY SizeAssumption DEF TypeOK
<1>2. SeenIsProduced' /\ DuplicatesBounded'
  BY <1>1 DEF SeenIsProduced, DuplicatesBounded
<1>3. MarkAfterSend'
  BY DEF MarkAfterSend
<1>4. RepeatsByFaults'
  BY <1>1 DEF RepeatsByFaults, DuplicatesBounded
<1> QED
  BY <1>2, <1>3, <1>4

\* The link between the seen set and papers.new is inductive.
LEMMA ProduceStep ==
  ASSUME TypeOK, ProduceInv, [Next]_vars
  PROVE  ProduceInv'
<1> USE DEF ProduceInv
<1>1. faults \in Nat /\ \A m \in Member : produced[m] \in Nat
  BY SizeAssumption DEF TypeOK
<1>2. ASSUME NEW kind, Inject(kind)
      PROVE  faults' = faults + 1
  BY <1>2 DEF Inject
<1>3. ASSUME NEW failure, NEW capped, EndWalk(failure, capped)
      PROVE  pc' # "mark"
  BY <1>3 DEF EndWalk
<1>4. CASE UNCHANGED vars \/ Feed
  <2>1. UNCHANGED <<seen, produced, pc, page, faults>>
    BY <1>4 DEF vars, walk, Feed, Submit, Revise, Arrive
  <2> QED
    BY <2>1, NothingProduced
<1>5. CASE Start \/ BeginCycle \/ FetchPage
  BY <1>5, NothingProduced DEF Start, BeginCycle, FetchPage
<1>6. CASE PassOver
  BY <1>6, NothingProduced DEF PassOver
<1>7. CASE FetchNothing \/ FetchEmptyPage \/ FetchFails
  <2>1. /\ UNCHANGED <<seen, produced>> /\ faults' \in {faults, faults + 1}
        /\ pc = "fetch"
    BY <1>2, <1>7 DEF FetchNothing, FetchEmptyPage, FetchFails
  <2>2. pc' # "mark"
    BY <1>3, <1>7, <2>1 DEF FetchNothing, FetchEmptyPage, FetchFails
  <2> QED
    BY <2>1, <2>2, NothingProduced
<1>8. CASE RedisFails
  BY <1>2, <1>3, <1>8, NothingProduced DEF RedisFails
<1>9. CASE Crash
  BY <1>2, <1>9, NothingProduced DEF Crash
<1>10. CASE EndPage
  <2>1. pc' # "mark"
    BY <1>3, <1>10 DEF EndPage
  <2> QED
    BY <1>10, <2>1, NothingProduced DEF EndPage
<1>11. CASE Send \/ SendFails
  <2> DEFINE m == Head(page)
  <2>1. NeedsSending /\ m \in Member /\ m \notin seen
    BY <1>11, HeadTailProperties DEF Send, SendFails, NeedsSending, Seen, TypeOK
  <2>2. produced[m] <= faults
    BY <2>1 DEF RepeatsByFaults, NeedsSending
  <2>3. CASE Send
    <3>1. /\ produced' = [produced EXCEPT ![m] = @ + 1] /\ pc' = "mark"
          /\ UNCHANGED <<seen, page, faults>>
      BY <2>3 DEF Send, Sent, walk
    <3>2. SeenIsProduced' /\ DuplicatesBounded'
      <4>1. produced \in [Member -> Nat] /\ faults \in Nat
        BY DEF TypeOK
      <4> HIDE DEF m
      <4>2. SeenIsProduced'
        BY <1>1, <2>1, <3>1, <4>1 DEF SeenIsProduced, TypeOK
      <4>3. DuplicatesBounded'
        BY <1>1, <2>1, <2>2, <3>1, <4>1 DEF DuplicatesBounded
      <4> QED
        BY <4>2, <4>3
    <3>3. MarkAfterSend'
      BY <1>1, <2>1, <3>1 DEF MarkAfterSend, NeedsSending, TypeOK
    <3>4. RepeatsByFaults'
      BY <1>1, <2>1, <3>1 DEF RepeatsByFaults, NeedsSending, TypeOK
    <3> QED
      BY <3>2, <3>3, <3>4
  <2>4. CASE SendFails
    <3>1. faults' = faults + 1 /\ pc' # "mark" /\ pc = "entry"
      BY <1>2, <1>3, <2>4 DEF SendFails, NeedsSending
    <3>2. CASE UNCHANGED <<seen, produced>>
      BY <3>1, <3>2, NothingProduced
    <3>3. CASE Sent
      <4>1. produced' = [produced EXCEPT ![m] = @ + 1] /\ seen' = seen
        BY <3>3 DEF Sent
      <4>2. SeenIsProduced' /\ DuplicatesBounded'
        <5>1. produced \in [Member -> Nat] /\ faults \in Nat
          BY DEF TypeOK
        <5> HIDE DEF m
        <5>2. SeenIsProduced'
          BY <1>1, <2>1, <4>1, <5>1 DEF SeenIsProduced, TypeOK
        <5>3. DuplicatesBounded'
          BY <1>1, <2>1, <2>2, <3>1, <4>1, <5>1 DEF DuplicatesBounded
        <5> QED
          BY <5>2, <5>3
      <4>3. RepeatsByFaults'
        BY <1>1, <2>1, <2>2, <3>1, <4>1 DEF RepeatsByFaults, TypeOK
      <4> QED
        BY <3>1, <4>2, <4>3 DEF MarkAfterSend
    <3> QED
      BY <2>4, <3>2, <3>3 DEF SendFails
  <2> QED
    BY <1>11, <2>3, <2>4
<1>12. CASE Mark
  <2> DEFINE m == Head(page)
  <2>1. /\ pc = "mark" /\ pc' = "entry" /\ seen' = seen \cup {m}
        /\ UNCHANGED <<produced, faults>>
    BY <1>12 DEF Mark
  <2>2. produced[m] > 0
    BY <2>1 DEF MarkAfterSend
  <2> QED
    BY <2>1, <2>2 DEF SeenIsProduced, DuplicatesBounded, MarkAfterSend, RepeatsByFaults
<1> QED
  BY <1>4, <1>5, <1>6, <1>7, <1>8, <1>9, <1>10, <1>11, <1>12 DEF Next, Step, Fault

\* No page has been read and nothing produced.
LEMMA ProduceInit == Init => PagesBelowCap /\ ProduceInv
  BY SizeAssumption DEF Init, PagesBelowCap, ProduceInv, SeenIsProduced,
     DuplicatesBounded, MarkAfterSend, RepeatsByFaults

\* The three invariants of the poller's produce-then-mark order.
LEMMA ProducedThenSeen ==
  Spec => [](TypeOK /\ SeenIsProduced /\ DuplicatesBounded)
<1> DEFINE IInv == TypeOK /\ PagesBelowCap /\ ProduceInv
<1>1. Init => IInv
  BY TypeInit, ProduceInit
<1>2. IInv /\ [Next]_vars => IInv'
  BY TypeStep, CapStep, ProduceStep DEF ProduceInv
<1>3. IInv => TypeOK /\ SeenIsProduced /\ DuplicatesBounded
  BY DEF ProduceInv
<1> QED
  BY <1>1, <1>2, <1>3, PTL DEF Spec

\* The poller's variables keep their types.
THEOREM TypeCorrect == Spec => []TypeOK
  BY ProducedThenSeen, PTL

\* Nothing is marked seen that is not on papers.new.
THEOREM SeenOnlyProduced == Spec => []SeenIsProduced
  BY ProducedThenSeen, PTL

\* A member is produced once, plus at most once for every fault.
THEOREM DuplicatesAreFaults == Spec => []DuplicatesBounded
  BY ProducedThenSeen, PTL

-----------------------------------------------------------------------------
(* The backfill *)

HarvestTypes ==
  /\ harvest \in [at : {"down", "ask", "record", "produced", "done"}, page : 1..Len(OaiPages),
                  request : 1..MaxRequests, rest : Seq(Records),
                  limit : 0..Len(OaiPages)]
  /\ cut \in BOOLEAN

\* Every wanted record among rs has been marked.
AllMarked(rs) == Wanted \cap rs \subseteq marked

\* The pages before this one are dealt with, and of this one what is not left.
Walked ==
  /\ harvest.at \in {"ask", "record", "produced"} =>
       \A i \in 1..(harvest.page - 1) : AllMarked(ToSet(OaiPages[i]))
  /\ harvest.at \in {"record", "produced"} =>
       AllMarked(ToSet(OaiPages[harvest.page]) \ ToSet(harvest.rest))
  /\ harvest.at = "done" /\ ~cut => AllMarked(Records)

Traced == onTopic \cup buffer \cup undelivered

\* What is marked has been produced, and so has the record about to be marked.
MarkedTraced ==
  /\ marked \subseteq Traced
  /\ harvest.at = "produced" => harvest.rest # <<>> /\ Head(harvest.rest) \in Traced

BackfillInv == HarvestTypes /\ Walked /\ MarkedTraced

\* A page is a sequence of the list's records, and every record is on one.
LEMMA PagesOfRecords ==
  /\ Len(OaiPages) \in Nat \ {0}
  /\ \A i \in 1..Len(OaiPages) : OaiPages[i] \in Seq(Records)
  /\ \A m \in Records : \E i \in 1..Len(OaiPages) : m \in ToSet(OaiPages[i])
<1> DEFINE All == Wanted \cup UNION {ToSet(OaiPages[i]) : i \in DOMAIN OaiPages}
<1>1. OaiPages \in Seq(Seq(All)) /\ OaiPages # <<>>
    BY BackfillAssumption
<1> HIDE DEF All
<1>2. Len(OaiPages) \in Nat \ {0} /\ DOMAIN OaiPages = 1..Len(OaiPages)
    BY <1>1
<1>3. ASSUME NEW i \in 1..Len(OaiPages) PROVE OaiPages[i] \in Seq(Records)
    <2>1. OaiPages[i] \in Seq(All)
        BY <1>1, <1>3
    <2>2. \A j \in 1..Len(OaiPages[i]) : OaiPages[i][j] \in Records
        BY <1>2, <2>1 DEF Records, ToSet
    <2>3. OaiPages[i] = [j \in 1..Len(OaiPages[i]) |-> OaiPages[i][j]] /\ Len(OaiPages[i]) \in Nat
        BY <2>1
    <2> QED BY <2>2, <2>3, IsASeq
<1>4. \A m \in Records : \E i \in 1..Len(OaiPages) : m \in ToSet(OaiPages[i])
    BY <1>2 DEF Records
<1> QED BY <1>2, <1>3, <1>4

\* No run has started.
LEMMA BackfillStarts == BackfillInit => BackfillInv
<1>1. <<>> \in Seq(Records)
    OBVIOUS
<1>2. 1 \in 1..Len(OaiPages) /\ 0 \in 0..Len(OaiPages) /\ 1 \in 1..MaxRequests
    BY PagesOfRecords, BackfillAssumption
<1> SUFFICES ASSUME BackfillInit PROVE BackfillInv
    OBVIOUS
<1>3. Down.at = "down"
    BY DEF Down
<1>4. HarvestTypes
    <2>1. Down \in [at : {"down", "ask", "record", "produced", "done"}, page : 1..Len(OaiPages),
                    request : 1..MaxRequests, rest : Seq(Records), limit : 0..Len(OaiPages)]
        BY <1>1, <1>2 DEF Down
    <2> QED BY <2>1 DEF BackfillInit, HarvestTypes
<1>5. Walked
    BY <1>3 DEF BackfillInit, Walked
<1>6. MarkedTraced
    BY <1>3 DEF BackfillInit, MarkedTraced
<1> QED BY <1>4, <1>5, <1>6 DEF BackfillInv

\* What the harvest itself does.
LEMMA HarvestStep ==
  ASSUME BackfillInv,
         \/ StartHarvest \/ Busy503 \/ TakeBusyForLastPage \/ ReceivePage
         \/ PassRecord \/ Produce \/ MarkProduced \/ EndHarvestPage
  PROVE  BackfillInv'
<1>0. HarvestTypes /\ Walked /\ MarkedTraced
    BY DEF BackfillInv
<1>a. /\ harvest.at \in {"down", "ask", "record", "produced", "done"}
      /\ harvest.page \in 1..Len(OaiPages) /\ harvest.request \in 1..MaxRequests
      /\ harvest.rest \in Seq(Records) /\ harvest.limit \in 0..Len(OaiPages)
      /\ OaiPages[harvest.page] \in Seq(Records)
      /\ Len(OaiPages) \in Nat \ {0} /\ MaxRequests \in Nat \ {0} /\ <<>> \in Seq(Records)
    BY <1>0, PagesOfRecords, BackfillAssumption DEF HarvestTypes
<1>1. CASE StartHarvest
    <2>1. PICK limit \in 0..Len(OaiPages) : harvest' = AskFor(1, limit)
        BY <1>1 DEF StartHarvest
    <2>2. /\ harvest'.at = "ask" /\ harvest'.page = 1
          /\ harvest' \in [at : {"down", "ask", "record", "produced", "done"}, page : 1..Len(OaiPages),
                           request : 1..MaxRequests, rest : Seq(Records), limit : 0..Len(OaiPages)]
        BY <1>a, <2>1 DEF AskFor
    <2>3. cut' = FALSE /\ UNCHANGED <<buffer, onTopic, marked, undelivered>>
        BY <1>1 DEF StartHarvest, RecordsUnchanged
    <2>4. HarvestTypes'
        BY <2>2, <2>3 DEF HarvestTypes
    <2>5. Walked'
        <3>1. ~ \E i \in 1..(1 - 1) : TRUE
            OBVIOUS
        <3> QED BY <2>2, <3>1 DEF Walked
    <2>6. MarkedTraced'
        BY <1>0, <2>2, <2>3 DEF MarkedTraced, Traced
    <2> QED BY <2>4, <2>5, <2>6 DEF BackfillInv
<1>2. CASE Busy503
    <2>1. /\ harvest.at = "ask" /\ harvest' = [harvest EXCEPT !.request = @ + 1]
          /\ harvest.request < MaxRequests
          /\ UNCHANGED <<buffer, onTopic, marked, undelivered, cut>>
        BY <1>2 DEF Busy503, RecordsUnchanged
    <2>2. harvest.request + 1 \in 1..MaxRequests
        BY <1>a, <2>1
    <2> QED BY <1>0, <2>1, <2>2 DEF BackfillInv, HarvestTypes, Walked, MarkedTraced, Traced, AllMarked
<1>3. CASE TakeBusyForLastPage
    <2>1. /\ harvest' = [harvest EXCEPT !.at = "done"] /\ cut' = TRUE
          /\ UNCHANGED <<buffer, onTopic, marked, undelivered>>
        BY <1>3 DEF TakeBusyForLastPage, RecordsUnchanged
    <2> QED BY <1>0, <2>1 DEF BackfillInv, HarvestTypes, Walked, MarkedTraced, Traced
<1>4. CASE ReceivePage
    <2>1. /\ harvest.at = "ask"
          /\ harvest' = [harvest EXCEPT !.at = "record", !.rest = OaiPages[harvest.page]]
          /\ UNCHANGED <<buffer, onTopic, marked, undelivered, cut>>
        BY <1>4 DEF ReceivePage, RecordsUnchanged
    <2>2. /\ harvest'.at = "record" /\ harvest'.page = harvest.page /\ harvest'.rest = OaiPages[harvest.page]
          /\ harvest' \in [at : {"down", "ask", "record", "produced", "done"}, page : 1..Len(OaiPages),
                           request : 1..MaxRequests, rest : Seq(Records), limit : 0..Len(OaiPages)]
        BY <1>0, <1>a, <2>1 DEF HarvestTypes
    <2> QED BY <1>0, <2>1, <2>2 DEF BackfillInv, HarvestTypes, Walked, MarkedTraced, Traced, AllMarked
<1>5. CASE PassRecord
    <2>1. /\ harvest.at = "record" /\ harvest.rest # <<>>
          /\ Head(harvest.rest) \in Wanted => Head(harvest.rest) \in marked
          /\ harvest' = [harvest EXCEPT !.rest = Tail(@)]
          /\ UNCHANGED <<buffer, onTopic, marked, undelivered, cut>>
        BY <1>5 DEF PassRecord, RecordsUnchanged
    <2>2. Tail(harvest.rest) \in Seq(Records) /\ ToSet(harvest.rest) = {Head(harvest.rest)} \cup ToSet(Tail(harvest.rest))
        BY <1>a, <2>1, HeadAndRest
    <2>3. /\ harvest'.at = "record" /\ harvest'.page = harvest.page /\ harvest'.rest = Tail(harvest.rest)
          /\ harvest' \in [at : {"down", "ask", "record", "produced", "done"}, page : 1..Len(OaiPages),
                           request : 1..MaxRequests, rest : Seq(Records), limit : 0..Len(OaiPages)]
        BY <1>0, <2>1, <2>2 DEF HarvestTypes
    <2> QED BY <1>0, <2>1, <2>2, <2>3 DEF BackfillInv, HarvestTypes, Walked, MarkedTraced, Traced, AllMarked
<1>6. CASE Produce
    <2>1. /\ harvest.at = "record" /\ harvest.rest # <<>>
          /\ buffer' = buffer \cup {Head(harvest.rest)}
          /\ harvest' = [harvest EXCEPT !.at = "produced"]
          /\ UNCHANGED <<onTopic, marked, undelivered, cut>>
        BY <1>6 DEF Produce
    <2> QED BY <1>0, <2>1 DEF BackfillInv, HarvestTypes, Walked, MarkedTraced, Traced, AllMarked
<1>7. CASE MarkProduced
    <2>1. /\ harvest.at = "produced" /\ harvest.rest # <<>> /\ Head(harvest.rest) \in Traced
          /\ marked' = marked \cup {Head(harvest.rest)}
          /\ harvest' = [harvest EXCEPT !.at = "record", !.rest = Tail(@)]
          /\ UNCHANGED <<buffer, onTopic, undelivered, cut>>
        BY <1>0, <1>7 DEF MarkProduced, MarkedTraced
    <2>2. Tail(harvest.rest) \in Seq(Records) /\ ToSet(harvest.rest) = {Head(harvest.rest)} \cup ToSet(Tail(harvest.rest))
        BY <1>a, <2>1, HeadAndRest
    <2>3. /\ harvest'.at = "record" /\ harvest'.page = harvest.page /\ harvest'.rest = Tail(harvest.rest)
          /\ harvest' \in [at : {"down", "ask", "record", "produced", "done"}, page : 1..Len(OaiPages),
                           request : 1..MaxRequests, rest : Seq(Records), limit : 0..Len(OaiPages)]
        BY <1>0, <2>1, <2>2 DEF HarvestTypes
    <2> QED BY <1>0, <2>1, <2>2, <2>3 DEF BackfillInv, HarvestTypes, Walked, MarkedTraced, Traced, AllMarked
<1>8. CASE EndHarvestPage
    <2>1. harvest.at = "record" /\ harvest.rest = <<>> /\ UNCHANGED <<buffer, onTopic, marked, undelivered>>
        BY <1>8 DEF EndHarvestPage, RecordsUnchanged
    <2>2. \A i \in 1..harvest.page : AllMarked(ToSet(OaiPages[i]))
        <3>1. ToSet(harvest.rest) = {}
            BY <2>1 DEF ToSet
        <3>2. AllMarked(ToSet(OaiPages[harvest.page]))
            BY <1>0, <2>1, <3>1 DEF Walked, AllMarked
        <3>3. \A i \in 1..harvest.page : i = harvest.page \/ i \in 1..(harvest.page - 1)
            BY <1>a
        <3> QED BY <1>0, <2>1, <3>2, <3>3 DEF Walked
    <2>3. CASE harvest.page = Len(OaiPages)
        <3>1. harvest' = [harvest EXCEPT !.at = "done"] /\ UNCHANGED cut
            BY <1>8, <2>3 DEF EndHarvestPage
        <3>2. AllMarked(Records)
            BY <2>2, <2>3, PagesOfRecords DEF AllMarked
        <3> QED BY <1>0, <2>1, <3>1, <3>2 DEF BackfillInv, HarvestTypes, Walked, MarkedTraced, Traced, AllMarked
    <2>4. CASE harvest.page # Len(OaiPages) /\ harvest.page = harvest.limit
        <3>1. harvest' = [harvest EXCEPT !.at = "done"] /\ cut' = TRUE
            BY <1>8, <2>4 DEF EndHarvestPage
        <3> QED BY <1>0, <2>1, <3>1 DEF BackfillInv, HarvestTypes, Walked, MarkedTraced, Traced
    <2>5. CASE harvest.page # Len(OaiPages) /\ harvest.page # harvest.limit
        <3>1. /\ harvest' = AskFor(harvest.page + 1, harvest.limit)
              /\ UNCHANGED cut
            BY <1>8, <2>5 DEF EndHarvestPage
        <3>2. harvest.page + 1 \in 1..Len(OaiPages) /\ (harvest.page + 1) - 1 = harvest.page
            BY <1>a, <2>5
        <3>3. harvest' \in [at : {"down", "ask", "record", "produced", "done"}, page : 1..Len(OaiPages),
                           request : 1..MaxRequests, rest : Seq(Records), limit : 0..Len(OaiPages)]
            BY <1>a, <3>1, <3>2 DEF AskFor
        <3>4. harvest'.at = "ask" /\ harvest'.page = harvest.page + 1
            BY <3>1 DEF AskFor
        <3> QED BY <1>0, <2>1, <2>2, <3>1, <3>2, <3>3, <3>4
                DEF BackfillInv, HarvestTypes, Walked, MarkedTraced, Traced, AllMarked
    <2> QED BY <2>3, <2>4, <2>5
<1> QED BY <1>1, <1>2, <1>3, <1>4, <1>5, <1>6, <1>7, <1>8

\* The client delivers or loses what it holds, the run dies or ends, the poller
\* sends and marks what it finds itself.
LEMMA AroundHarvest ==
  ASSUME BackfillInv,
         \/ HarvestDies \/ Exit
         \/ \E m \in Records : Deliver(m) \/ DeliveryFails(m) \/ PollerSends(m)
  PROVE  BackfillInv'
<1>0. HarvestTypes /\ Walked /\ MarkedTraced
    BY DEF BackfillInv
<1>1. CASE HarvestDies
    <2>1. /\ harvest' = Down /\ undelivered' = undelivered \cup buffer /\ buffer' = {}
          /\ UNCHANGED <<onTopic, marked, cut>>
        BY <1>1 DEF HarvestDies
    <2>2. HarvestTypes'
        <3>1. 1 \in 1..Len(OaiPages) /\ 0 \in 0..Len(OaiPages) /\ 1 \in 1..MaxRequests /\ <<>> \in Seq(Records)
            BY PagesOfRecords, BackfillAssumption
        <3> QED BY <1>0, <2>1, <3>1 DEF HarvestTypes, Down
    <2> QED BY <1>0, <2>1, <2>2 DEF BackfillInv, Walked, MarkedTraced, Traced, Down
<1>2. CASE Exit
    <2>1. /\ undelivered' = undelivered \cup buffer /\ buffer' = {}
          /\ UNCHANGED <<harvest, onTopic, marked, cut>>
        BY <1>2 DEF Exit
    <2> QED BY <1>0, <2>1 DEF BackfillInv, HarvestTypes, Walked, MarkedTraced, Traced, AllMarked
<1>3. ASSUME NEW m \in Records, Deliver(m) \/ DeliveryFails(m) \/ PollerSends(m) PROVE BackfillInv'
    <2>1. /\ UNCHANGED <<harvest, cut>> /\ marked \subseteq marked'
          /\ Traced \subseteq Traced' /\ marked' \subseteq Traced'
        BY <1>0, <1>3 DEF Deliver, DeliveryFails, PollerSends, MarkedTraced, Traced
    <2> QED BY <1>0, <2>1 DEF BackfillInv, HarvestTypes, Walked, MarkedTraced, AllMarked
<1> QED BY <1>1, <1>2, <1>3

\* Every step of the backfill keeps the invariant.
LEMMA BackfillStep == BackfillInv /\ [BackfillNext]_backfillVars => BackfillInv'
<1>1. BackfillInv /\ UNCHANGED backfillVars => BackfillInv'
    BY DEF backfillVars, BackfillInv, HarvestTypes, Walked, MarkedTraced, Traced, AllMarked
<1> QED
    BY <1>1, HarvestStep, AroundHarvest DEF BackfillNext

\* What is marked as seen is on papers.new, on its way or lost from the buffer, and
\* a run that ended, not cut short, has marked every wanted record of the list.
THEOREM BackfillKeepsTrack == BackfillSpec => []BackfillLosesNothingElse
<1>1. BackfillInv => BackfillLosesNothingElse
    BY DEF BackfillInv, Walked, MarkedTraced, Traced, AllMarked, BackfillLosesNothingElse
<1> QED BY <1>1, BackfillStarts, BackfillStep, PTL DEF BackfillSpec

\* What the backfill holds, sends, marks or loses is a record of the list.
ListedRecords == buffer \cup onTopic \cup marked \cup undelivered \subseteq Records

\* Pages hold the list's records, and only records are delivered or sent.
LEMMA RecordsStep ==
  BackfillInv /\ ListedRecords /\ [BackfillNext]_backfillVars => ListedRecords'
<1> SUFFICES ASSUME BackfillInv, ListedRecords, [BackfillNext]_backfillVars
             PROVE  ListedRecords'
  OBVIOUS
<1>1. CASE Produce \/ MarkProduced
  <2>1. harvest.rest # <<>> /\ harvest.rest \in Seq(Records)
    BY <1>1 DEF Produce, MarkProduced, BackfillInv, MarkedTraced, HarvestTypes
  <2>2. Head(harvest.rest) \in Records
    BY <2>1, HeadAndRest
  <2> QED
    BY <1>1, <2>2 DEF ListedRecords, Produce, MarkProduced
<1>2. CASE \/ StartHarvest \/ Busy503 \/ TakeBusyForLastPage \/ ReceivePage
           \/ PassRecord \/ EndHarvestPage \/ HarvestDies \/ Exit \/ UNCHANGED backfillVars
  BY <1>2 DEF ListedRecords, StartHarvest, Busy503, TakeBusyForLastPage, ReceivePage,
     PassRecord, EndHarvestPage, HarvestDies, Exit, RecordsUnchanged, backfillVars
<1>3. CASE \E m \in Records : Deliver(m) \/ DeliveryFails(m) \/ PollerSends(m)
  BY <1>3 DEF ListedRecords, Deliver, DeliveryFails, PollerSends
<1> QED
  BY <1>1, <1>2, <1>3 DEF BackfillNext

\* The harvest, what it holds and what it marked keep their types.
THEOREM BackfillTypes == BackfillSpec => []BackfillTypeOK
<1>1. BackfillInit => ListedRecords
  BY DEF BackfillInit, ListedRecords
<1>2. BackfillInv /\ ListedRecords => BackfillTypeOK
  BY DEF BackfillInv, HarvestTypes, ListedRecords, BackfillTypeOK
<1> QED
  BY <1>1, <1>2, BackfillStarts, BackfillStep, RecordsStep, PTL DEF BackfillSpec

-----------------------------------------------------------------------------
(* Replays settle a paper *)

\* Versions and documents still to be read, and failures, whatever their order.
ToFetch == ToSet(fetchQueue)
Chunked == ToSet(fullQueue)
Failures == ToSet(dlq)

\* Full text of version w or a newer one is on its way, or stored.
FullPending(w) ==
  (\E v \in ToFetch : v >= w) \/ (\E doc \in Chunked : doc.version >= w)
FullStored(w) == stored.source = "full" /\ stored.version >= w

\* No element of s comes before one of an older version.
OldestFirst(s, versionOf) ==
  \A i, j \in DOMAIN s : i <= j => versionOf[s[i]] <= versionOf[s[j]]
Itself == [v \in Version |-> v]
DocVersion == [doc \in Doc |-> doc.version]

Ordered ==
  /\ OldestFirst(fetchQueue, Itself) /\ OldestFirst(fullQueue, DocVersion)
  /\ \A doc \in Chunked, v \in ToFetch : doc.version <= v

OnlyAnnounced ==
  /\ \A v \in ToFetch \cup ToSet(fastQueue) : v <= announced
  /\ \A doc \in Chunked : doc.version <= announced /\ doc.source = "full"
  /\ \A f \in Failures : f.payload.version <= announced
                         /\ (f.payload.kind = "chunked" => f.payload.source = "full")
  /\ stored.version <= announced

\* Full text that is stored, or was chunked and failed, is no newer than what the
\* fetcher has still to read.
Forward ==
  /\ stored.source = "full" =>
       /\ \A v \in ToFetch : v >= stored.version
       /\ \A doc \in Chunked : doc.version >= stored.version
  /\ \A f \in Failures, v \in ToFetch :
       f.payload.kind = "chunked" => v >= f.payload.version

AskedFor(w) == \E f \in Failures : AsksFullText(f) /\ f.payload.version >= w

\* The full text of every version announced is pending, stored or among the failures.
Accounted == \A w \in 1..announced : FullPending(w) \/ FullStored(w) \/ AskedFor(w)

\* The latest failure has been dealt with.
Retried ==
  dlq # <<>> /\ tried = Len(dlq) /\ ~unsent /\ AsksFullText(dlq[tried])
  /\ (\A f \in Failures : ~AsksMore(f, dlq[tried])) =>
    FullPending(dlq[tried].payload.version) \/ FullStored(dlq[tried].payload.version)

\* What a run has read is in the topic.
ScriptReads == (script.at # "idle" => script.read \in 1..Len(dlq)) /\ tried <= Len(dlq)

PathsKept == Ordered /\ OnlyAnnounced /\ Forward /\ Accounted /\ Retried
ReplayInv ==
  ReplayTypeOK /\ ScriptReads /\ (~outdated /\ ~noFullText => PathsKept)

\* A message more on a queue: what is on it, and its order if the message is the newest.
LEMMA Pushed ==
  ASSUME NEW S, NEW s \in Seq(S), NEW x \in S
  PROVE  /\ Append(s, x) \in Seq(S) /\ ToSet(Append(s, x)) = ToSet(s) \cup {x}
         /\ Len(Append(s, x)) = Len(s) + 1 /\ Len(s) \in Nat
         /\ \A i \in 1..Len(s) : Append(s, x)[i] = s[i]
         /\ \A versionOf \in [S -> Nat] :
              OldestFirst(s, versionOf) /\ (\A y \in ToSet(s) : versionOf[y] <= versionOf[x])
              => OldestFirst(Append(s, x), versionOf)
<1> DEFINE t == Append(s, x)
<1>1. /\ t \in Seq(S) /\ Len(t) = Len(s) + 1 /\ Len(s) \in Nat
      /\ DOMAIN s = 1..Len(s) /\ DOMAIN t = 1..(Len(s) + 1)
      /\ \A i \in 1..Len(s) : t[i] = s[i] /\ s[i] \in S
      /\ t[Len(s) + 1] = x
  OBVIOUS
<1> HIDE DEF t
<1>2. \A i \in 1..(Len(s) + 1) : i \in 1..Len(s) \/ i = Len(s) + 1
  BY <1>1
<1>3. ToSet(t) = ToSet(s) \cup {x}
  <2>1. ToSet(t) \subseteq ToSet(s) \cup {x}
    BY <1>1, <1>2 DEF ToSet
  <2>2. ToSet(s) \cup {x} \subseteq ToSet(t)
    <3>1. 1..Len(s) \subseteq 1..(Len(s) + 1) /\ Len(s) + 1 \in 1..(Len(s) + 1)
      BY <1>1
    <3> QED
      BY <1>1, <3>1 DEF ToSet
  <2> QED
    BY <2>1, <2>2
<1>4. ASSUME NEW versionOf \in [S -> Nat], OldestFirst(s, versionOf),
             \A y \in ToSet(s) : versionOf[y] <= versionOf[x]
      PROVE  OldestFirst(t, versionOf)
  <2> SUFFICES ASSUME NEW i \in DOMAIN t, NEW j \in DOMAIN t, i <= j
               PROVE  versionOf[t[i]] <= versionOf[t[j]]
    BY DEF OldestFirst
  <2>1. CASE j \in 1..Len(s)
    <3>1. i \in 1..Len(s)
      BY <1>1, <2>1
    <3> QED
      BY <1>1, <1>4, <2>1, <3>1 DEF OldestFirst
  <2>2. CASE j = Len(s) + 1 /\ i \in 1..Len(s)
    BY <1>1, <1>4, <2>2 DEF ToSet
  <2>3. CASE j = Len(s) + 1 /\ i = Len(s) + 1
    BY <1>1, <2>3
  <2> QED
    BY <1>1, <1>2, <2>1, <2>2, <2>3
<1> QED
  BY <1>1, <1>3, <1>4 DEF t

\* The first message read: what stays, and that the first was the oldest.
LEMMA Popped ==
  ASSUME NEW S, NEW s \in Seq(S), s # <<>>
  PROVE  /\ Head(s) \in S /\ Tail(s) \in Seq(S) /\ ToSet(s) = {Head(s)} \cup ToSet(Tail(s))
         /\ \A versionOf \in [S -> Nat] :
              OldestFirst(s, versionOf) =>
                /\ OldestFirst(Tail(s), versionOf)
                /\ \A y \in ToSet(s) : versionOf[Head(s)] <= versionOf[y]
<1>1. /\ Head(s) = s[1] /\ Len(s) \in Nat \ {0} /\ Len(Tail(s)) = Len(s) - 1
      /\ DOMAIN s = 1..Len(s) /\ DOMAIN Tail(s) = 1..(Len(s) - 1)
      /\ \A i \in 1..(Len(s) - 1) : Tail(s)[i] = s[i + 1]
  OBVIOUS
<1>2. ASSUME NEW versionOf \in [S -> Nat], OldestFirst(s, versionOf)
      PROVE  /\ OldestFirst(Tail(s), versionOf)
             /\ \A y \in ToSet(s) : versionOf[Head(s)] <= versionOf[y]
  <2>1. ASSUME NEW i \in DOMAIN Tail(s), NEW j \in DOMAIN Tail(s), i <= j
        PROVE  versionOf[Tail(s)[i]] <= versionOf[Tail(s)[j]]
    <3>1. i + 1 \in DOMAIN s /\ j + 1 \in DOMAIN s /\ i + 1 <= j + 1
      BY <1>1, <2>1
    <3> QED
      BY <1>1, <1>2, <3>1 DEF OldestFirst
  <2>2. ASSUME NEW y \in ToSet(s) PROVE versionOf[Head(s)] <= versionOf[y]
    <3>1. PICK i \in DOMAIN s : y = s[i]
      BY DEF ToSet
    <3>2. 1 \in DOMAIN s /\ 1 <= i
      BY <1>1
    <3> QED
      BY <1>1, <1>2, <3>1, <3>2 DEF OldestFirst
  <2> QED
    BY <2>1, <2>2 DEF OldestFirst
<1> QED
  BY <1>2, HeadAndRest

\* What the queues, the row and the failures hold.
LEMMA ReplayKinds ==
  ASSUME ReplayTypeOK
  PROVE  /\ ToFetch \subseteq Version /\ ToSet(fastQueue) \subseteq Version
         /\ Chunked \subseteq Doc /\ Failures \subseteq FailedWork
         /\ announced \in Nat /\ MaxVersion \in Nat \ {0} /\ Version \subseteq Nat
         /\ stored.version \in 0..MaxVersion /\ stored.version \in Nat
         /\ stored.source \in {"none", "abstract", "full"}
         /\ stored.version # 0 => stored.source # "none"
         /\ stored.summary \in 0..MaxVersion
         /\ \A doc \in Doc : doc.version \in Version /\ doc.source \in Source /\ doc.version \in Nat
         /\ \A f \in FailedWork : f.payload.version \in Version /\ f.payload.version \in Nat
         /\ Itself \in [Version -> Nat] /\ DocVersion \in [Doc -> Nat]
         /\ Len(dlq) \in Nat /\ DOMAIN dlq = 1..Len(dlq)
         /\ \A i \in 1..Len(dlq) : dlq[i] \in Failures
<1>1. /\ fetchQueue \in Seq(Version) /\ fastQueue \in Seq(Version)
      /\ fullQueue \in Seq(Doc) /\ dlq \in Seq(FailedWork) /\ announced \in 0..MaxVersion
      /\ stored \in Row
  BY DEF ReplayTypeOK
<1>2. MaxVersion \in Nat \ {0} /\ Version \subseteq Nat /\ announced \in Nat
  BY <1>1, MaxVersionAssumption DEF Version
<1>3. /\ ToFetch \subseteq Version /\ ToSet(fastQueue) \subseteq Version
      /\ Chunked \subseteq Doc /\ Failures \subseteq FailedWork
  BY <1>1 DEF ToFetch, Chunked, Failures, ToSet
<1>4. /\ stored.version \in 0..MaxVersion
      /\ stored.source \in {"none", "abstract", "full"}
      /\ stored.version # 0 => stored.source # "none"
      /\ stored.summary \in 0..MaxVersion
  <2>1. CASE stored = NoRow
    BY <1>2, <2>1 DEF NoRow
  <2>2. CASE stored \in [version : Version, source : Source, summary : 0..MaxVersion]
    <3>1. stored.version \in Version /\ stored.source \in Source /\ stored.summary \in 0..MaxVersion
      BY <2>2
    <3> QED
      BY <1>2, <3>1 DEF Version, Source
  <2> QED
    BY <1>1, <2>1, <2>2 DEF Row
<1>5. stored.version \in Nat
  BY <1>2, <1>4
<1>6. \A doc \in Doc : doc.version \in Version /\ doc.source \in Source /\ doc.version \in Nat
  BY <1>2 DEF Doc
<1>7. \A f \in FailedWork : f.payload.version \in Version /\ f.payload.version \in Nat
  BY <1>2 DEF FailedWork, Payload
<1>8. Itself \in [Version -> Nat] /\ DocVersion \in [Doc -> Nat]
  BY <1>2, <1>6 DEF Itself, DocVersion
<1>9. Len(dlq) \in Nat /\ DOMAIN dlq = 1..Len(dlq) /\ \A i \in 1..Len(dlq) : dlq[i] \in Failures
  BY <1>1 DEF Failures, ToSet
<1> QED
  BY <1>2, <1>3, <1>4, <1>5, <1>6, <1>7, <1>8, <1>9

\* What a worker stores is a row, and what it fails a failure.
LEMMA WorkKinds ==
  ASSUME ReplayTypeOK
  PROVE  /\ \A v \in Version, source \in Source : DocOf(v, source) \in Doc
         /\ \A doc \in Doc : StoreDoc(doc) => stored' \in Row
         /\ \A doc \in Doc, stage \in {"fetcher", "worker"}, kind \in {"paper", "chunked"} :
              [stage |-> stage,
               payload |-> [kind |-> kind, version |-> doc.version, source |-> doc.source]]
              \in FailedWork
<1>1. \A v \in Version, source \in Source : DocOf(v, source) \in Doc
  BY ReplayAssumption DEF DocOf, Doc
<1>2. ASSUME NEW doc \in Doc, StoreDoc(doc) PROVE stored' \in Row
  <2>1. stored \in Row /\ stored.summary \in 0..MaxVersion /\ doc.version \in Version /\ doc.source \in Source
    BY ReplayKinds DEF ReplayTypeOK
  <2>2. MergedSummary(stored.summary, 0) = stored.summary
    BY DEF MergedSummary
  <2>3. Upserted(stored, doc, 0) \in Row
    BY <2>1, <2>2 DEF Upserted, Row
  <2> QED
    BY <1>2, <2>1, <2>3 DEF StoreDoc
<1>3. ASSUME NEW doc \in Doc, NEW stage \in {"fetcher", "worker"}, NEW kind \in {"paper", "chunked"}
      PROVE  [stage |-> stage,
              payload |-> [kind |-> kind, version |-> doc.version, source |-> doc.source]]
             \in FailedWork
  BY ReplayKinds DEF FailedWork, Payload
<1> QED
  BY <1>1, <1>2, <1>3

\* A failure is a further one of the topic.
LEMMA FailureAdded ==
  ASSUME ReplayTypeOK, ScriptReads, NEW doc \in Doc,
         NEW stage \in {"fetcher", "worker"}, NEW kind \in {"paper", "chunked"},
         FailWith(stage, kind, doc), UNCHANGED <<script, tried>>
  PROVE  /\ dlq' \in Seq(FailedWork) /\ Len(dlq') <= MaxFailures /\ ScriptReads'
         /\ tried' # Len(dlq')
         /\ Failures' = Failures \cup
              {[stage |-> stage,
                payload |-> [kind |-> kind, version |-> doc.version, source |-> doc.source]]}
<1> DEFINE f == [stage |-> stage,
                 payload |-> [kind |-> kind, version |-> doc.version, source |-> doc.source]]
<1>1. f \in FailedWork
  BY WorkKinds
<1>2. dlq \in Seq(FailedWork) /\ Len(dlq) \in Nat /\ tried \in Nat /\ MaxFailures \in Nat
  BY ReplayAssumption DEF ReplayTypeOK
<1>3. dlq' = Append(dlq, f) /\ Len(dlq) < MaxFailures
  BY DEF FailWith
<1> HIDE DEF f
<1>4. /\ dlq' \in Seq(FailedWork) /\ ToSet(dlq') = ToSet(dlq) \cup {f}
      /\ Len(dlq') = Len(dlq) + 1
  BY <1>1, <1>2, <1>3, Pushed
<1>5. Len(dlq') <= MaxFailures /\ tried' # Len(dlq') /\ tried' <= Len(dlq')
      /\ 1..Len(dlq) \subseteq 1..Len(dlq')
  BY <1>2, <1>3, <1>4 DEF ScriptReads
<1>6. ScriptReads'
  BY <1>5 DEF ScriptReads
<1> QED
  BY <1>4, <1>5, <1>6 DEF Failures, f

\* The queues, the row and the failures keep their types.
LEMMA PathTypes ==
  ASSUME ReplayTypeOK, ScriptReads,
         \/ AnnounceNext \/ FetcherGivesUp
         \/ \E fails \in BOOLEAN : FastHandles(fails) \/ FullHandles(fails)
         \/ \E source \in Source : FetcherChunks(source)
  PROVE  ReplayTypeOK' /\ ScriptReads'
<1>1. /\ announced \in 0..MaxVersion /\ fastQueue \in Seq(Version) /\ fetchQueue \in Seq(Version)
      /\ fullQueue \in Seq(Doc) /\ stored \in Row /\ dlq \in Seq(FailedWork)
      /\ Len(dlq) <= MaxFailures
      /\ script \in [at : {"idle", "plan", "apply"}, read : 0..MaxFailures]
      /\ replays \in 0..MaxReplays /\ tried \in 0..MaxFailures
      /\ unsent \in BOOLEAN /\ outdated \in BOOLEAN /\ noFullText \in BOOLEAN
  BY DEF ReplayTypeOK
<1>2. "abstract" \in Source /\ MaxVersion \in Nat
  BY MaxVersionAssumption DEF Source
<1>3. CASE AnnounceNext
  <2>1. announced' \in Version /\ announced' \in 0..MaxVersion
    BY <1>1, <1>2, <1>3 DEF AnnounceNext, Version
  <2>2. Append(fastQueue, announced') \in Seq(Version) /\ Append(fetchQueue, announced') \in Seq(Version)
    BY <1>1, <2>1, Pushed
  <2> QED
    BY <1>1, <1>3, <2>1, <2>2 DEF AnnounceNext, scriptState, ReplayTypeOK, ScriptReads
<1>4. CASE FetcherGivesUp
  <2>1. Head(fetchQueue) \in Version /\ fetchQueue' \in Seq(Version)
    BY <1>1, <1>4, Popped DEF FetcherGivesUp
  <2>2. DocOf(Head(fetchQueue), "abstract") \in Doc
    BY <1>2, <2>1, WorkKinds
  <2>3. /\ FailWith("fetcher", "paper", DocOf(Head(fetchQueue), "abstract"))
        /\ UNCHANGED <<announced, fastQueue, fullQueue, stored, script, replays, tried,
                       unsent, outdated, noFullText>>
    BY <1>4 DEF FetcherGivesUp, scriptState
  <2>4. dlq' \in Seq(FailedWork) /\ Len(dlq') <= MaxFailures /\ ScriptReads'
    BY <2>2, <2>3, FailureAdded
  <2> QED
    BY <1>1, <2>1, <2>3, <2>4 DEF ReplayTypeOK
<1>5. ASSUME NEW fails \in BOOLEAN, FastHandles(fails) PROVE ReplayTypeOK' /\ ScriptReads'
  <2> DEFINE doc == DocOf(Head(fastQueue), "abstract")
  <2>1. Head(fastQueue) \in Version /\ fastQueue' \in Seq(Version)
    BY <1>1, <1>5, Popped DEF FastHandles
  <2>2. doc \in Doc
    BY <1>2, <2>1, WorkKinds
  <2>3. /\ IF fails THEN FailWith("worker", "paper", doc) /\ UNCHANGED stored
           ELSE StoreDoc(doc) /\ UNCHANGED dlq
        /\ UNCHANGED <<announced, fetchQueue, fullQueue, script, replays, tried,
                       unsent, outdated, noFullText>>
    BY <1>5 DEF FastHandles, scriptState
  <2> HIDE DEF doc
  <2>4. CASE fails
    <3>1. dlq' \in Seq(FailedWork) /\ Len(dlq') <= MaxFailures /\ ScriptReads'
      BY <2>2, <2>3, <2>4, FailureAdded
    <3> QED
      BY <1>1, <2>1, <2>3, <2>4, <3>1 DEF ReplayTypeOK
  <2>5. CASE ~fails
    <3>1. stored' \in Row
      BY <2>2, <2>3, <2>5, WorkKinds
    <3> QED
      BY <1>1, <2>1, <2>3, <2>5, <3>1 DEF ReplayTypeOK, ScriptReads
  <2> QED
    BY <2>4, <2>5
<1>6. ASSUME NEW fails \in BOOLEAN, FullHandles(fails) PROVE ReplayTypeOK' /\ ScriptReads'
  <2>1. Head(fullQueue) \in Doc /\ fullQueue' \in Seq(Doc)
    BY <1>1, <1>6, Popped DEF FullHandles
  <2>2. /\ IF fails THEN FailWith("worker", "chunked", Head(fullQueue)) /\ UNCHANGED stored
           ELSE StoreDoc(Head(fullQueue)) /\ UNCHANGED dlq
        /\ UNCHANGED <<announced, fastQueue, fetchQueue, script, replays, tried,
                       unsent, outdated, noFullText>>
    BY <1>6 DEF FullHandles, scriptState
  <2>3. CASE fails
    <3>1. dlq' \in Seq(FailedWork) /\ Len(dlq') <= MaxFailures /\ ScriptReads'
      BY <2>1, <2>2, <2>3, FailureAdded
    <3> QED
      BY <1>1, <2>1, <2>2, <2>3, <3>1 DEF ReplayTypeOK
  <2>4. CASE ~fails
    <3>1. stored' \in Row
      BY <2>1, <2>2, <2>4, WorkKinds
    <3> QED
      BY <1>1, <2>1, <2>2, <2>4, <3>1 DEF ReplayTypeOK, ScriptReads
  <2> QED
    BY <2>3, <2>4
<1>7. ASSUME NEW source \in Source, FetcherChunks(source) PROVE ReplayTypeOK' /\ ScriptReads'
  <2>1. Head(fetchQueue) \in Version /\ fetchQueue' \in Seq(Version)
    BY <1>1, <1>7, Popped DEF FetcherChunks
  <2>2. fullQueue' \in Seq(Doc)
    BY <1>1, <1>7, <2>1, WorkKinds, Pushed DEF FetcherChunks
  <2>3. noFullText' \in BOOLEAN
    BY <1>7, Zenon DEF FetcherChunks
  <2> QED
    BY <1>1, <1>7, <2>1, <2>2, <2>3 DEF FetcherChunks, scriptState, ReplayTypeOK, ScriptReads
<1> QED
  BY <1>3, <1>4, <1>5, <1>6, <1>7

\* So does the script's run.
LEMMA ScriptTypes ==
  ASSUME ReplayTypeOK, ScriptReads,
         \/ ReadFailures \/ PlanReplay \/ ApplyReplay \/ ReplayUnsent \/ ScriptDies
         \/ ReplayIdles
  PROVE  ReplayTypeOK' /\ ScriptReads'
<1>1. /\ announced \in 0..MaxVersion /\ fastQueue \in Seq(Version) /\ fetchQueue \in Seq(Version)
      /\ fullQueue \in Seq(Doc) /\ stored \in Row /\ dlq \in Seq(FailedWork)
      /\ Len(dlq) <= MaxFailures
      /\ script \in [at : {"idle", "plan", "apply"}, read : 0..MaxFailures]
      /\ replays \in 0..MaxReplays /\ tried \in 0..MaxFailures
      /\ unsent \in BOOLEAN /\ outdated \in BOOLEAN /\ noFullText \in BOOLEAN
  BY DEF ReplayTypeOK
<1>2. /\ script.at \in {"idle", "plan", "apply"} /\ script.read \in 0..MaxFailures
      /\ Len(dlq) \in Nat /\ MaxFailures \in Nat /\ MaxReplays \in Nat
  BY <1>1, ReplayAssumption
<1>3. CASE ReadFailures
  <2>1. PICK read \in 1..Len(dlq) : script' = [at |-> "plan", read |-> read]
    BY <1>3 DEF ReadFailures
  <2>2. script' \in [at : {"idle", "plan", "apply"}, read : 0..MaxFailures] /\ script'.read \in 1..Len(dlq)
    BY <1>1, <1>2, <2>1
  <2>3. replays' \in 0..MaxReplays
    BY <1>1, <1>2, <1>3 DEF ReadFailures
  <2> QED
    BY <1>1, <1>3, <2>2, <2>3 DEF ReadFailures, queues, ReplayTypeOK, ScriptReads
<1>4. ASSUME NEW at \in {"idle", "apply"}, script' = [script EXCEPT !.at = at], script.at # "idle"
      PROVE  /\ script' \in [at : {"idle", "plan", "apply"}, read : 0..MaxFailures]
             /\ script'.read \in 1..Len(dlq) /\ script.read \in 1..Len(dlq)
             /\ script.read <= Len(dlq)
  <2>1. script.read \in 1..Len(dlq)
    BY <1>4 DEF ScriptReads
  <2>2. script' \in [at : {"idle", "plan", "apply"}, read : 0..MaxFailures] /\ script'.read = script.read
    BY <1>1, <1>4
  <2> QED
    BY <1>2, <2>1, <2>2
<1>5. CASE PlanReplay
  <2>1. /\ script.at # "idle" /\ tried' \in {tried, script.read}
        /\ \E at \in {"idle", "apply"} : script' = [script EXCEPT !.at = at]
        /\ UNCHANGED <<announced, fastQueue, fetchQueue, fullQueue, stored, dlq, replays,
                       unsent, outdated, noFullText>>
    BY <1>5 DEF PlanReplay, queues
  <2>2. /\ script' \in [at : {"idle", "plan", "apply"}, read : 0..MaxFailures]
        /\ script'.read \in 1..Len(dlq) /\ script.read <= Len(dlq)
    BY <1>4, <2>1
  <2> QED
    BY <1>1, <1>2, <2>1, <2>2 DEF ReplayTypeOK, ScriptReads
<1>6. CASE ApplyReplay
  <2> DEFINE p == dlq[script.read].payload
  <2>1. /\ script.at # "idle" /\ tried' = script.read
        /\ script' = [script EXCEPT !.at = "idle"]
        /\ UNCHANGED <<announced, stored, dlq, replays, unsent, noFullText>>
    BY <1>6 DEF ApplyReplay
  <2>2. /\ script' \in [at : {"idle", "plan", "apply"}, read : 0..MaxFailures]
        /\ script'.read \in 1..Len(dlq) /\ script.read <= Len(dlq) /\ script.read \in 1..Len(dlq)
    BY <1>4, <2>1
  <2>3. p.version \in Version /\ p.source \in Source
    <3>1. dlq[script.read] \in FailedWork
      BY <1>1, <2>2
    <3> QED
      BY <3>1 DEF FailedWork, Payload
  <2>4. outdated' \in BOOLEAN
    BY <1>6, Zenon DEF ApplyReplay
  <2>5. /\ fullQueue' \in {fullQueue, Append(fullQueue, DocOf(p.version, p.source))}
        /\ fastQueue' \in {fastQueue, Append(fastQueue, p.version)}
        /\ fetchQueue' \in {fetchQueue, Append(fetchQueue, p.version)}
    BY <1>6 DEF ApplyReplay
  <2> HIDE DEF p
  <2>6. fullQueue' \in Seq(Doc) /\ fastQueue' \in Seq(Version) /\ fetchQueue' \in Seq(Version)
    <3>1. DocOf(p.version, p.source) \in Doc
      BY <2>3, WorkKinds
    <3>2. Append(fullQueue, DocOf(p.version, p.source)) \in Seq(Doc)
      BY <1>1, <3>1, Pushed
    <3>3. Append(fastQueue, p.version) \in Seq(Version) /\ Append(fetchQueue, p.version) \in Seq(Version)
      BY <1>1, <2>3, Pushed
    <3> QED
      BY <1>1, <2>5, <3>2, <3>3
  <2> QED
    BY <1>1, <1>2, <2>1, <2>2, <2>4, <2>6 DEF ReplayTypeOK, ScriptReads
<1>7. CASE ReplayUnsent
  <2>1. /\ script.at # "idle" /\ tried' = script.read
        /\ script' = [script EXCEPT !.at = "idle"] /\ unsent' = TRUE
        /\ UNCHANGED <<announced, fastQueue, fetchQueue, fullQueue, stored, dlq, replays,
                       outdated, noFullText>>
    BY <1>7 DEF ReplayUnsent, queues
  <2>2. /\ script' \in [at : {"idle", "plan", "apply"}, read : 0..MaxFailures]
        /\ script'.read \in 1..Len(dlq) /\ script.read <= Len(dlq)
    BY <1>4, <2>1
  <2> QED
    BY <1>1, <1>2, <2>1, <2>2 DEF ReplayTypeOK, ScriptReads
<1>8. CASE ScriptDies
  <2>1. /\ script.at # "idle" /\ script' = [script EXCEPT !.at = "idle"]
        /\ UNCHANGED <<announced, fastQueue, fetchQueue, fullQueue, stored, dlq, replays,
                       tried, unsent, outdated, noFullText>>
    BY <1>8 DEF ScriptDies, queues
  <2>2. /\ script' \in [at : {"idle", "plan", "apply"}, read : 0..MaxFailures]
        /\ script'.read \in 1..Len(dlq)
    BY <1>4, <2>1
  <2> QED
    BY <1>1, <2>1, <2>2 DEF ReplayTypeOK, ScriptReads
<1>9. CASE ReplayIdles
  BY <1>1, <1>9 DEF ReplayIdles, replayVars, ReplayTypeOK, ScriptReads
<1> QED
  BY <1>3, <1>5, <1>6, <1>7, <1>8, <1>9

\* The fetcher reads the oldest version; a version at least as new may be queued for it.
LEMMA FetchMoves ==
  ASSUME ReplayTypeOK, Ordered
  PROVE  /\ fetchQueue # <<>> /\ fetchQueue' = Tail(fetchQueue) =>
              /\ Head(fetchQueue) \in Version /\ OldestFirst(fetchQueue', Itself)
              /\ ToFetch = {Head(fetchQueue)} \cup ToFetch'
              /\ \A v \in ToFetch : Head(fetchQueue) <= v
         /\ \A v \in Version :
              fetchQueue' = Append(fetchQueue, v) /\ (\A w \in ToFetch : w <= v) =>
                OldestFirst(fetchQueue', Itself) /\ ToFetch' = ToFetch \cup {v}
<1>1. /\ fetchQueue \in Seq(Version) /\ Itself \in [Version -> Nat] /\ ToFetch \subseteq Version
      /\ OldestFirst(fetchQueue, Itself) /\ \A v \in Version : Itself[v] = v
  BY ReplayKinds DEF ReplayTypeOK, Ordered, Itself
<1>2. ASSUME fetchQueue # <<>>, fetchQueue' = Tail(fetchQueue)
      PROVE  /\ Head(fetchQueue) \in Version /\ OldestFirst(fetchQueue', Itself)
             /\ ToFetch = {Head(fetchQueue)} \cup ToFetch'
             /\ \A v \in ToFetch : Head(fetchQueue) <= v
  <2>1. /\ Head(fetchQueue) \in Version /\ ToFetch = {Head(fetchQueue)} \cup ToFetch'
        /\ OldestFirst(fetchQueue', Itself)
        /\ \A v \in ToFetch : Itself[Head(fetchQueue)] <= Itself[v]
    BY <1>1, <1>2, Popped DEF ToFetch
  <2> QED
    BY <1>1, <2>1
<1>3. ASSUME NEW v \in Version, fetchQueue' = Append(fetchQueue, v), \A w \in ToFetch : w <= v
      PROVE  OldestFirst(fetchQueue', Itself) /\ ToFetch' = ToFetch \cup {v}
  <2>1. \A w \in ToSet(fetchQueue) : Itself[w] <= Itself[v]
    BY <1>1, <1>3 DEF ToFetch
  <2> QED
    BY <1>1, <1>3, <2>1, Pushed DEF ToFetch
<1> QED
  BY <1>2, <1>3

\* The same of the documents chunked.
LEMMA ChunkMoves ==
  ASSUME ReplayTypeOK, Ordered
  PROVE  /\ fullQueue # <<>> /\ fullQueue' = Tail(fullQueue) =>
              /\ Head(fullQueue) \in Doc /\ OldestFirst(fullQueue', DocVersion)
              /\ Chunked = {Head(fullQueue)} \cup Chunked'
              /\ \A doc \in Chunked : Head(fullQueue).version <= doc.version
         /\ \A new \in Doc :
              fullQueue' = Append(fullQueue, new)
              /\ (\A doc \in Chunked : doc.version <= new.version) =>
                OldestFirst(fullQueue', DocVersion) /\ Chunked' = Chunked \cup {new}
<1>1. /\ fullQueue \in Seq(Doc) /\ DocVersion \in [Doc -> Nat] /\ Chunked \subseteq Doc
      /\ OldestFirst(fullQueue, DocVersion) /\ \A doc \in Doc : DocVersion[doc] = doc.version
  BY ReplayKinds DEF ReplayTypeOK, Ordered, DocVersion
<1>2. ASSUME fullQueue # <<>>, fullQueue' = Tail(fullQueue)
      PROVE  /\ Head(fullQueue) \in Doc /\ OldestFirst(fullQueue', DocVersion)
             /\ Chunked = {Head(fullQueue)} \cup Chunked'
             /\ \A doc \in Chunked : Head(fullQueue).version <= doc.version
  <2>1. /\ Head(fullQueue) \in Doc /\ Chunked = {Head(fullQueue)} \cup Chunked'
        /\ OldestFirst(fullQueue', DocVersion)
        /\ \A doc \in Chunked : DocVersion[Head(fullQueue)] <= DocVersion[doc]
    BY <1>1, <1>2, Popped DEF Chunked
  <2> QED
    BY <1>1, <2>1
<1>3. ASSUME NEW new \in Doc, fullQueue' = Append(fullQueue, new),
             \A doc \in Chunked : doc.version <= new.version
      PROVE  OldestFirst(fullQueue', DocVersion) /\ Chunked' = Chunked \cup {new}
  <2>1. \A doc \in ToSet(fullQueue) : DocVersion[doc] <= DocVersion[new]
    BY <1>1, <1>3 DEF Chunked
  <2> QED
    BY <1>1, <1>3, <2>1, Pushed DEF Chunked
<1> QED
  BY <1>2, <1>3

\* A new version is the newest anywhere.
LEMMA AnnouncedLater ==
  ASSUME ReplayTypeOK, ScriptReads, PathsKept, AnnounceNext
  PROVE  PathsKept'
<1>1. /\ announced' = announced + 1 /\ announced < MaxVersion
      /\ fastQueue' = Append(fastQueue, announced') /\ fetchQueue' = Append(fetchQueue, announced')
      /\ UNCHANGED <<fullQueue, stored, dlq, tried, unsent>>
  BY DEF AnnounceNext, scriptState
<1>2. Ordered /\ OnlyAnnounced /\ Forward /\ Accounted /\ Retried
  BY DEF PathsKept
<1>3. announced \in Nat /\ announced' \in Version /\ announced' \in Nat
  BY <1>1, ReplayKinds DEF Version
<1>a. \A n \in Nat : n <= announced => n <= announced' /\ announced' >= n
  BY <1>1, <1>3
<1>4. \A v \in ToFetch : v <= announced' /\ v \in Nat
  <2>1. ToFetch \subseteq Nat /\ \A v \in ToFetch : v <= announced
    BY <1>2, ReplayKinds DEF OnlyAnnounced
  <2> QED
    BY <1>a, <2>1
<1>5. OldestFirst(fetchQueue', Itself) /\ ToFetch' = ToFetch \cup {announced'}
  BY <1>1, <1>2, <1>3, <1>4, FetchMoves
<1>6. ToSet(fastQueue)' = ToSet(fastQueue) \cup {announced'}
  BY <1>1, <1>3, Pushed DEF ReplayTypeOK
<1>7. Chunked' = Chunked /\ Failures' = Failures /\ dlq' = dlq /\ stored' = stored
  BY <1>1 DEF Chunked, Failures
<1>9. OnlyAnnounced'
  <2>1. \A v \in ToFetch \cup ToSet(fastQueue) : v \in Nat /\ v <= announced
    BY <1>2, ReplayKinds DEF OnlyAnnounced
  <2>2. \A v \in (ToFetch \cup ToSet(fastQueue))' : v <= announced'
    BY <1>3, <1>5, <1>6, <1>a, <2>1
  <2>3. \A doc \in Chunked : doc.version \in Nat /\ doc.version <= announced /\ doc.source = "full"
    BY <1>2, ReplayKinds DEF OnlyAnnounced
  <2>4. \A f \in Failures : f.payload.version \in Nat /\ f.payload.version <= announced
                             /\ (f.payload.kind = "chunked" => f.payload.source = "full")
    BY <1>2, ReplayKinds DEF OnlyAnnounced
  <2>5. stored.version \in Nat /\ stored.version <= announced
    BY <1>2, ReplayKinds DEF OnlyAnnounced
  <2> QED
    BY <1>7, <1>a, <2>2, <2>3, <2>4, <2>5 DEF OnlyAnnounced
<1>10. Ordered'
  BY <1>1, <1>2, <1>3, <1>5, <1>7, <1>a, ReplayKinds DEF Ordered, OnlyAnnounced
<1>11. Forward'
  BY <1>2, <1>3, <1>5, <1>7, <1>a, ReplayKinds DEF Forward, OnlyAnnounced
<1>12. \A w : (FullPending(w) => FullPending(w)') /\ (FullStored(w) <=> FullStored(w)')
              /\ (AskedFor(w) <=> AskedFor(w)')
  BY <1>5, <1>7 DEF FullPending, FullStored, AskedFor
<1>13. Accounted'
  <2> SUFFICES ASSUME NEW w \in 1..announced'
               PROVE  (FullPending(w) \/ FullStored(w) \/ AskedFor(w))'
    BY DEF Accounted
  <2>1. CASE w \in 1..announced
    BY <1>2, <1>12, <2>1 DEF Accounted
  <2>2. CASE w = announced'
    <3>1. announced' \in ToFetch' /\ announced' >= w
      BY <1>3, <1>5, <2>2
    <3> QED
      BY <3>1 DEF FullPending
  <2> QED
    BY <1>1, <1>3, <2>1, <2>2
<1>14. Retried'
  BY <1>1, <1>2, <1>7, <1>12 DEF Retried
<1> QED
  BY <1>9, <1>10, <1>11, <1>13, <1>14 DEF PathsKept

\* The fast worker stores an abstract over full text only of an older version, whose
\* full text the newer one's makes up for.
LEMMA FastKeeps ==
  ASSUME ReplayTypeOK, ScriptReads, PathsKept, NEW fails \in BOOLEAN, FastHandles(fails)
  PROVE  PathsKept'
<1> DEFINE doc == DocOf(Head(fastQueue), "abstract")
<1>1. /\ fastQueue # <<>> /\ fastQueue' = Tail(fastQueue)
      /\ IF fails THEN FailWith("worker", "paper", doc) /\ UNCHANGED stored
         ELSE StoreDoc(doc) /\ UNCHANGED dlq
      /\ UNCHANGED <<announced, fetchQueue, fullQueue, script, tried, unsent>>
  BY DEF FastHandles, scriptState
<1>2. Ordered /\ OnlyAnnounced /\ Forward /\ Accounted /\ Retried
  BY DEF PathsKept
<1>3. Head(fastQueue) \in Version /\ ToSet(fastQueue) = {Head(fastQueue)} \cup ToSet(fastQueue)'
  BY <1>1, Popped DEF ReplayTypeOK
<1>4. doc \in Doc /\ doc.version = Head(fastQueue) /\ doc.source = "abstract"
  BY <1>3, WorkKinds DEF DocOf, Source
<1> HIDE DEF doc
<1>5. doc.version \in 1..announced /\ doc.version \in Nat
  BY <1>2, <1>3, <1>4, ReplayKinds DEF OnlyAnnounced, Version
<1>6. ToFetch' = ToFetch /\ Chunked' = Chunked /\ Ordered'
  BY <1>1, <1>2 DEF ToFetch, Chunked, Ordered
<1>7. \A w : FullPending(w)' <=> FullPending(w)
  BY <1>6 DEF FullPending
<1>8. CASE fails
  <2> DEFINE f == [stage |-> "worker",
                   payload |-> [kind |-> "paper", version |-> doc.version, source |-> doc.source]]
  <2>1. tried' # Len(dlq') /\ Failures' = Failures \cup {f} /\ stored' = stored
    BY <1>1, <1>4, <1>8, FailureAdded
  <2>2. f.payload.kind = "paper" /\ f.payload.version = doc.version
    OBVIOUS
  <2> HIDE DEF f
  <2>3. OnlyAnnounced'
    BY <1>1, <1>2, <1>3, <1>5, <1>6, <2>1, <2>2 DEF OnlyAnnounced
  <2>4. Forward'
    BY <1>2, <1>6, <2>1, <2>2 DEF Forward
  <2>5. \A w : (FullStored(w) <=> FullStored(w)') /\ (AskedFor(w) => AskedFor(w)')
    BY <2>1 DEF FullStored, AskedFor
  <2>6. Accounted'
    BY <1>1, <1>2, <1>7, <2>5 DEF Accounted
  <2>7. Retried'
    BY <2>1 DEF Retried
  <2> QED
    BY <1>6, <2>3, <2>4, <2>6, <2>7 DEF PathsKept
<1>9. CASE ~fails /\ Refused(stored, doc)
  <2>1. stored' = stored /\ dlq' = dlq /\ Failures' = Failures
    BY <1>1, <1>9 DEF StoreDoc, Failures
  <2>2. OnlyAnnounced' /\ Forward'
    BY <1>1, <1>2, <1>3, <1>6, <2>1 DEF OnlyAnnounced, Forward
  <2>3. \A w : (FullStored(w) <=> FullStored(w)') /\ (AskedFor(w) <=> AskedFor(w)')
    BY <2>1 DEF FullStored, AskedFor
  <2>4. Accounted' /\ Retried'
    BY <1>1, <1>2, <1>7, <2>1, <2>3 DEF Accounted, Retried
  <2> QED
    BY <1>6, <2>2, <2>4 DEF PathsKept
<1>10. CASE ~fails /\ ~Refused(stored, doc)
  <2>1. /\ stored'.version = doc.version /\ stored'.source = "abstract"
        /\ dlq' = dlq /\ Failures' = Failures
    BY <1>1, <1>4, <1>10 DEF StoreDoc, Upserted, Failures
  <2>2. OnlyAnnounced' /\ Forward'
    BY <1>1, <1>2, <1>3, <1>5, <1>6, <2>1 DEF OnlyAnnounced, Forward
  <2>3. \A w : AskedFor(w) <=> AskedFor(w)'
    BY <2>1 DEF AskedFor
  \* What takes the place of the stored text of version w: the newer one's.
  <2>4. ASSUME NEW w \in Nat, FullStored(w)
        PROVE  doc.version > w /\ (FullPending(w) \/ AskedFor(doc.version))
    <3>1. stored.source = "full" /\ stored.version >= w /\ stored.version \in Nat
      BY <2>4, ReplayKinds DEF FullStored
    <3>2. ~(stored.version >= doc.version)
      BY <1>4, <1>10, <3>1 DEF Refused, HasFullText
    <3>3. doc.version > w
      BY <1>5, <3>1, <3>2
    <3>4. FullPending(doc.version) \/ AskedFor(doc.version)
      BY <1>2, <1>5, <3>2 DEF Accounted, FullStored
    <3>5. FullPending(doc.version) => FullPending(w)
      <4>1. \A v \in Nat : v >= doc.version => v >= w
        BY <1>5, <3>3
      <4>2. ToFetch \subseteq Nat /\ \A d \in Chunked : d.version \in Nat
        BY ReplayKinds
      <4> QED
        BY <4>1, <4>2 DEF FullPending
    <3> QED
      BY <3>3, <3>4, <3>5
  <2>5. Accounted'
    <3> SUFFICES ASSUME NEW w \in 1..announced
                 PROVE  (FullPending(w) \/ FullStored(w) \/ AskedFor(w))'
      BY <1>1 DEF Accounted
    <3>1. FullPending(w) \/ FullStored(w) \/ AskedFor(w)
      BY <1>2 DEF Accounted
    <3>2. w \in Nat /\ doc.version \in Nat
      BY <1>5
    <3>3. ASSUME FullStored(w) PROVE FullPending(w) \/ AskedFor(w)
      <4>1. doc.version > w /\ (FullPending(w) \/ AskedFor(doc.version))
        BY <2>4, <3>2, <3>3
      <4>2. \A n \in Nat : n >= doc.version => n >= w
        BY <3>2, <4>1
      <4>3. \A f \in Failures : f.payload.version \in Nat
        BY ReplayKinds
      <4> QED
        BY <4>1, <4>2, <4>3 DEF AskedFor
    <3> QED
      BY <1>7, <2>3, <3>1, <3>3
  <2>6. Retried'
    <3> SUFFICES ASSUME dlq # <<>>, tried = Len(dlq), ~unsent, AsksFullText(dlq[tried]),
                        \A f \in Failures : ~AsksMore(f, dlq[tried])
                 PROVE  FullPending(dlq[tried].payload.version)
      BY <1>1, <1>7, <2>1 DEF Retried
    <3> DEFINE w == dlq[tried].payload.version
    <3>1. FullPending(w) \/ FullStored(w)
      BY <1>2 DEF Retried
    <3>2. w \in Nat
      <4>1. dlq \in Seq(FailedWork) /\ dlq # <<>>
        BY DEF ReplayTypeOK
      <4>2. tried \in 1..Len(dlq)
        BY <4>1
      <4> QED
        BY <4>2, ReplayKinds
    <3>3. ASSUME FullStored(w) PROVE FullPending(w)
      <4>1. doc.version > w /\ (FullPending(w) \/ AskedFor(doc.version))
        BY <2>4, <3>2, <3>3
      <4>2. \A n \in Nat : n >= doc.version => n > w
        BY <1>5, <3>2, <4>1
      <4>3. \A f \in Failures : f.payload.version \in Nat /\ ~(f.payload.version > w)
        BY ReplayKinds DEF AsksMore
      <4> QED
        BY <4>1, <4>2, <4>3 DEF AskedFor
    <3> QED
      BY <3>1, <3>3
  <2> QED
    BY <1>6, <2>2, <2>5, <2>6 DEF PathsKept
<1> QED
  BY <1>8, <1>9, <1>10

\* The fetcher passes the oldest version on with its full text, or fails it.
LEMMA FetcherKeeps ==
  ASSUME ReplayTypeOK, ScriptReads, PathsKept, ~noFullText',
         FetcherGivesUp \/ \E source \in Source : FetcherChunks(source)
  PROVE  PathsKept'
<1> DEFINE h == Head(fetchQueue)
<1>1. /\ fetchQueue # <<>> /\ fetchQueue' = Tail(fetchQueue)
      /\ UNCHANGED <<announced, fastQueue, stored, script, tried, unsent>>
  BY DEF FetcherGivesUp, FetcherChunks, scriptState
<1>2. Ordered /\ OnlyAnnounced /\ Forward /\ Accounted /\ Retried
  BY DEF PathsKept
<1>3. /\ h \in Version /\ OldestFirst(fetchQueue', Itself)
      /\ ToFetch = {h} \cup ToFetch' /\ \A v \in ToFetch : h <= v
  BY <1>1, <1>2, FetchMoves
<1> HIDE DEF h
<1>4. h \in Nat /\ h <= announced
  BY <1>2, <1>3, ReplayKinds DEF OnlyAnnounced
<1>5. \A w : FullStored(w)' <=> FullStored(w)
  BY <1>1 DEF FullStored
<1>6. CASE FetcherGivesUp
  <2> DEFINE f == [stage |-> "fetcher",
                   payload |-> [kind |-> "paper", version |-> DocOf(h, "abstract").version,
                                source |-> DocOf(h, "abstract").source]]
  <2>1. DocOf(h, "abstract") \in Doc
    BY <1>3, WorkKinds DEF Source
  <2>2. FailWith("fetcher", "paper", DocOf(h, "abstract")) /\ UNCHANGED fullQueue
    BY <1>6 DEF FetcherGivesUp, h
  <2>3. tried' # Len(dlq') /\ Failures' = Failures \cup {f} /\ Chunked' = Chunked
    BY <1>1, <2>1, <2>2, FailureAdded DEF Chunked
  <2>4. f.payload.kind = "paper" /\ f.payload.version = h /\ AsksFullText(f)
    BY DEF DocOf, AsksFullText
  <2> HIDE DEF f
  <2>5. OnlyAnnounced'
    BY <1>1, <1>2, <1>3, <1>4, <2>3, <2>4 DEF OnlyAnnounced
  <2>6. Forward'
    BY <1>1, <1>2, <1>3, <2>3, <2>4 DEF Forward
  <2>7. Ordered'
    BY <1>2, <1>3, <2>2, <2>3 DEF Ordered
  <2>8. ASSUME NEW w PROVE FullPending(w) => FullPending(w)' \/ AskedFor(w)'
    BY <1>3, <2>3, <2>4 DEF FullPending, AskedFor
  <2>9. \A w : AskedFor(w) => AskedFor(w)'
    BY <2>3 DEF AskedFor
  <2>10. Accounted'
    BY <1>1, <1>2, <1>5, <2>8, <2>9 DEF Accounted
  <2>11. Retried'
    BY <2>3 DEF Retried
  <2> QED
    BY <2>5, <2>6, <2>7, <2>10, <2>11 DEF PathsKept
<1>7. ASSUME NEW source \in Source, FetcherChunks(source) PROVE PathsKept'
  <2> DEFINE doc == DocOf(h, "full")
  <2>1. source = "full"
    BY <1>7 DEF FetcherChunks, Source
  <2>2. doc \in Doc /\ doc.version = h /\ doc.source = "full"
    BY <1>3, WorkKinds DEF Source, DocOf
  <2>3. fullQueue' = Append(fullQueue, doc) /\ UNCHANGED dlq
    BY <1>7, <2>1 DEF FetcherChunks, h
  <2> HIDE DEF doc
  <2>4. \A d \in Chunked : d.version <= doc.version
    BY <1>2, <1>3, <2>2 DEF Ordered
  <2>5. OldestFirst(fullQueue', DocVersion) /\ Chunked' = Chunked \cup {doc} /\ Failures' = Failures
    BY <1>2, <2>2, <2>3, <2>4, ChunkMoves DEF Failures
  <2>6. Ordered'
    BY <1>2, <1>3, <2>2, <2>5 DEF Ordered
  <2>7. OnlyAnnounced'
    BY <1>1, <1>2, <1>3, <1>4, <2>2, <2>5 DEF OnlyAnnounced
  <2>8. Forward'
    BY <1>1, <1>2, <1>3, <2>2, <2>5 DEF Forward
  <2>9. ASSUME NEW w PROVE (FullPending(w) => FullPending(w)') /\ (AskedFor(w) <=> AskedFor(w)')
    BY <1>3, <2>2, <2>5 DEF FullPending, AskedFor
  <2>10. Accounted'
    BY <1>1, <1>2, <1>5, <2>9 DEF Accounted
  <2>11. Retried'
    BY <1>1, <1>2, <1>5, <2>3, <2>5, <2>9 DEF Retried
  <2> QED
    BY <2>6, <2>7, <2>8, <2>10, <2>11 DEF PathsKept
<1> QED
  BY <1>6, <1>7

\* The full-text worker stores the oldest full text, which is no older than the row, or
\* fails it.
LEMMA FullKeeps ==
  ASSUME ReplayTypeOK, ScriptReads, PathsKept, NEW fails \in BOOLEAN, FullHandles(fails)
  PROVE  PathsKept'
<1> DEFINE h == Head(fullQueue)
<1>1. /\ fullQueue # <<>> /\ fullQueue' = Tail(fullQueue)
      /\ IF fails THEN FailWith("worker", "chunked", h) /\ UNCHANGED stored
         ELSE StoreDoc(h) /\ UNCHANGED dlq
      /\ UNCHANGED <<announced, fastQueue, fetchQueue, script, tried, unsent>>
  BY DEF FullHandles, scriptState
<1>2. Ordered /\ OnlyAnnounced /\ Forward /\ Accounted /\ Retried
  BY DEF PathsKept
<1>3. /\ h \in Doc /\ OldestFirst(fullQueue', DocVersion)
      /\ Chunked = {h} \cup Chunked' /\ \A doc \in Chunked : h.version <= doc.version
  BY <1>1, <1>2, ChunkMoves
<1> HIDE DEF h
<1>4. h.version \in Nat /\ h.version <= announced /\ h.source = "full"
  BY <1>2, <1>3, ReplayKinds DEF OnlyAnnounced
<1>5. ToFetch' = ToFetch /\ \A v \in ToFetch : v >= h.version
  <2>1. \A v \in ToFetch : h.version <= v /\ v \in Nat
    BY <1>2, <1>3, ReplayKinds DEF Ordered
  <2> QED
    BY <1>1, <1>4, <2>1 DEF ToFetch
<1>6. Ordered'
  BY <1>1, <1>2, <1>3, <1>5 DEF Ordered
<1>7. CASE fails
  <2> DEFINE f == [stage |-> "worker",
                   payload |-> [kind |-> "chunked", version |-> h.version, source |-> h.source]]
  <2>1. tried' # Len(dlq') /\ Failures' = Failures \cup {f} /\ stored' = stored
    BY <1>1, <1>3, <1>7, FailureAdded
  <2>2. /\ f.payload.kind = "chunked" /\ f.payload.version = h.version
        /\ f.payload.source = "full" /\ AsksFullText(f)
    BY <1>4 DEF AsksFullText
  <2> HIDE DEF f
  <2>3. OnlyAnnounced'
    BY <1>1, <1>2, <1>3, <1>4, <1>5, <2>1, <2>2 DEF OnlyAnnounced
  <2>4. Forward'
    BY <1>2, <1>3, <1>5, <2>1, <2>2 DEF Forward
  <2>5. ASSUME NEW w PROVE FullPending(w) => FullPending(w)' \/ AskedFor(w)'
    BY <1>3, <1>5, <2>1, <2>2 DEF FullPending, AskedFor
  <2>6. \A w : (FullStored(w) <=> FullStored(w)') /\ (AskedFor(w) => AskedFor(w)')
    BY <2>1 DEF FullStored, AskedFor
  <2>7. Accounted'
    BY <1>1, <1>2, <2>5, <2>6 DEF Accounted
  <2>8. Retried'
    BY <2>1 DEF Retried
  <2> QED
    BY <1>6, <2>3, <2>4, <2>7, <2>8 DEF PathsKept
<1>8. CASE ~fails
  <2>1. /\ stored'.version = h.version /\ stored'.source = "full"
        /\ dlq' = dlq /\ Failures' = Failures
    BY <1>1, <1>4, <1>8 DEF StoreDoc, Refused, Upserted, Failures
  <2>2. OnlyAnnounced'
    BY <1>1, <1>2, <1>3, <1>4, <1>5, <2>1 DEF OnlyAnnounced
  <2>3. Forward'
    <3>1. \A doc \in Chunked' : doc.version >= h.version
      BY <1>3, <1>4, ReplayKinds
    <3> QED
      BY <1>2, <1>5, <2>1, <3>1 DEF Forward
  <2>4. ASSUME NEW w \in Nat, FullPending(w) \/ FullStored(w) PROVE (FullPending(w) \/ FullStored(w))'
    <3>1. FullStored(w) => stored.version \in Nat /\ stored.version >= w /\ h.version >= stored.version
      BY <1>2, <1>3, ReplayKinds DEF FullStored, Forward
    <3>2. FullStored(w) => h.version >= w
      BY <1>4, <3>1
    <3> QED
      BY <1>3, <1>5, <2>1, <2>4, <3>2 DEF FullPending, FullStored
  <2>5. Accounted'
    <3>1. \A w : AskedFor(w) <=> AskedFor(w)'
      BY <2>1 DEF AskedFor
    <3>2. 1..announced \subseteq Nat
      OBVIOUS
    <3> QED
      BY <1>1, <1>2, <2>4, <3>1, <3>2 DEF Accounted
  <2>6. dlq # <<>> /\ tried = Len(dlq) => dlq[tried].payload.version \in Nat
    <3>1. dlq \in Seq(FailedWork)
      BY DEF ReplayTypeOK
    <3>2. dlq # <<>> => Len(dlq) \in 1..Len(dlq)
      BY <3>1
    <3> QED
      BY <3>2, ReplayKinds
  <2>7. Retried'
    BY <1>1, <1>2, <2>1, <2>4, <2>6 DEF Retried
  <2> QED
    BY <1>6, <2>2, <2>3, <2>5, <2>7 DEF PathsKept
<1> QED
  BY <1>7, <1>8

\* A run replays a payload of the newest version, or finds that it is stored.
LEMMA ScriptKeeps ==
  ASSUME ReplayTypeOK, ScriptReads, PathsKept, ~outdated',
         \/ ReadFailures \/ PlanReplay \/ ApplyReplay \/ ReplayUnsent \/ ScriptDies
         \/ ReplayIdles
  PROVE  PathsKept'
<1>1. Ordered /\ OnlyAnnounced /\ Forward /\ Accounted /\ Retried
  BY DEF PathsKept
<1>2. ASSUME UNCHANGED <<announced, fastQueue, fetchQueue, fullQueue, stored, dlq>>
      PROVE  /\ (Ordered /\ OnlyAnnounced /\ Forward /\ Accounted)' /\ Failures' = Failures
             /\ \A w : (FullPending(w) <=> FullPending(w)') /\ (FullStored(w) <=> FullStored(w)')
  <2>1. ToFetch' = ToFetch /\ Chunked' = Chunked /\ Failures' = Failures
    BY <1>2 DEF ToFetch, Chunked, Failures
  <2>2. \A w : /\ FullPending(w) <=> FullPending(w)'
               /\ FullStored(w) <=> FullStored(w)'
               /\ AskedFor(w) <=> AskedFor(w)'
    BY <1>2, <2>1 DEF FullPending, FullStored, AskedFor
  <2> QED
    BY <1>1, <1>2, <2>1, <2>2 DEF Ordered, OnlyAnnounced, Forward, Accounted
<1>3. script.at # "idle" => /\ script.read \in 1..Len(dlq) /\ dlq[script.read] \in Failures
                            /\ dlq[script.read] \in FailedWork
                            /\ dlq[script.read].payload.version \in Version
  BY ReplayKinds DEF ScriptReads
<1>4. CASE ReadFailures \/ ScriptDies \/ ReplayIdles
  <2>1. UNCHANGED <<announced, fastQueue, fetchQueue, fullQueue, stored, dlq, tried, unsent>>
    BY <1>4 DEF ReadFailures, ScriptDies, ReplayIdles, replayVars, queues
  <2> QED
    BY <1>1, <1>2, <2>1 DEF Retried, PathsKept
<1>5. CASE PlanReplay
  <2>1. /\ UNCHANGED <<announced, fastQueue, fetchQueue, fullQueue, stored, dlq, unsent>>
        /\ script.at # "idle"
        /\ tried' = tried \/ (tried' = script.read /\ Resolved(dlq[script.read]))
    BY <1>5 DEF PlanReplay, queues
  <2>2. ASSUME tried' = script.read, Resolved(dlq[script.read]), AsksFullText(dlq[script.read])
        PROVE  FullStored(dlq[script.read].payload.version)
    <3>1. stored.version >= dlq[script.read].payload.version /\ stored.source # "abstract"
      BY <2>2 DEF Resolved
    <3>2. stored.version # 0
      BY <1>3, <2>1, <3>1, ReplayKinds DEF Version
    <3> QED
      BY <3>1, <3>2, ReplayKinds DEF FullStored
  <2>3. Retried'
    BY <1>1, <1>2, <2>1, <2>2 DEF Retried
  <2> QED
    BY <1>2, <2>1, <2>3 DEF PathsKept
<1>6. CASE ReplayUnsent
  <2>1. UNCHANGED <<announced, fastQueue, fetchQueue, fullQueue, stored, dlq>> /\ unsent'
    BY <1>6 DEF ReplayUnsent, queues
  <2> QED
    BY <1>2, <2>1 DEF Retried, PathsKept
<1>7. CASE ApplyReplay
  <2> DEFINE p == dlq[script.read].payload
  <2>1. /\ script.at # "idle" /\ tried' = script.read
        /\ UNCHANGED <<announced, stored, dlq, unsent>> /\ ~(p.version < announced)
        /\ IF p.kind = "chunked"
           THEN /\ fullQueue' = Append(fullQueue, DocOf(p.version, p.source))
                /\ UNCHANGED <<fastQueue, fetchQueue>>
           ELSE /\ fastQueue' = Append(fastQueue, p.version)
                /\ fetchQueue' = Append(fetchQueue, p.version)
                /\ UNCHANGED fullQueue
    BY <1>7 DEF ApplyReplay
  <2>2. /\ p.version \in Version /\ p.version \in Nat /\ p.version <= announced
        /\ p.kind = "chunked" => p.source = "full"
    BY <1>1, <1>3, <2>1, ReplayKinds DEF OnlyAnnounced
  <2>3. p.version = announced
    BY <2>1, <2>2, ReplayKinds
  <2>4. p.kind = "chunked" => \A v \in ToFetch : v >= p.version
    BY <1>1, <1>3, <2>1 DEF Forward
  <2>5. tried' = script.read /\ dlq'[tried'].payload.version = p.version
    BY <2>1
  <2> HIDE DEF p
  <2>6. Failures' = Failures /\ stored' = stored /\ announced' = announced
    BY <2>1 DEF Failures
  <2>7. /\ \A v \in ToFetch : v \in Nat /\ v <= p.version
        /\ \A doc \in Chunked : doc.version \in Nat /\ doc.version <= p.version
        /\ stored.version \in Nat /\ stored.version <= p.version /\ p.version >= stored.version
        /\ \A f \in Failures : f.payload.version \in Nat /\ p.version >= f.payload.version
    BY <1>1, <2>2, <2>3, ReplayKinds DEF OnlyAnnounced
  <2>8. CASE p.kind = "chunked"
    <3> DEFINE doc == DocOf(p.version, p.source)
    <3>1. doc \in Doc /\ doc.version = p.version /\ doc.source = "full"
      BY <2>2, <2>8, WorkKinds DEF DocOf, Source
    <3>2. fullQueue' = Append(fullQueue, doc) /\ UNCHANGED <<fastQueue, fetchQueue>>
      BY <2>1, <2>8
    <3> HIDE DEF doc
    <3>3. /\ OldestFirst(fullQueue', DocVersion) /\ Chunked' = Chunked \cup {doc}
          /\ ToFetch' = ToFetch
      BY <1>1, <2>7, <3>1, <3>2, ChunkMoves DEF ToFetch
    <3>4. Ordered'
      <4>1. \A v \in ToFetch : doc.version <= v
        BY <2>2, <2>4, <2>7, <2>8, <3>1
      <4> QED
        BY <1>1, <3>2, <3>3, <4>1 DEF Ordered
    <3>5. OnlyAnnounced'
      BY <1>1, <2>2, <2>3, <2>6, <3>1, <3>2, <3>3 DEF OnlyAnnounced
    <3>6. Forward'
      BY <1>1, <2>6, <2>7, <3>1, <3>3 DEF Forward
    <3>7. \A w : /\ FullPending(w) => FullPending(w)'
                 /\ FullStored(w) <=> FullStored(w)'
                 /\ AskedFor(w) <=> AskedFor(w)'
      BY <2>6, <3>3 DEF FullPending, FullStored, AskedFor
    <3>8. \A w : w = p.version => FullPending(w)'
      BY <2>2, <3>1, <3>3 DEF FullPending
    <3>9. Accounted'
      BY <1>1, <2>6, <3>7 DEF Accounted
    <3>10. Retried'
      BY <2>5, <3>8 DEF Retried
    <3> QED
      BY <3>4, <3>5, <3>6, <3>9, <3>10 DEF PathsKept
  <2>9. CASE p.kind # "chunked"
    <3>1. /\ fastQueue' = Append(fastQueue, p.version) /\ fetchQueue' = Append(fetchQueue, p.version)
          /\ UNCHANGED fullQueue
      BY <2>1, <2>9
    <3>2. /\ OldestFirst(fetchQueue', Itself) /\ ToFetch' = ToFetch \cup {p.version}
          /\ Chunked' = Chunked
      BY <1>1, <2>2, <2>7, <3>1, FetchMoves DEF Chunked
    <3>3. ToSet(fastQueue)' = ToSet(fastQueue) \cup {p.version}
      BY <2>2, <3>1, Pushed DEF ReplayTypeOK
    <3>4. Ordered'
      BY <1>1, <2>7, <3>1, <3>2 DEF Ordered
    <3>5. OnlyAnnounced'
      BY <1>1, <2>2, <2>6, <3>2, <3>3 DEF OnlyAnnounced
    <3>6. Forward'
      BY <1>1, <2>6, <2>7, <3>2 DEF Forward
    <3>7. \A w : /\ FullPending(w) => FullPending(w)'
                 /\ FullStored(w) <=> FullStored(w)'
                 /\ AskedFor(w) <=> AskedFor(w)'
      BY <2>6, <3>2 DEF FullPending, FullStored, AskedFor
    <3>8. \A w : w = p.version => FullPending(w)'
      BY <2>2, <3>2 DEF FullPending
    <3>9. Accounted'
      BY <1>1, <2>6, <3>7 DEF Accounted
    <3>10. Retried'
      BY <2>5, <3>8 DEF Retried
    <3> QED
      BY <3>4, <3>5, <3>6, <3>9, <3>10 DEF PathsKept
  <2> QED
    BY <2>8, <2>9
<1> QED
  BY <1>4, <1>5, <1>6, <1>7

\* Nothing is announced, queued, stored or failed.
LEMMA ReplayStarts == ReplayInit => ReplayInv
<1> SUFFICES ASSUME ReplayInit PROVE ReplayInv
  OBVIOUS
<1>1. ReplayTypeOK
  <2>1. /\ <<>> \in Seq(Version) /\ <<>> \in Seq(Doc) /\ <<>> \in Seq(FailedWork) /\ Len(<<>>) = 0
        /\ 0 \in 0..MaxVersion /\ 0 \in 0..MaxReplays /\ 0 \in 0..MaxFailures /\ 0 <= MaxFailures
    BY MaxVersionAssumption, ReplayAssumption
  <2>2. script \in [at : {"idle", "plan", "apply"}, read : 0..MaxFailures]
    BY <2>1 DEF ReplayInit
  <2> QED
    BY <2>1, <2>2 DEF ReplayInit, ReplayTypeOK, Row
<1>2. /\ ToFetch = {} /\ Chunked = {} /\ Failures = {} /\ ToSet(fastQueue) = {}
      /\ DOMAIN fetchQueue = {} /\ DOMAIN fullQueue = {} /\ Len(dlq) = 0
      /\ script.at = "idle" /\ stored.source = "none" /\ stored.version = 0
  BY DEF ReplayInit, ToFetch, Chunked, Failures, ToSet, NoRow
<1>3. ScriptReads
  BY <1>2 DEF ReplayInit, ScriptReads
<1>4. Ordered /\ OnlyAnnounced /\ Forward
  BY <1>2 DEF ReplayInit, Ordered, OldestFirst, OnlyAnnounced, Forward
<1>5. Accounted /\ Retried
  BY DEF ReplayInit, Accounted, Retried
<1> QED
  BY <1>1, <1>3, <1>4, <1>5 DEF ReplayInv, PathsKept

\* Every step of the paths and of the script keeps the invariant.
LEMMA ReplayStep == ReplayInv /\ [ReplayNext]_replayVars => ReplayInv'
<1> SUFFICES ASSUME ReplayInv, [ReplayNext]_replayVars PROVE ReplayInv'
  OBVIOUS
<1>1. ReplayTypeOK /\ ScriptReads
  BY DEF ReplayInv
<1>2. \/ ReplayNext
      \/ UNCHANGED replayVars
  OBVIOUS
<1>3. CASE ReplayNext
  <2>1. ReplayTypeOK' /\ ScriptReads'
    BY <1>1, <1>3, PathTypes, ScriptTypes DEF ReplayNext
  <2>2. ASSUME ~outdated', ~noFullText' PROVE PathsKept'
    <3>1. ~outdated /\ ~noFullText
      <4>1. (outdated' <=> outdated) \/ ApplyReplay
        BY <1>3 DEF ReplayNext, AnnounceNext, FastHandles, FullHandles, FetcherChunks,
           FetcherGivesUp, ReadFailures, PlanReplay, ReplayUnsent, ScriptDies, ReplayIdles,
           scriptState, replayVars
      <4>2. (noFullText' <=> noFullText) \/ \E source \in Source : FetcherChunks(source)
        BY <1>3 DEF ReplayNext, AnnounceNext, FastHandles, FullHandles, ApplyReplay,
           FetcherGivesUp, ReadFailures, PlanReplay, ReplayUnsent, ScriptDies, ReplayIdles,
           replayVars
      <4>3. ApplyReplay => (outdated => outdated')
        BY Zenon DEF ApplyReplay
      <4>4. ASSUME NEW source \in Source, FetcherChunks(source) PROVE noFullText => noFullText'
        BY <4>4, Zenon DEF FetcherChunks
      <4> QED
        BY <2>2, <4>1, <4>2, <4>3, <4>4
    <3>2. PathsKept
      BY <3>1 DEF ReplayInv
    <3> QED
      BY <1>1, <1>3, <2>2, <3>2, AnnouncedLater, FastKeeps, FetcherKeeps, FullKeeps, ScriptKeeps
         DEF ReplayNext
  <2> QED
    BY <2>1, <2>2 DEF ReplayInv
<1>4. CASE UNCHANGED replayVars
  <2>1. /\ ToFetch' = ToFetch /\ Chunked' = Chunked /\ Failures' = Failures
        /\ UNCHANGED <<announced, fastQueue, fetchQueue, fullQueue, stored, dlq, script, replays,
                       tried, unsent, outdated, noFullText>>
    BY <1>4 DEF replayVars, ToFetch, Chunked, Failures
  <2>2. \A w : /\ FullPending(w) <=> FullPending(w)'
               /\ FullStored(w) <=> FullStored(w)'
               /\ AskedFor(w) <=> AskedFor(w)'
    BY <2>1 DEF FullPending, FullStored, AskedFor
  <2>3. PathsKept => PathsKept'
    BY <2>1, <2>2 DEF PathsKept, Ordered, OnlyAnnounced, Forward, Accounted, Retried
  <2>4. ReplayTypeOK' /\ ScriptReads'
    BY <1>1, <2>1 DEF ReplayTypeOK, ScriptReads
  <2>5. (~outdated /\ ~noFullText)' => PathsKept'
    BY <2>1, <2>3 DEF ReplayInv
  <2> QED
    BY <2>4, <2>5 DEF ReplayInv
<1> QED
  BY <1>2, <1>3, <1>4

\* With nothing left to read, the full text of the newest version that asks for it is
\* stored, and every failure asks for that or less.
LEMMA Settled == ReplayInv => ReplaySettles
<1> SUFFICES ASSUME ReplayInv, queues = <<<<>>, <<>>, <<>>>>, dlq # <<>>, tried = Len(dlq),
                    ~unsent, ~noFullText, ~outdated,
                    \A i \in DOMAIN dlq : ~AsksMore(dlq[i], dlq[tried]),
                    NEW i \in DOMAIN dlq
             PROVE  Resolved(dlq[i])
  BY DEF ReplaySettles
<1>1. ReplayTypeOK /\ OnlyAnnounced /\ Accounted /\ Retried
  BY DEF ReplayInv, PathsKept
<1>2. ~FullPending(dlq[tried].payload.version) /\ \A w : ~FullPending(w)
  <2>1. fetchQueue = <<>> /\ fullQueue = <<>>
    BY DEF queues
  <2>2. ToFetch = {} /\ Chunked = {}
    BY <2>1 DEF ToFetch, Chunked, ToSet
  <2> QED
    BY <2>2 DEF FullPending
<1>3. \A f \in Failures : ~AsksMore(f, dlq[tried])
  BY DEF Failures, ToSet
<1>4. /\ dlq[i] \in Failures /\ dlq[tried] \in Failures
      /\ dlq[i].payload.version \in Nat /\ dlq[tried].payload.version \in Nat
      /\ dlq[tried].payload.version \in 1..announced /\ stored.version \in Nat
  <2>1. tried \in 1..Len(dlq) /\ i \in 1..Len(dlq)
    BY <1>1 DEF ReplayTypeOK
  <2>2. dlq[i] \in Failures /\ dlq[tried] \in Failures /\ Failures \subseteq FailedWork
    BY <1>1, <2>1, ReplayKinds
  <2>3. dlq[tried].payload.version \in Version /\ dlq[tried].payload.version <= announced
    BY <1>1, <2>2, ReplayKinds DEF OnlyAnnounced
  <2> QED
    BY <1>1, <2>2, <2>3, ReplayKinds DEF Version
<1>5. dlq[i].payload.version <= dlq[tried].payload.version
  BY <1>4 DEF AsksMore
<1>6. FullStored(dlq[tried].payload.version)
  <2>1. CASE AsksFullText(dlq[tried])
    BY <1>1, <1>2, <1>3, <2>1 DEF Retried
  <2>2. CASE ~AsksFullText(dlq[tried])
    <3>1. ~AskedFor(dlq[tried].payload.version)
      BY <1>3, <2>2 DEF AskedFor, AsksMore
    <3> QED
      BY <1>1, <1>2, <1>4, <3>1 DEF Accounted
  <2> QED
    BY <2>1, <2>2
<1> QED
  BY <1>4, <1>5, <1>6 DEF FullStored, Resolved

\* The queues, the row and the failures keep their types.
THEOREM ReplayTypes == ReplaySpec => []ReplayTypeOK
<1>1. ReplayInv => ReplayTypeOK
  BY DEF ReplayInv
<1> QED
  BY <1>1, ReplayStarts, ReplayStep, PTL DEF ReplaySpec

\* Once a run has dealt with the latest failure and the workers have read everything,
\* the paper is stored as every failure asks for.
THEOREM ReplaysSettle == ReplaySpec => []ReplaySettles
  BY ReplayStarts, ReplayStep, Settled, PTL DEF ReplaySpec

-----------------------------------------------------------------------------
\* A behaviour of the producers is one of each program, which stutters while another
\* is at work.
LEMMA EachProgram == ProducersSpec => Spec /\ BackfillSpec /\ ReplaySpec
<1>1. ProducersInit => Init /\ BackfillInit /\ ReplayInit
  BY DEF ProducersInit
<1>2. [ProducersNext]_producersVars => [Next]_vars /\ [BackfillNext]_backfillVars
  BY DEF ProducersNext, producersVars
<1>3. [ProducersNext]_producersVars => [ReplayNext]_replayVars
  BY DEF ProducersNext, producersVars
<1> QED
  BY <1>1, <1>2, <1>3, PTL DEF ProducersSpec, Spec, BackfillSpec, ReplaySpec

\* The producers together keep what the poller, the backfill and the replay keep alone.
THEOREM ProducersKeep ==
  ProducersSpec => /\ []TypeOK /\ []SeenIsProduced /\ []DuplicatesBounded
                   /\ []BackfillLosesNothingElse /\ []ReplaySettles
  BY EachProgram, TypeCorrect, SeenOnlyProduced, DuplicatesAreFaults, BackfillKeepsTrack,
     ReplaysSettle, PTL

\* Whatever program is at work, the types of all three hold.
THEOREM ProducersTyped == ProducersSpec => []ProducerTypesOK
<1>1. TypeOK /\ BackfillTypeOK /\ ReplayTypeOK <=> ProducerTypesOK
  BY DEF ProducerTypesOK
<1> QED
  BY <1>1, EachProgram, TypeCorrect, BackfillTypes, ReplayTypes, PTL
=============================================================================
