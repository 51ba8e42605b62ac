---------------------------- MODULE DesignsProofs ----------------------------
(***************************************************************************)
(* The design page, for any number of requests, versions and faults: a     *)
(* second generation starts only over a stale one, the figures belong to   *)
(* the design beside them, and one thread leaves the newest text behind.   *)
(***************************************************************************)
EXTENDS Designs, SequenceTheorems, TLAPS

\* A job that is alive is the one its row says is running.
AliveIsRunning == Alive /\ ~overlap => row.status = "running"

GenerationInv == OneGeneration /\ AliveIsRunning

\* What is under way is for the version of the row, and so are the figures as soon
\* as they have been fetched.
WorkOfRow ==
  ~overlap =>
    /\ \A r \in Submitting : rq[r].version = row.version
    /\ \A k \in DOMAIN jobs :
         /\ jobs[k].version = row.version
         /\ jobs[k].at # "figures" => figures = row.version

FiguresInv == WorkOfRow /\ FiguresMatch

\* Nobody knows of a version that is not stored yet.
VersionsKnown ==
  row.version <= version /\ \A r \in Request : rq[r].version <= version

\* With one thread only the first job has got anywhere.
FirstJobOnly == \A k \in DOMAIN jobs : k # 1 => jobs[k].at = "figures"

\* If the text in hand, or the one of a finished design, is older than the row's
\* version, then a job that will read a newer one is still to come.
OlderTextReplaced ==
  ~lost =>
    /\ (jobs # <<>> /\ jobs[1].at = "model" /\ jobs[1].text < row.version) =>
         (Len(jobs) > 1 \/ Submitting # {})
    /\ (row.status = "done" /\ row.text < row.version) => Alive

SettledInv == VersionsKnown /\ FirstJobOnly /\ OlderTextReplaced

-----------------------------------------------------------------------------
\* The executor's queue without one of its jobs.
LEMMA RemoveAtProperties ==
  ASSUME NEW S, NEW q \in Seq(S), NEW k \in DOMAIN q
  PROVE  /\ RemoveAt(q, k) \in Seq(S)
         /\ Len(RemoveAt(q, k)) = Len(q) - 1
         /\ \A i \in DOMAIN RemoveAt(q, k) :
              RemoveAt(q, k)[i] = IF i < k THEN q[i] ELSE q[i + 1]
<1> DEFINE a == SubSeq(q, 1, k - 1)
           b == SubSeq(q, k + 1, Len(q))
<1>1. k \in 1..Len(q) /\ Len(q) \in Nat /\ \A i \in 1..Len(q) : q[i] \in S
  OBVIOUS
<1>2. /\ a \in Seq(S) /\ Len(a) = k - 1
      /\ \A i \in 1..(k - 1) : a[i] = q[i]
  BY <1>1
<1>3. /\ b \in Seq(S) /\ Len(b) = Len(q) - k
      /\ \A i \in 1..(Len(q) - k) : b[i] = q[k + i]
  BY <1>1
<1> HIDE DEF a, b
<1> DEFINE c == a \o b
<1>4. /\ c \in Seq(S) /\ Len(c) = Len(a) + Len(b)
      /\ \A i \in 1..(Len(a) + Len(b)) :
           c[i] = IF i <= Len(a) THEN a[i] ELSE b[i - Len(a)]
  BY <1>2, <1>3, ConcatProperties
<1>5. RemoveAt(q, k) = c
  BY DEF RemoveAt, a, b
<1> HIDE DEF c
<1>6. Len(c) = Len(q) - 1 /\ DOMAIN c = 1..(Len(q) - 1)
  BY <1>1, <1>2, <1>3, <1>4
<1>7. ASSUME NEW i \in 1..(Len(q) - 1) PROVE c[i] = IF i < k THEN q[i] ELSE q[i + 1]
  <2>1. CASE i < k
    <3>1. i \in 1..(k - 1) /\ i \in 1..(Len(a) + Len(b)) /\ i <= Len(a)
      BY <1>1, <1>2, <1>3, <2>1
    <3> QED
      BY <1>2, <1>4, <2>1, <3>1
  <2>2. CASE ~(i < k)
    <3>1. i - (k - 1) \in 1..(Len(q) - k) /\ k + (i - (k - 1)) = i + 1
      BY <1>1, <2>2
    <3>2. Len(a) = k - 1 /\ i \in 1..(Len(a) + Len(b)) /\ ~(i <= Len(a))
      BY <1>1, <1>2, <1>3, <2>2
    <3>3. c[i] = b[i - (k - 1)]
      BY <1>4, <3>2
    <3> QED
      BY <1>3, <2>2, <3>1, <3>3
  <2> QED
    BY <2>1, <2>2
<1> QED
  BY <1>4, <1>5, <1>6, <1>7

\* A job taken from the executor's queue.
LEMMA EndJobTyped ==
  ASSUME TypeOK, NEW k \in DOMAIN jobs, EndJob(k)
  PROVE  /\ jobs' \in Seq(Job) /\ Len(jobs') = Len(jobs) - 1
         /\ \A i \in DOMAIN jobs' :
              jobs'[i] = IF i < k THEN jobs[i] ELSE jobs[i + 1]
  BY RemoveAtProperties DEF EndJob, TypeOK

\* Requests and jobs keep the types of what they share.
THEOREM TypeCorrect == Spec => []TypeOK
<1>1. Init => TypeOK
  <2> SUFFICES ASSUME Init PROVE TypeOK
    OBVIOUS
  <2>1. row \in Row /\ row.status = "none"
    BY DesignBoundsAssumption DEF Init, Row
  <2>2. Idle \in [kind : Kind, at : {"idle", "loaded", "start", "claim", "submit"},
                  version : Version]
    BY DesignBoundsAssumption DEF Idle, Kind, Version
  <2>3. jobs \in Seq(Job) /\ DOMAIN jobs = {}
    BY DEF Init
  <2>4. rq \in [Request -> [kind : Kind, at : {"idle", "loaded", "start", "claim", "submit"},
                            version : Version]]
    BY <2>2 DEF Init
  <2> QED
    <3>1. version \in Version /\ figures \in 0..MaxVersion /\ faults \in 0..MaxFaults
      BY DesignBoundsAssumption DEF Init, Version
    <3>2. lost \in BOOLEAN /\ overlap \in BOOLEAN
      BY DEF Init
    <3> QED
      BY <2>1, <2>3, <2>4, <3>1, <3>2 DEF TypeOK
<1>2. TypeOK /\ [Next]_vars => TypeOK'
  <2> SUFFICES ASSUME TypeOK, [Next]_vars PROVE TypeOK'
    OBVIOUS
  <2>1. CASE UNCHANGED vars
    BY <2>1 DEF vars, TypeOK
  <2>2. ASSUME NEW r \in Request, NEW kind \in Kind, Load(r, kind) PROVE TypeOK'
    BY <2>2 DEF Load, TypeOK
  <2>3. ASSUME NEW r \in Request, Serve(r) PROVE TypeOK'
    <3>1. CASE Look(r) \/ Check(r) \/ ClaimNothing(r)
      BY <3>1 DEF Look, Check, ClaimNothing, Move, TypeOK
    <3>2. CASE Reset(r)
      BY <3>2 DEF Reset, Move, TypeOK, Row
    <3>3. CASE Claim(r)
      <4>1. row' \in Row /\ row'.status = "running" /\ row'.text = 0
        BY <3>3, DesignBoundsAssumption DEF Claim, Claimed, TypeOK, Row, Version
      <4>2. lost' \in BOOLEAN /\ overlap' \in BOOLEAN
        BY <3>3 DEF Claim
      <4>3. /\ rq' \in [Request -> [kind : Kind,
                                   at : {"idle", "loaded", "start", "claim", "submit"},
                                   version : Version]]
            /\ UNCHANGED <<version, figures, jobs, faults>>
        BY <3>3 DEF Claim, Move, TypeOK
      <4> QED
        BY <4>1, <4>2, <4>3 DEF TypeOK
    <3>4. CASE Submit(r)
      <4>1. [version |-> rq[r].version, at |-> "figures", text |-> 0] \in Job
        BY DesignBoundsAssumption DEF TypeOK, Job
      <4> QED
        BY <3>4, <4>1 DEF Submit, Move, TypeOK
    <3> QED
      BY <2>3, <3>1, <3>2, <3>3, <3>4 DEF Serve
  <2>4. ASSUME NEW k \in DOMAIN jobs, FetchFigures(k) \/ ReadText(k) PROVE TypeOK'
    <3>1. jobs[k] \in Job
      BY DEF TypeOK
    <3>2. [jobs[k] EXCEPT !.at = "text"] \in Job
      BY <3>1 DEF Job
    <3>3. version \in 0..MaxVersion /\ version # 0
      BY DesignBoundsAssumption DEF TypeOK, Version
    <3> DEFINE read == [jobs[k] EXCEPT !.at = "model", !.text = version]
    <3>4. read \in Job /\ read.text # 0
      BY <3>1, <3>3 DEF Job
    <3>5. PICK j \in Job : /\ jobs' = [jobs EXCEPT ![k] = j]
                           /\ j.at = "model" => j.text # 0
      <4>1. CASE FetchFigures(k)
        BY <3>1, <3>2, <4>1 DEF FetchFigures, Job
      <4>2. CASE ReadText(k)
        <5>1. jobs' = [jobs EXCEPT ![k] = read]
          BY <4>2 DEF ReadText
        <5> QED
          BY <3>4, <5>1
      <4> QED
        BY <2>4, <4>1, <4>2
    <3>6. /\ jobs' \in Seq(Job)
          /\ \A i \in DOMAIN jobs' : jobs'[i].at = "model" => jobs'[i].text # 0
      BY <3>5 DEF TypeOK
    <3>7. figures' \in 0..MaxVersion
      BY <2>4, <3>1 DEF FetchFigures, ReadText, FreshFigures, TypeOK, Job, Version
    <3> QED
      BY <2>4, <3>6, <3>7 DEF FetchFigures, ReadText, TypeOK
  <2>5. ASSUME NEW k \in DOMAIN jobs, Finish(k) \/ Fail(k) \/ StoreFails(k) PROVE TypeOK'
    <3>1. jobs[k] \in Job
      BY DEF TypeOK
    <3>2. /\ jobs' \in Seq(Job)
          /\ \A i \in DOMAIN jobs' : jobs'[i].at = "model" => jobs'[i].text # 0
      <4>1. EndJob(k)
        BY <2>5 DEF Finish, Fail, StoreFails
      <4>2. \A i \in DOMAIN jobs' : i \in DOMAIN jobs /\ i + 1 \in DOMAIN jobs
        BY <4>1, EndJobTyped DEF TypeOK
      <4>3. \A i \in DOMAIN jobs' : jobs'[i].at = "model" => jobs'[i].text # 0
        BY <4>1, <4>2, EndJobTyped DEF TypeOK
      <4> QED
        BY <4>1, <4>3, EndJobTyped
    <3>3. /\ row' \in Row
          /\ row'.status = "done" => row'.text # 0
          /\ row'.status = "running" => row'.text = 0
      <4>1. CASE Finish(k)
        <5>1. jobs[k].text \in 0..MaxVersion /\ jobs[k].text # 0
          BY <3>1, <4>1 DEF Finish, TypeOK, Job
        <5>2. row' = Finished("done", jobs[k].text)
          BY <4>1 DEF Finish
        <5>3. row \in Row
          BY DEF TypeOK
        <5> QED
          BY <5>1, <5>2, <5>3 DEF Finished, Row
      <4>2. CASE Fail(k)
        <5>1. row' = Finished("failed", 0) /\ row \in Row
          BY <4>2 DEF Fail, TypeOK
        <5>2. 0 \in 0..MaxVersion
          BY DesignBoundsAssumption
        <5> QED
          BY <5>1, <5>2 DEF Finished, Row
      <4>3. CASE StoreFails(k)
        BY <4>3 DEF StoreFails, TypeOK
      <4> QED
        BY <2>5, <4>1, <4>2, <4>3
    <3>4. lost' \in BOOLEAN /\ faults' \in 0..MaxFaults
      <4>1. CASE Finish(k) \/ Fail(k)
        BY <4>1 DEF Finish, Fail, TypeOK
      <4>2. CASE StoreFails(k)
        BY <4>2, DesignBoundsAssumption DEF StoreFails, TypeOK
      <4> QED
        BY <2>5, <4>1, <4>2
    <3> QED
      BY <2>5, <3>2, <3>3, <3>4 DEF Finish, Fail, StoreFails, EndJob, TypeOK
  <2>6. CASE Crash
    <3>1. Idle \in [kind : Kind, at : {"idle", "loaded", "start", "claim", "submit"},
                    version : Version]
      BY DesignBoundsAssumption DEF Idle, Kind, Version
    <3>2. lost' \in BOOLEAN
      BY <2>6 DEF Crash, TypeOK
    <3> QED
      BY <2>6, <3>1, <3>2, DesignBoundsAssumption DEF Crash, TypeOK
  <2>7. CASE GrowStale
    <3>1. row' \in Row /\ row'.status = "running" /\ row'.text = 0
      BY <2>7 DEF GrowStale, TypeOK, Row
    <3> QED
      BY <2>7, <3>1 DEF GrowStale, TypeOK
  <2>8. CASE NewVersion
    BY <2>8, DesignBoundsAssumption DEF NewVersion, TypeOK, Version
  <2> QED
    BY <2>1, <2>2, <2>3, <2>4, <2>5, <2>6, <2>7, <2>8 DEF Next, Work
<1> QED
  BY <1>1, <1>2, PTL DEF Spec

-----------------------------------------------------------------------------
\* Which requests are about to submit, after a step of one of them.
LEMMA SubmittingStep ==
  ASSUME TypeOK, NEW r \in Request, NEW at, Move(r, at)
  PROVE  Submitting' = IF at = "submit" THEN Submitting \cup {r} ELSE Submitting \ {r}
<1>1. \A s \in Request : rq'[s].at = IF s = r THEN at ELSE rq[s].at
  BY DEF Move, TypeOK
<1> QED
  BY <1>1 DEF Submitting

\* Steps that start or end no job and leave a running row running.
LEMMA GenerationKept ==
  ASSUME GenerationInv, Len(jobs') = Len(jobs), (jobs' # <<>>) <=> (jobs # <<>>),
         Submitting' = Submitting, overlap' = overlap,
         row.status = "running" => row'.status = "running"
  PROVE  GenerationInv'
BY DEF GenerationInv, OneGeneration, AliveIsRunning, Alive

\* claim_design refuses a row that is running and not stale, so a second job
\* starts only over a stale one.
LEMMA GenerationInvStep ==
  ASSUME TypeOK, GenerationInv, [Next]_vars
  PROVE  GenerationInv'
<1>1. CASE UNCHANGED vars
  BY <1>1 DEF vars, GenerationInv, OneGeneration, AliveIsRunning, Alive, Submitting
<1>2. ASSUME NEW r \in Request, NEW kind \in Kind, Load(r, kind) PROVE GenerationInv'
  <2>1. Submitting' = Submitting
    <3>1. \A s \in Request : (rq'[s].at = "submit") <=> (rq[s].at = "submit")
      BY <1>2 DEF Load, TypeOK
    <3> QED
      BY <3>1 DEF Submitting
  <2> QED
    BY <1>2, <2>1, GenerationKept DEF Load
<1>3. ASSUME NEW r \in Request, Look(r) \/ Check(r) \/ ClaimNothing(r) \/ Reset(r)
      PROVE  GenerationInv'
  <2>1. rq[r].at # "submit" /\ r \notin Submitting
    BY <1>3 DEF Look, Check, ClaimNothing, Reset, Submitting
  <2>2. PICK at \in {"idle", "start", "claim"} : Move(r, at)
    BY <1>3 DEF Look, Check, ClaimNothing, Reset
  <2>3. Submitting' = Submitting
    BY <2>1, <2>2, SubmittingStep
  <2> QED
    BY <1>3, <2>3, GenerationKept DEF Look, Check, ClaimNothing, Reset
<1>4. ASSUME NEW r \in Request, Claim(r) PROVE GenerationInv'
  <2>1. Submitting' = Submitting \cup {r}
    BY <1>4, SubmittingStep DEF Claim
  <2>2. row'.status = "running"
    BY <1>4 DEF Claim, Claimed
  <2>3. CASE ~Alive
    <3>1. jobs' = <<>> /\ Submitting' = {r}
      BY <1>4, <2>1, <2>3 DEF Claim, Alive
    <3> QED
      BY <2>2, <3>1 DEF GenerationInv, OneGeneration, AliveIsRunning
  <2>4. CASE Alive
    <3>1. ~overlap => row.status = "running" /\ row.stale
      BY <1>4, <2>4 DEF Claim, Claimable, GenerationInv, AliveIsRunning
    <3>2. overlap'
      BY <1>4, <2>4, <3>1 DEF Claim
    <3> QED
      BY <3>2 DEF GenerationInv, OneGeneration, AliveIsRunning
  <2> QED
    BY <2>3, <2>4
<1>5. ASSUME NEW r \in Request, Submit(r) PROVE GenerationInv'
  <2>1. Submitting' = Submitting \ {r} /\ r \in Submitting
    BY <1>5, SubmittingStep DEF Submit, Submitting
  <2>2. Len(jobs') = Len(jobs) + 1
    BY <1>5 DEF Submit, TypeOK
  <2>3. ~overlap => jobs = <<>> /\ Submitting' = {} /\ Len(jobs') = 1
    BY <2>1, <2>2 DEF GenerationInv, OneGeneration
  <2>4. (overlap' <=> overlap) /\ row' = row /\ Alive
    BY <1>5, <2>1 DEF Submit, Alive
  <2>5. OneGeneration'
    BY <2>3, <2>4 DEF OneGeneration
  <2>6. AliveIsRunning'
    BY <2>4 DEF GenerationInv, AliveIsRunning
  <2> QED
    BY <2>5, <2>6 DEF GenerationInv
<1>6. ASSUME NEW k \in DOMAIN jobs, FetchFigures(k) \/ ReadText(k) PROVE GenerationInv'
  <2>1. Len(jobs') = Len(jobs) /\ jobs # <<>> /\ jobs' # <<>>
    BY <1>6 DEF FetchFigures, ReadText, TypeOK
  <2>2. Submitting' = Submitting /\ overlap' = overlap /\ row' = row
    BY <1>6 DEF FetchFigures, ReadText, Submitting
  <2> QED
    BY <2>1, <2>2, GenerationKept
<1>7. ASSUME NEW k \in DOMAIN jobs, Finish(k) \/ Fail(k) \/ StoreFails(k) PROVE GenerationInv'
  <2>1. EndJob(k) /\ Submitting' = Submitting /\ overlap' = overlap
    BY <1>7 DEF Finish, Fail, StoreFails, EndJob, Submitting
  <2>2. jobs' \in Seq(Job) /\ Len(jobs') = Len(jobs) - 1 /\ jobs # <<>>
    BY <2>1, EndJobTyped
  <2>3. ~overlap => jobs' = <<>> /\ Submitting' = {}
    BY <2>1, <2>2 DEF GenerationInv, OneGeneration, TypeOK
  <2> QED
    BY <2>1, <2>3 DEF GenerationInv, OneGeneration, AliveIsRunning, Alive
<1>8. CASE Crash
  <2>1. jobs' = <<>> /\ Submitting' = {}
    BY <1>8 DEF Crash, Submitting, Idle
  <2> QED
    BY <2>1 DEF GenerationInv, OneGeneration, AliveIsRunning, Alive
<1>9. CASE GrowStale \/ NewVersion
  <2>1. Submitting' = Submitting /\ overlap' = overlap /\ jobs' = jobs
    BY <1>9 DEF GrowStale, NewVersion, Submitting
  <2>2. row.status = "running" => row'.status = "running"
    BY <1>9 DEF GrowStale, NewVersion, TypeOK, Row
  <2> QED
    BY <2>1, <2>2, GenerationKept
<1> QED
  BY <1>1, <1>2, <1>3, <1>4, <1>5, <1>6, <1>7, <1>8, <1>9 DEF Next, Serve, Work

\* The promise of start: one generation at a time, unless a stale one is taken over.
THEOREM OneAtATime == Spec => []OneGeneration
<1>1. Init => GenerationInv
  BY DEF Init, GenerationInv, OneGeneration, AliveIsRunning, Alive, Submitting, Idle
<1>2. TypeOK /\ GenerationInv /\ [Next]_vars => GenerationInv'
  BY GenerationInvStep
<1>3. GenerationInv => OneGeneration
  BY DEF GenerationInv
<1> QED
  BY <1>1, <1>2, <1>3, TypeCorrect, PTL DEF Spec

-----------------------------------------------------------------------------
\* A job alive without overlap is the one the latest claim started, for the
\* version the claim wrote into the row.
LEMMA FiguresInvStep ==
  ASSUME TypeOK, GenerationInv, FiguresInv, [Next]_vars
  PROVE  FiguresInv'
<1>1. CASE UNCHANGED vars
  BY <1>1 DEF vars, FiguresInv, WorkOfRow, FiguresMatch, Submitting
<1>2. ASSUME NEW r \in Request, NEW kind \in Kind, Load(r, kind) PROVE FiguresInv'
  <2>1. \A s \in Submitting' : s \in Submitting /\ rq'[s] = rq[s]
    BY <1>2 DEF Load, TypeOK, Submitting
  <2> QED
    BY <1>2, <2>1 DEF Load, FiguresInv, WorkOfRow, FiguresMatch
<1>3. ASSUME NEW r \in Request, Look(r) \/ Check(r) \/ ClaimNothing(r) \/ Reset(r)
      PROVE  FiguresInv'
  <2>1. PICK at \in {"idle", "start", "claim"} : Move(r, at)
    BY <1>3 DEF Look, Check, ClaimNothing, Reset
  <2>2. \A s \in Submitting' : s \in Submitting /\ rq'[s].version = rq[s].version
    BY <2>1 DEF Move, TypeOK, Submitting
  <2>3. /\ row'.version = row.version
        /\ row'.status = "done" => row.status = "done"
        /\ UNCHANGED <<jobs, figures, overlap>>
    BY <1>3 DEF Look, Check, ClaimNothing, Reset, TypeOK, Row
  <2> QED
    BY <2>2, <2>3 DEF FiguresInv, WorkOfRow, FiguresMatch
<1>4. ASSUME NEW r \in Request, Claim(r) PROVE FiguresInv'
  <2>1. row'.version = rq[r].version /\ row'.status = "running"
    BY <1>4 DEF Claim, Claimed
  <2>2. rq'[r].version = rq[r].version
    BY <1>4 DEF Claim, Move, TypeOK
  <2>3. CASE Alive
    <3>1. overlap'
      BY <1>4, <2>3 DEF Claim, Claimable, GenerationInv, AliveIsRunning
    <3> QED
      BY <2>1, <3>1 DEF FiguresInv, WorkOfRow, FiguresMatch
  <2>4. CASE ~Alive
    <3>1. jobs' = <<>> /\ Submitting' = {r}
      BY <1>4, <2>4, SubmittingStep DEF Claim, Alive
    <3> QED
      BY <2>1, <2>2, <3>1 DEF FiguresInv, WorkOfRow, FiguresMatch
  <2> QED
    BY <2>3, <2>4
<1>5. ASSUME NEW r \in Request, Submit(r) PROVE FiguresInv'
  <2>1. Submitting' = Submitting \ {r} /\ r \in Submitting
    BY <1>5, SubmittingStep DEF Submit, Submitting
  <2>2. \A s \in Request : rq'[s].version = rq[s].version
    BY <1>5 DEF Submit, Move, TypeOK
  <2>3. /\ DOMAIN jobs' = 1..(Len(jobs) + 1)
        /\ \A k \in DOMAIN jobs : jobs'[k] = jobs[k]
        /\ jobs'[Len(jobs) + 1].version = rq[r].version
        /\ jobs'[Len(jobs) + 1].at = "figures"
    BY <1>5 DEF Submit, TypeOK
  <2>4. \A k \in DOMAIN jobs' : k \in DOMAIN jobs \/ k = Len(jobs) + 1
    BY <2>3 DEF TypeOK
  <2>5. row' = row /\ figures' = figures /\ overlap' = overlap
    BY <1>5 DEF Submit
  <2>6. FiguresMatch'
    BY <2>5 DEF FiguresInv, FiguresMatch
  <2>7. WorkOfRow'
    <3> SUFFICES ASSUME ~overlap
                 PROVE  /\ \A s \in Submitting' : rq'[s].version = row.version
                        /\ \A k \in DOMAIN jobs' :
                             /\ jobs'[k].version = row.version
                             /\ jobs'[k].at # "figures" => figures = row.version
      BY <2>5 DEF WorkOfRow
    <3>1. Submitting' \subseteq Request
      BY DEF Submitting
    <3> QED
      BY <2>1, <2>2, <2>3, <2>4, <3>1 DEF FiguresInv, WorkOfRow
  <2> QED
    BY <2>6, <2>7 DEF FiguresInv
<1>6. ASSUME NEW k \in DOMAIN jobs, FetchFigures(k) \/ ReadText(k) PROVE FiguresInv'
  <2>1. /\ DOMAIN jobs' = DOMAIN jobs
        /\ \A i \in DOMAIN jobs : jobs'[i].version = jobs[i].version
        /\ \A i \in DOMAIN jobs \ {k} : jobs'[i] = jobs[i]
    <3>1. jobs[k] \in Job
      BY DEF TypeOK
    <3>2. PICK j : jobs' = [jobs EXCEPT ![k] = j] /\ j.version = jobs[k].version
      <4>1. CASE FetchFigures(k)
        <5> DEFINE j == [jobs[k] EXCEPT !.at = "text"]
        <5>1. j.version = jobs[k].version
          BY <3>1 DEF Job
        <5>2. jobs' = [jobs EXCEPT ![k] = j]
          BY <4>1 DEF FetchFigures
        <5> QED
          BY <5>1, <5>2
      <4>2. CASE ReadText(k)
        <5> DEFINE j == [jobs[k] EXCEPT !.at = "model", !.text = version]
        <5>1. j.version = jobs[k].version
          BY <3>1 DEF Job
        <5>2. jobs' = [jobs EXCEPT ![k] = j]
          BY <4>2 DEF ReadText
        <5> QED
          BY <5>1, <5>2
      <4> QED
        BY <1>6, <4>1, <4>2
    <3> QED
      BY <3>2 DEF TypeOK
  <2>2. Submitting' = Submitting /\ UNCHANGED <<row, rq, overlap>>
    BY <1>6 DEF FetchFigures, ReadText, Submitting
  <2>3. CASE FetchFigures(k)
    <3>1. figures' = jobs[k].version
      BY <2>3 DEF FetchFigures, FreshFigures
    <3>2. ~overlap => figures' = row.version
      BY <3>1 DEF FiguresInv, WorkOfRow
    <3> QED
      BY <2>1, <2>2, <3>2 DEF FiguresInv, WorkOfRow, FiguresMatch
  <2>4. CASE ReadText(k)
    <3>1. jobs[k].at # "figures" /\ figures' = figures
      BY <2>4 DEF ReadText
    <3> QED
      BY <2>1, <2>2, <3>1 DEF FiguresInv, WorkOfRow, FiguresMatch
  <2> QED
    BY <1>6, <2>3, <2>4
<1>7. ASSUME NEW k \in DOMAIN jobs, Finish(k) \/ Fail(k) \/ StoreFails(k) PROVE FiguresInv'
  <2>1. EndJob(k) /\ Submitting' = Submitting /\ UNCHANGED <<rq, figures, overlap>>
    BY <1>7 DEF Finish, Fail, StoreFails, EndJob, Submitting
  <2>2. \A i \in DOMAIN jobs' : \E j \in DOMAIN jobs : jobs'[i] = jobs[j]
    <3> SUFFICES ASSUME NEW i \in DOMAIN jobs'
                 PROVE  \E j \in DOMAIN jobs : jobs'[i] = jobs[j]
      OBVIOUS
    <3>1. i \in 1..(Len(jobs) - 1) /\ Len(jobs) \in Nat
      BY <2>1, EndJobTyped DEF TypeOK
    <3>2. i \in DOMAIN jobs /\ i + 1 \in DOMAIN jobs
      BY <3>1 DEF TypeOK
    <3> QED
      BY <2>1, <3>2, EndJobTyped
  <2>3. row'.version = row.version
    BY <1>7 DEF Finish, Fail, StoreFails, Finished, TypeOK, Row
  <2>4. row'.status = "done" /\ ~overlap => figures = row.version
    <3>1. CASE Finish(k)
      BY <3>1 DEF Finish, FiguresInv, WorkOfRow
    <3>2. CASE Fail(k)
      BY <3>2 DEF Fail, Finished, TypeOK, Row
    <3>3. CASE StoreFails(k)
      BY <3>3 DEF StoreFails, FiguresInv, FiguresMatch
    <3> QED
      BY <1>7, <3>1, <3>2, <3>3
  <2> QED
    BY <2>1, <2>2, <2>3, <2>4 DEF FiguresInv, WorkOfRow, FiguresMatch
<1>8. CASE Crash
  <2>1. jobs' = <<>> /\ Submitting' = {} /\ UNCHANGED <<row, figures, overlap>>
    BY <1>8 DEF Crash, Submitting, Idle
  <2> QED
    BY <2>1 DEF FiguresInv, WorkOfRow, FiguresMatch
<1>9. CASE GrowStale \/ NewVersion
  <2>1. Submitting' = Submitting /\ UNCHANGED <<rq, jobs, figures, overlap>>
    BY <1>9 DEF GrowStale, NewVersion, Submitting
  <2>2. row'.version = row.version /\ row'.status = row.status
    BY <1>9 DEF GrowStale, NewVersion, TypeOK, Row
  <2> QED
    BY <2>1, <2>2 DEF FiguresInv, WorkOfRow, FiguresMatch
<1> QED
  BY <1>1, <1>2, <1>3, <1>4, <1>5, <1>6, <1>7, <1>8, <1>9 DEF Next, Serve, Work

\* The figures shown with a design are those of its version, if no stale job was
\* taken over (ensure_figures and the page's figures).
THEOREM FiguresOfDesign == Spec => []FiguresMatch
<1>1. Init => GenerationInv /\ FiguresInv
  BY DEF Init, GenerationInv, OneGeneration, AliveIsRunning, Alive, Submitting, Idle,
         FiguresInv, WorkOfRow, FiguresMatch
<1>2. TypeOK /\ GenerationInv /\ FiguresInv /\ [Next]_vars => GenerationInv' /\ FiguresInv'
  BY GenerationInvStep, FiguresInvStep
<1>3. FiguresInv => FiguresMatch
  BY DEF FiguresInv
<1> QED
  BY <1>1, <1>2, <1>3, TypeCorrect, PTL DEF Spec

-----------------------------------------------------------------------------
\* Jobs end in the order in which they read the text, so an older text never ends
\* up in the row of a newer claim.
LEMMA SettledInvStep ==
  ASSUME Threads = 1, TypeOK, SettledInv, [Next]_vars
  PROVE  SettledInv'
<1>0. /\ version \in Nat /\ row.version \in Nat /\ row.text \in Nat
      /\ \A r \in Request : rq[r].version \in Nat
      /\ \A k \in DOMAIN jobs : jobs[k] \in Job /\ jobs[k].text \in Nat
      /\ DOMAIN jobs = 1..Len(jobs) /\ Len(jobs) \in Nat
      /\ jobs # <<>> <=> Len(jobs) > 0
  <2>1. version \in Nat /\ row.version \in Nat /\ row.text \in Nat
    BY DesignBoundsAssumption DEF TypeOK, Row, Version
  <2>2. \A r \in Request : rq[r].version \in Nat
    BY DesignBoundsAssumption DEF TypeOK, Version
  <2>3. \A k \in DOMAIN jobs : jobs[k] \in Job
    BY DEF TypeOK
  <2>4. \A k \in DOMAIN jobs : jobs[k].text \in Nat
    BY <2>3, DesignBoundsAssumption DEF Job
  <2>5. /\ DOMAIN jobs = 1..Len(jobs) /\ Len(jobs) \in Nat
        /\ jobs # <<>> <=> Len(jobs) > 0
    BY DEF TypeOK
  <2> QED
    BY <2>1, <2>2, <2>3, <2>4, <2>5
<1>1. CASE UNCHANGED vars
  BY <1>1 DEF vars, SettledInv, VersionsKnown, FirstJobOnly, OlderTextReplaced, Alive, Submitting
<1>2. ASSUME NEW r \in Request, NEW kind \in Kind, Load(r, kind) PROVE SettledInv'
  <2>1. /\ \A s \in Request : (rq'[s].at = "submit") <=> (rq[s].at = "submit")
        /\ \A s \in Request : rq'[s].version = rq[s].version \/ rq'[s].version = version
        /\ UNCHANGED <<version, row, jobs, lost>>
    BY <1>2 DEF Load, TypeOK
  <2>2. Submitting' = Submitting
    BY <2>1 DEF Submitting
  <2>3. VersionsKnown'
    BY <1>0, <2>1 DEF SettledInv, VersionsKnown
  <2> QED
    BY <2>1, <2>2, <2>3 DEF SettledInv, FirstJobOnly, OlderTextReplaced, Alive
<1>3. ASSUME NEW r \in Request, Look(r) \/ Check(r) \/ ClaimNothing(r) \/ Reset(r)
      PROVE  SettledInv'
  <2>1. PICK at \in {"idle", "start", "claim"} : Move(r, at)
    BY <1>3 DEF Look, Check, ClaimNothing, Reset
  <2>2. Submitting' = Submitting
    <3>1. r \notin Submitting
      BY <1>3 DEF Look, Check, ClaimNothing, Reset, Submitting
    <3> QED
      BY <2>1, <3>1, SubmittingStep
  <2>3. /\ row'.version = row.version /\ row'.text = row.text
        /\ row'.status = "done" => row.status = "done"
        /\ UNCHANGED <<version, jobs, lost>>
    BY <1>3 DEF Look, Check, ClaimNothing, Reset, TypeOK, Row
  <2>4. \A s \in Request : rq'[s].version = rq[s].version
    BY <2>1 DEF Move, TypeOK
  <2> QED
    BY <2>2, <2>3, <2>4 DEF SettledInv, VersionsKnown, FirstJobOnly, OlderTextReplaced, Alive
<1>4. ASSUME NEW r \in Request, Claim(r) PROVE SettledInv'
  <2>1. Submitting' = Submitting \cup {r}
    BY <1>4, SubmittingStep DEF Claim
  <2>2. /\ row'.version = rq[r].version /\ row'.status = "running"
        /\ UNCHANGED <<version, jobs>>
    BY <1>4 DEF Claim, Claimed
  <2>3. \A s \in Request : rq'[s].version = rq[s].version
    BY <1>4 DEF Claim, Move, TypeOK
  <2> QED
    BY <2>1, <2>2, <2>3 DEF SettledInv, VersionsKnown, FirstJobOnly, OlderTextReplaced, Alive
<1>5. ASSUME NEW r \in Request, Submit(r) PROVE SettledInv'
  <2>1. /\ Len(jobs') = Len(jobs) + 1 /\ DOMAIN jobs' = 1..(Len(jobs) + 1)
        /\ \A k \in DOMAIN jobs : jobs'[k] = jobs[k]
        /\ jobs'[Len(jobs) + 1].at = "figures"
    BY <1>5 DEF Submit, TypeOK
  <2>2. \A s \in Request : rq'[s].version = rq[s].version
    BY <1>5 DEF Submit, Move, TypeOK
  <2>3. UNCHANGED <<version, row, lost>>
    BY <1>5 DEF Submit
  <2>4. VersionsKnown'
    BY <2>2, <2>3 DEF SettledInv, VersionsKnown
  <2>5. FirstJobOnly'
    BY <1>0, <2>1 DEF SettledInv, FirstJobOnly
  <2>6. jobs'[1].at = "model" => Len(jobs') > 1
    BY <1>0, <2>1
  <2>7. jobs' # <<>>
    BY <2>1, <1>0
  <2> QED
    BY <2>3, <2>4, <2>5, <2>6, <2>7 DEF SettledInv, OlderTextReplaced, Alive
<1>6. ASSUME NEW k \in DOMAIN jobs, FetchFigures(k) \/ ReadText(k) PROVE SettledInv'
  <2>1. k = 1
    BY <1>0, <1>6 DEF FetchFigures, ReadText, OnThread
  <2>2. UNCHANGED <<version, row, rq, lost>> /\ Submitting' = Submitting
    BY <1>6 DEF FetchFigures, ReadText, Submitting
  <2>3. PICK j : /\ jobs' = [jobs EXCEPT ![k] = j]
                 /\ j.at = "model" => j.text = version
    <3>1. CASE FetchFigures(k)
      <4> DEFINE j == [jobs[k] EXCEPT !.at = "text"]
      <4>1. j.at = "text"
        BY <1>0 DEF Job
      <4>2. jobs' = [jobs EXCEPT ![k] = j]
        BY <3>1 DEF FetchFigures
      <4> QED
        BY <4>1, <4>2
    <3>2. CASE ReadText(k)
      <4> DEFINE j == [jobs[k] EXCEPT !.at = "model", !.text = version]
      <4>1. j.text = version
        BY <1>0 DEF Job
      <4>2. jobs' = [jobs EXCEPT ![k] = j]
        BY <3>2 DEF ReadText
      <4> QED
        BY <4>1, <4>2
    <3> QED
      BY <1>6, <3>1, <3>2
  <2>4. /\ DOMAIN jobs' = DOMAIN jobs /\ Len(jobs') = Len(jobs) /\ jobs'[1] = j
        /\ \A i \in DOMAIN jobs \ {1} : jobs'[i] = jobs[i]
        /\ jobs # <<>> /\ jobs' # <<>>
    BY <1>0, <2>1, <2>3 DEF TypeOK
  <2>5. ~(jobs'[1].at = "model" /\ jobs'[1].text < row.version)
    BY <1>0, <2>3, <2>4 DEF SettledInv, VersionsKnown
  <2>6. VersionsKnown' /\ FirstJobOnly'
    BY <2>2, <2>4 DEF SettledInv, VersionsKnown, FirstJobOnly
  <2>7. OlderTextReplaced'
    BY <2>2, <2>4, <2>5 DEF SettledInv, OlderTextReplaced, Alive
  <2> QED
    BY <2>6, <2>7 DEF SettledInv
<1>7. ASSUME NEW k \in DOMAIN jobs, Finish(k) \/ Fail(k) \/ StoreFails(k) PROVE SettledInv'
  <2>1. k = 1
    BY <1>0, <1>7 DEF Finish, Fail, StoreFails, OnThread
  <2>2. EndJob(k) /\ Submitting' = Submitting /\ UNCHANGED <<version, rq>>
    BY <1>7 DEF Finish, Fail, StoreFails, EndJob, Submitting
  <2>3. /\ jobs' \in Seq(Job) /\ Len(jobs') = Len(jobs) - 1
        /\ \A i \in DOMAIN jobs' : jobs'[i] = jobs[i + 1]
    BY <2>1, <2>2, EndJobTyped
  <2>4. \A i \in DOMAIN jobs' : jobs'[i].at = "figures"
    BY <1>0, <2>3 DEF SettledInv, FirstJobOnly
  <2>5. row'.version = row.version
    BY <1>7 DEF Finish, Fail, StoreFails, Finished, TypeOK, Row
  <2>6. VersionsKnown' /\ FirstJobOnly'
    BY <2>2, <2>4, <2>5 DEF SettledInv, VersionsKnown, FirstJobOnly
  <2>7. jobs' # <<>> => jobs'[1].at # "model"
    BY <2>3, <2>4
  <2>8. Len(jobs) > 1 => jobs' # <<>>
    BY <1>0, <2>3
  <2>9. ~lost' /\ row'.status = "done" /\ row'.text < row'.version => Alive'
    <3>1. CASE Finish(k)
      <4>1. row'.text = jobs[1].text /\ jobs[1].at = "model" /\ lost' = lost
        BY <2>1, <3>1 DEF Finish, Finished, TypeOK, Row
      <4> QED
        BY <1>0, <2>2, <2>5, <2>8, <4>1 DEF SettledInv, OlderTextReplaced, Alive
    <3>2. CASE Fail(k)
      BY <3>2 DEF Fail, Finished, TypeOK, Row
    <3>3. CASE StoreFails(k)
      <4>1. ~lost' => Len(jobs) # 1 \/ Submitting # {}
        BY <2>1, <3>3 DEF StoreFails
      <4>2. ~lost' => Len(jobs) > 1 \/ Submitting # {}
        BY <1>0, <4>1
      <4> QED
        BY <2>2, <2>8, <4>2 DEF Alive
    <3> QED
      BY <1>7, <3>1, <3>2, <3>3
  <2> QED
    BY <2>6, <2>7, <2>9 DEF SettledInv, OlderTextReplaced
<1>8. CASE Crash
  <2>1. /\ jobs' = <<>> /\ DOMAIN jobs' = {} /\ UNCHANGED <<version, row>>
        /\ \A r \in Request : rq'[r].version = 1
    BY <1>8 DEF Crash, Idle
  <2>2. ~lost' => ~lost /\ ~Alive
    BY <1>8 DEF Crash
  <2>3. version >= 1
    BY DesignBoundsAssumption DEF TypeOK, Version
  <2> QED
    BY <1>0, <2>1, <2>2, <2>3 DEF SettledInv, VersionsKnown, FirstJobOnly, OlderTextReplaced
<1>9. CASE GrowStale \/ NewVersion
  <2>1. Submitting' = Submitting /\ UNCHANGED <<rq, jobs, lost>>
    BY <1>9 DEF GrowStale, NewVersion, Submitting
  <2>2. /\ row'.version = row.version /\ row'.status = row.status /\ row'.text = row.text
        /\ version' >= version /\ version' \in Nat
    BY <1>0, <1>9 DEF GrowStale, NewVersion, TypeOK, Row
  <2>3. VersionsKnown'
    BY <1>0, <2>1, <2>2 DEF SettledInv, VersionsKnown
  <2> QED
    BY <2>1, <2>2, <2>3 DEF SettledInv, FirstJobOnly, OlderTextReplaced, Alive
<1> QED
  BY <1>1, <1>2, <1>3, <1>4, <1>5, <1>6, <1>7, <1>8, <1>9 DEF Next, Serve, Work

\* The local executor, one thread, leaves no design behind that is older than the
\* version its row names (sql/004_designs.sql); claude's two threads can.
THEOREM SettledLocally ==
  ASSUME Threads = 1
  PROVE  Spec => []SettledDesign
<1>1. Init => SettledInv
  <2> SUFFICES ASSUME Init PROVE SettledInv
    OBVIOUS
  <2>1. jobs = <<>> /\ DOMAIN jobs = {} /\ row.status = "none" /\ row.version = 0
    BY DEF Init
  <2>2. version = 1 /\ \A r \in Request : rq[r].version = 1
    BY DEF Init, Idle
  <2> QED
    BY <2>1, <2>2 DEF SettledInv, VersionsKnown, FirstJobOnly, OlderTextReplaced
<1>2. TypeOK /\ SettledInv /\ [Next]_vars => SettledInv'
  BY SettledInvStep
<1>3. TypeOK /\ SettledInv => SettledDesign
  <2> SUFFICES ASSUME TypeOK, SettledInv PROVE SettledDesign
    OBVIOUS
  <2>1. row.text \in Nat /\ row.version \in Nat
    BY DesignBoundsAssumption DEF TypeOK, Row
  <2> QED
    BY <2>1 DEF SettledInv, OlderTextReplaced, SettledDesign
<1> QED
  BY <1>1, <1>2, <1>3, TypeCorrect, PTL DEF Spec
=============================================================================
