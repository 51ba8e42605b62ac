------------------------------- MODULE Designs -------------------------------
(***************************************************************************)
(* The design page of one paper by one provider: page views, JSON calls and*)
(* regenerate requests of the query API claim the row of paper_designs and *)
(* queue a job; the threads of the provider's executor carry the jobs out, *)
(* while the workers store newer versions of the paper.                    *)
(*                                                                         *)
(* A design is known by the version of the text it was written from.       *)
(* Every statement on the database is a step of its own: the API's         *)
(* transactions are READ COMMITTED, so grouping them shows nothing else.   *)
(***************************************************************************)
EXTENDS Naturals, Sequences, SequencesExt

CONSTANTS
  Request,     \* requests served at a time
  Threads,     \* threads of the executor: one for "local", two for "claude"
  MaxVersion,  \* bound on the versions of the paper
  MaxQueue,    \* bound on the jobs alive
  MaxFaults    \* bound on crashes and results that cannot be stored

ASSUME ThreadsAssumption == Threads \in Nat \ {0}
ASSUME DesignBoundsAssumption ==
  MaxVersion \in Nat \ {0} /\ MaxQueue \in Nat \ {0} /\ MaxFaults \in Nat

VARIABLES
  version,  \* version of the paper and of its chunks
  figures,  \* version the cached figures belong to, 0 if there are none
  row,      \* row of paper_designs: status, version, text it was written from;
            \* stale once it has been running for STALE_AFTER_S
  rq,       \* requests: their kind, how far they are, the version they loaded
  jobs,     \* jobs submitted and not ended, in the order of submission
  lost,     \* history: the job of the latest claim ended without a result
  overlap,  \* history: the latest claim, or one it followed with a job still
            \* alive, took over from a job grown stale
  faults

vars == <<version, figures, row, rq, jobs, lost, overlap, faults>>

Version == 1..MaxVersion
Kind == {"page", "json", "regenerate"}
Row == [status : {"none", "running", "failed", "done"},
        version : 0..MaxVersion, text : 0..MaxVersion, stale : BOOLEAN]
Idle == [kind |-> "page", at |-> "idle", version |-> 1]
Job == [version : Version, at : {"figures", "text", "model"}, text : 0..MaxVersion]

TypeOK ==
  /\ version \in Version
  /\ figures \in 0..MaxVersion
  /\ row \in Row
  /\ row.status = "done" => row.text # 0
  /\ row.status = "running" => row.text = 0
  /\ rq \in [Request -> [kind : Kind, at : {"idle", "loaded", "start", "claim", "submit"},
                         version : Version]]
  /\ jobs \in Seq(Job)
  /\ \A k \in DOMAIN jobs : jobs[k].at = "model" => jobs[k].text # 0
  /\ lost \in BOOLEAN
  /\ overlap \in BOOLEAN
  /\ faults \in 0..MaxFaults

Init ==
  /\ version = 1
  /\ figures = 0
  /\ row = [status |-> "none", version |-> 0, text |-> 0, stale |-> FALSE]
  /\ rq = [r \in Request |-> Idle]
  /\ jobs = <<>>
  /\ lost = FALSE
  /\ overlap = FALSE
  /\ faults = 0

-----------------------------------------------------------------------------
\* A claim whose job is about to be submitted is as alive as a job.
Submitting == {r \in Request : rq[r].at = "submit"}
Alive == jobs # <<>> \/ Submitting # {}

\* Mutant: any row may be claimed.
AlwaysClaimable(v) == TRUE

\* Mutant: a running row is never taken over.
ClaimableUnlessRunning(v) ==
  \/ row.status \in {"none", "failed"}
  \/ row.status = "done" /\ row.version # v

\* The WHERE of claim_design; model and prompt do not change while a process runs.
Claimable(v) ==
  \/ row.status \in {"none", "failed"}
  \/ row.status = "running" /\ row.stale
  \/ row.status = "done" /\ row.version # v

\* Mutant: the claim leaves the old design in the row.
ClaimedKeepingDesign(v) == [row EXCEPT !.status = "running", !.version = v, !.stale = FALSE]

\* The SET of claim_design.
Claimed(v) == [status |-> "running", version |-> v, text |-> 0, stale |-> FALSE]

\* finish_design leaves the claim's version alone.
Finished(status, text) == [row EXCEPT !.status = status, !.text = text, !.stale = FALSE]

\* Mutant: as many threads as there are jobs.
AnyJob(k) == k \in DOMAIN jobs

\* The executor takes jobs in the order they were submitted.
OnThread(k) == k \in DOMAIN jobs /\ k <= Threads

-----------------------------------------------------------------------------
\* A request, statement by statement
Move(r, at) == rq' = [rq EXCEPT ![r].at = at]

\* get_paper.
Load(r, kind) ==
  /\ rq[r].at = "idle"
  /\ rq' = [rq EXCEPT ![r] = [kind |-> kind, at |-> "loaded", version |-> version]]
  /\ UNCHANGED <<version, figures, row, jobs, lost, overlap, faults>>

\* The page starts a design unless the last one failed, the JSON call only if
\* there has been none.
Wanted(kind) ==
  \/ kind = "page" /\ row.status # "failed"
  \/ kind = "json" /\ row.status = "none"

\* get_design in load, and what the page or the JSON call makes of it.
Look(r) ==
  /\ rq[r].at = "loaded" /\ rq[r].kind # "regenerate"
  /\ Move(r, IF Wanted(rq[r].kind) THEN "start" ELSE "idle")
  /\ UNCHANGED <<version, figures, row, jobs, lost, overlap, faults>>

\* reset_design fails a design that is not running and keeps what it says.
Reset(r) ==
  /\ rq[r].at = "loaded" /\ rq[r].kind = "regenerate"
  /\ row' = IF row.status \in {"failed", "done"} THEN [row EXCEPT !.status = "failed"] ELSE row
  /\ Move(r, "start")
  /\ UNCHANGED <<version, figures, jobs, lost, overlap, faults>>

\* start: a failed design is retried only when asked for.
Check(r) ==
  /\ rq[r].at = "start"
  /\ Move(r, IF row.status = "failed" /\ rq[r].kind # "regenerate" THEN "idle" ELSE "claim")
  /\ UNCHANGED <<version, figures, row, jobs, lost, overlap, faults>>

\* claim_design takes the row for the version the request has loaded.
Claim(r) ==
  /\ rq[r].at = "claim"
  /\ Claimable(rq[r].version)
  /\ Len(jobs) < MaxQueue
  /\ overlap' = (Alive /\ (overlap \/ (row.status = "running" /\ row.stale)))
  /\ row' = Claimed(rq[r].version)
  /\ lost' = FALSE
  /\ Move(r, "submit")
  /\ UNCHANGED <<version, figures, jobs, faults>>

ClaimNothing(r) ==
  /\ rq[r].at = "claim"
  /\ ~Claimable(rq[r].version)
  /\ Move(r, "idle")
  /\ UNCHANGED <<version, figures, row, jobs, lost, overlap, faults>>

Submit(r) ==
  /\ rq[r].at = "submit"
  /\ jobs' = Append(jobs, [version |-> rq[r].version, at |-> "figures", text |-> 0])
  /\ Move(r, "idle")
  /\ UNCHANGED <<version, figures, row, lost, overlap, faults>>

Serve(r) ==
  Look(r) \/ Reset(r) \/ Check(r) \/ Claim(r) \/ ClaimNothing(r) \/ Submit(r)

-----------------------------------------------------------------------------
\* A job on its thread
\* Mutant: figures once fetched are kept.
KeptFigures(v) == IF figures = 0 THEN v ELSE figures

\* ensure_figures fetches figures unless the cached ones are of the version the job
\* was queued with.
FreshFigures(v) == v

FetchFigures(k) ==
  /\ OnThread(k) /\ jobs[k].at = "figures"
  /\ figures' = FreshFigures(jobs[k].version)
  /\ jobs' = [jobs EXCEPT ![k] = [@ EXCEPT !.at = "text"]]
  /\ UNCHANGED <<version, row, rq, lost, overlap, faults>>

\* design_source reads the chunks as they are now.
ReadText(k) ==
  /\ OnThread(k) /\ jobs[k].at = "text"
  /\ jobs' = [jobs EXCEPT ![k] = [@ EXCEPT !.at = "model", !.text = version]]
  /\ UNCHANGED <<version, figures, row, rq, lost, overlap, faults>>

\* The job leaves its thread.
EndJob(k) ==
  /\ jobs' = RemoveAt(jobs, k)
  /\ UNCHANGED <<version, figures, rq, overlap>>

Finish(k) ==
  /\ OnThread(k) /\ jobs[k].at = "model"
  /\ row' = Finished("done", jobs[k].text)
  /\ EndJob(k)
  /\ UNCHANGED <<lost, faults>>

\* Any exception fails the row; finish_design without a design clears it.
Fail(k) ==
  /\ OnThread(k)
  /\ row' = Finished("failed", 0)
  /\ EndJob(k)
  /\ UNCHANGED <<lost, faults>>

\* Not even the failure can be stored; the future swallows the exception.
StoreFails(k) ==
  /\ OnThread(k) /\ faults < MaxFaults
  /\ EndJob(k)
  /\ faults' = faults + 1
  /\ lost' = (lost \/ (k = Len(jobs) /\ Submitting = {}))
  /\ UNCHANGED row

Work == \E k \in DOMAIN jobs : FetchFigures(k) \/ ReadText(k) \/ Finish(k) \/ Fail(k)

-----------------------------------------------------------------------------
\* The API process dies with its requests and jobs; the row stays.
Crash ==
  /\ faults < MaxFaults
  /\ faults' = faults + 1
  /\ lost' = (lost \/ Alive)
  /\ jobs' = <<>>
  /\ rq' = [r \in Request |-> Idle]
  /\ UNCHANGED <<version, figures, row, overlap>>

\* A job may wait and run for longer than STALE_AFTER_S; a request does not take
\* that long between its claim and its submit.
GrowStale ==
  /\ row.status = "running" /\ ~row.stale /\ Submitting = {}
  /\ row' = [row EXCEPT !.stale = TRUE]
  /\ UNCHANGED <<version, figures, rq, jobs, lost, overlap, faults>>

\* A worker stores the next version, row and chunks at once.
NewVersion ==
  /\ version < MaxVersion
  /\ version' = version + 1
  /\ UNCHANGED <<figures, row, rq, jobs, lost, overlap, faults>>

Next ==
  \/ \E r \in Request : (\E kind \in Kind : Load(r, kind)) \/ Serve(r)
  \/ Work
  \/ \E k \in DOMAIN jobs : StoreFails(k)
  \/ Crash \/ GrowStale \/ NewVersion

Spec == Init /\ [][Next]_vars

\* Requests in hand are served, threads work, time passes, and the page is open
\* in a browser: it refreshes itself while a design is running
\* (design_pending.html) and is looked at again when it is not.
PageFairness ==
  /\ \A r \in Request : WF_vars(Serve(r))
  /\ WF_vars(Work) /\ WF_vars(GrowStale)
  /\ SF_vars(\E r \in Request : Load(r, "page"))

-----------------------------------------------------------------------------
\* One job is alive at a time unless a stale one was taken over: "unless ... one
\* is already running" (docstring of start, design.py).
OneGeneration ==
  overlap \/
    /\ Len(jobs) <= 1
    /\ \A r, s \in Submitting : r = s
    /\ jobs # <<>> => Submitting = {}

\* Once no job is alive, a finished design was written from the version its row
\* names or from a newer one: row.version is the "paper version the design was
\* written from" (sql/004_designs.sql).
SettledDesign ==
  row.status = "done" /\ ~Alive /\ ~lost => row.text >= row.version

\* The figures beside a finished design are those of the version its row names,
\* unless a stale job was taken over (ensure_figures; the page does not compare).
FiguresMatch ==
  row.status = "done" /\ ~overlap => figures = row.version

\* A page that is looked at shows the design of the latest version or a failure
\* again and again: no claim is left running for ever, whatever crashed.
PageSettles ==
  []<>(\/ row.status = "failed"
       \/ row.status = "done" /\ row.version = version)
=============================================================================
