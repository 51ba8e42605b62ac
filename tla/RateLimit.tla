------------------------------ MODULE RateLimit ------------------------------
(***************************************************************************)
(* The arXiv request budget: every process that talks to arxiv.org (poller,*)
(* fetcher, backfill, the API's figure fetches) reserves a send slot on one*)
(* Redis key with schemas/ratelimit.lua, sleeps until it and sends.  When  *)
(* Redis cannot be reached the call falls back to spacing its own process. *)
(* The Rust and the Python limiter are twins and are modelled once.        *)
(*                                                                         *)
(* Time is discrete and shared.  What the script returns is how long to    *)
(* sleep from the moment its reply arrives, and a reply may take any time: *)
(* up to REDIS_TIMEOUT in Rust, without a limit in Python.  The sleep      *)
(* itself ends at most WakeJitter late, what the SlotGuard is there for.   *)
(***************************************************************************)
EXTENDS Integers, FiniteSets

CONSTANTS
  Process,      \* the callers, one outstanding request each
  Fresh,        \* those that build a new limiter for every request (the API)
  MinInterval,  \* configured spacing between two requests to arXiv
  SlotGuard,    \* margin added to a reservation
  WakeJitter,   \* how late a sleeper may wake
  Ttl,          \* time to live of the budget key
  MaxQueue,     \* bound: how far ahead of the clock a slot may lie
  Horizon,      \* bound: no slot or clock value beyond it is explored
  Faults        \* which of the faults below may happen

FaultKinds == {"outage", "lostReply", "restart", "expiry"}

ASSUME TimingAssumption ==
  /\ MinInterval \in Nat \ {0}
  /\ SlotGuard \in Nat
  /\ WakeJitter \in Nat
  /\ WakeJitter <= SlotGuard
  /\ Ttl \in Nat
  /\ Horizon \in Nat

\* The key outlives the longest queue of slots: an hour against the 1,180 slots
\* that would have to be handed out in one go.
ASSUME QueueAssumption ==
  MaxQueue \in Nat /\ MaxQueue + MinInterval + SlotGuard <= Ttl

ASSUME SetAssumption == Fresh \subseteq Process /\ Faults \subseteq FaultKinds

VARIABLES
  now,       \* the clock
  up,        \* Redis answers
  key,       \* the budget key: the slot reserved last, or None
  keySetAt,  \* when the key was last written (its TTL counts from there)
  pc,        \* "down", "idle", "reply" while the script's answer is under way,
             \* or asleep before a send: "slot", "fallback"
  slot,      \* the slot the script gave a caller that has not sent yet
  delay,     \* how long the reply under way tells the caller to sleep
  wake,      \* when a sleeping caller may send, otherwise 0
  last,      \* the limiter's own record of its process's latest send
  sent,      \* what arXiv sees: a process's latest request since it started
  onSlot,    \* what arXiv sees: its latest request on a reserved slot, ever
  lateness   \* how late the reply to that request's reservation had come

reservation == <<slot, delay>>
requests == <<sent, onSlot, lateness>>
vars == <<now, up, key, keySetAt, pc, reservation, wake, last, requests>>

None == -1
Time == 0..Horizon
Asleep == {"slot", "fallback"}
Reserved == {"reply", "slot"}

TypeOK ==
  /\ now \in Time
  /\ up \in BOOLEAN
  /\ key \in Time \cup {None}
  /\ keySetAt \in Time
  /\ pc \in [Process -> Asleep \cup {"down", "idle", "reply"}]
  /\ slot \in [Process -> Time]
  /\ delay \in [Process -> Time]
  /\ wake \in [Process -> Time]
  /\ last \in [Process -> Time \cup {None}]
  /\ sent \in [Process -> Time \cup {None}]
  /\ onSlot \in [Process -> Time \cup {None}]
  /\ lateness \in [Process -> Time]

Init ==
  /\ now = 0
  /\ up = TRUE
  /\ key = None
  /\ keySetAt = 0
  /\ pc = [p \in Process |-> "down"]
  /\ slot = [p \in Process |-> 0]
  /\ delay = [p \in Process |-> 0]
  /\ wake = [p \in Process |-> 0]
  /\ last = [p \in Process |-> None]
  /\ sent = [p \in Process |-> None]
  /\ onSlot = [p \in Process |-> None]
  /\ lateness = [p \in Process |-> 0]

-----------------------------------------------------------------------------
\* The earliest time at or after now that lies gap beyond an earlier one.
Spaced(earlier, gap) ==
  IF earlier # None /\ earlier + gap > now THEN earlier + gap ELSE now

\* Mutant: the margin for late sleepers is forgotten.
UnguardedInterval == MinInterval

\* What the callers ask the script for: min + SLOT_GUARD.
Interval == MinInterval + SlotGuard

\* The slot the script hands out.
NextSlot == Spaced(key, Interval)

InBounds(t) == t <= Horizon /\ t <= now + MaxQueue

\* Mutant: overwriting the key keeps its old expiry.
ReserveKeepingTtl ==
  /\ InBounds(NextSlot)
  /\ key' = NextSlot
  /\ keySetAt' = IF key = None THEN now ELSE keySetAt

\* Mutant: the script stores the slot after the one it hands out.
ReserveStoringNext ==
  /\ InBounds(NextSlot)
  /\ key' = NextSlot + Interval
  /\ keySetAt' = now

\* The script runs: it stores the slot and refreshes the key's TTL.
ReserveSlot ==
  /\ InBounds(NextSlot)
  /\ key' = NextSlot
  /\ keySetAt' = now

\* When in-process spacing lets the caller send.
FallbackWake(p) == Spaced(last[p], MinInterval)

Sleep(p, how, until) ==
  /\ until <= Horizon
  /\ pc' = [pc EXCEPT ![p] = how]
  /\ wake' = [wake EXCEPT ![p] = until]

\* The limiter object is built.  Outside the API that opens the connection,
\* so a process cannot start while Redis is away.
Start(p) ==
  /\ pc[p] = "down"
  /\ up \/ p \in Fresh
  /\ pc' = [pc EXCEPT ![p] = "idle"]
  /\ UNCHANGED <<now, up, key, keySetAt, reservation, wake, last, requests>>

\* The caller holds no slot any more: it has sent, given up or died.
Release(p) ==
  /\ slot' = [slot EXCEPT ![p] = 0]
  /\ delay' = [delay EXCEPT ![p] = 0]

\* wait(), the script runs.  The caller learns nothing before the reply comes.
Reserve(p) ==
  /\ pc[p] = "idle" /\ up
  /\ ReserveSlot
  /\ pc' = [pc EXCEPT ![p] = "reply"]
  /\ slot' = [slot EXCEPT ![p] = NextSlot]
  /\ delay' = [delay EXCEPT ![p] = NextSlot - now]
  /\ UNCHANGED <<now, up, wake, last, requests>>

\* wait(), the reply is here: sleep for as long as it says, counted from now.
Reply(p) ==
  /\ pc[p] = "reply"
  /\ Sleep(p, "slot", now + delay[p])
  /\ delay' = [delay EXCEPT ![p] = 0]
  /\ UNCHANGED <<now, up, key, keySetAt, slot, last, requests>>

\* wait(), Redis is unreachable.
FallBack(p) ==
  /\ pc[p] = "idle" /\ ~up
  /\ Sleep(p, "fallback", FallbackWake(p))
  /\ UNCHANGED <<now, up, key, keySetAt, reservation, last, requests>>

\* wait(), the script ran but its answer is lost or comes after the timeout.
ReplyLost(p) ==
  /\ pc[p] = "reply"
  /\ "lostReply" \in Faults \/ ~up
  /\ Sleep(p, "fallback", FallbackWake(p))
  /\ Release(p)
  /\ UNCHANGED <<now, up, key, keySetAt, last, requests>>

\* How long after the script's run the reply came that the caller sleeps by.
ReplyTook(p) == wake[p] - slot[p]

\* Mutant: the shared path does not tell the fallback about its send.
MarkFallbackOnly(p, t) ==
  last' = [last EXCEPT ![p] = IF pc[p] = "slot" THEN @ ELSE t]

\* What the limiter remembers of a send at time t: a Fresh one is dropped.
MarkSent(p, t) == last' = [last EXCEPT ![p] = IF p \in Fresh THEN None ELSE t]

\* The sleeper wakes, records the send (in either mode) and sends.
Send(p) ==
  /\ pc[p] \in Asleep
  /\ wake[p] <= now
  /\ pc' = [pc EXCEPT ![p] = "idle"]
  /\ wake' = [wake EXCEPT ![p] = 0]
  /\ Release(p)
  /\ MarkSent(p, now)
  /\ sent' = [sent EXCEPT ![p] = now]
  /\ IF pc[p] = "slot"
     THEN /\ onSlot' = [onSlot EXCEPT ![p] = now]
          /\ lateness' = [lateness EXCEPT ![p] = ReplyTook(p)]
     ELSE UNCHANGED <<onSlot, lateness>>
  /\ UNCHANGED <<now, up, key, keySetAt>>

\* The process dies and its limiter with it; a slot it had reserved stays a gap.
Crash(p) ==
  /\ "restart" \in Faults
  /\ pc' = [pc EXCEPT ![p] = "down"]
  /\ wake' = [wake EXCEPT ![p] = 0]
  /\ Release(p)
  /\ last' = [last EXCEPT ![p] = None]
  /\ sent' = [sent EXCEPT ![p] = None]
  /\ UNCHANGED <<now, up, key, keySetAt, onSlot, lateness>>

Outage ==
  /\ "outage" \in Faults
  /\ up' = ~up
  /\ UNCHANGED <<now, key, keySetAt, pc, reservation, wake, last, requests>>

\* Redis drops the key Ttl after it was last written.
Expire ==
  /\ "expiry" \in Faults
  /\ key # None
  /\ keySetAt + Ttl <= now
  /\ key' = None
  /\ UNCHANGED <<now, up, keySetAt, pc, reservation, wake, last, requests>>

\* The clock moves on, but no sleeper oversleeps by more than WakeJitter.
Tick ==
  /\ now < Horizon
  /\ \A p \in Process : pc[p] \in Asleep => now < wake[p] + WakeJitter
  /\ now' = now + 1
  /\ UNCHANGED <<up, key, keySetAt, pc, reservation, wake, last, requests>>

CallerStep(p) ==
  \/ Start(p) \/ Reserve(p) \/ Reply(p) \/ ReplyLost(p) \/ FallBack(p)
  \/ Send(p) \/ Crash(p)

Next == Tick \/ Outage \/ Expire \/ \E p \in Process : CallerStep(p)

Spec == Init /\ [][Next]_vars

-----------------------------------------------------------------------------
MaySend(p) == pc[p] \in Asleep /\ wake[p] <= now

\* A request now would keep the configured distance from q's latest one.
FarFrom(q) == sent[q] # None => now - sent[q] >= MinInterval

\* Two requests on reserved slots are closer than MinInterval only by as much as
\* the slower of their two replies was late: however late the sleepers woke,
\* whoever was restarted, lost its answer or fell back in between, whether or not
\* the key has expired, and in whichever order late replies put the two.  With
\* replies that take no time it is the floor DECISIONS 27 measured ("none below
\* 3000"); the delay of a reply is what the SlotGuard does not cover.
SpacedSends ==
  \A p, q \in Process :
    pc[p] = "slot" /\ wake[p] <= now /\ onSlot[q] # None =>
      \/ now - onSlot[q] + ReplyTook(p) >= MinInterval
      \/ now - onSlot[q] + lateness[q] >= MinInterval

\* No two callers hold slots closer than the reserved spacing, whether they wait
\* for the reply or for the slot, through outages, lost answers, restarts and the
\* expiry of the key: the script hands out distinct slots in arrival order
\* (ratelimit.lua, header).
ReservationsDistinct ==
  \A p, q \in Process :
    p # q /\ pc[p] \in Reserved /\ pc[q] \in Reserved =>
      slot[p] + Interval <= slot[q] \/ slot[q] + Interval <= slot[p]

\* A caller that falls back is spaced from its own process's latest send even
\* when that one went through Redis (mark_sent in the shared path).
FallbackSpaced ==
  \A p \in Process \ Fresh :
    pc[p] = "fallback" /\ wake[p] <= now => FarFrom(p)

\* What ratelimit.rs and ratelimit.py claim of an outage: "a Redis blip must
\* never stop ingestion, but must never skip the spacing either".  Stated of
\* the requests of one process, the weakest reading.
BlipKeepsSpacing == \A p \in Process : MaySend(p) => FarFrom(p)
=============================================================================
