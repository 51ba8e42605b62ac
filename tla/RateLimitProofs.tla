--------------------------- MODULE RateLimitProofs ---------------------------
(***************************************************************************)
(* The request budget, for any number of processes, any timing, replies    *)
(* that take as long as they like and all of the faults: the types, the    *)
(* distance of reserved slots, the spacing of the requests sent on them,   *)
(* and that a process alone, without Redis, keeps the interval.            *)
(***************************************************************************)
EXTENDS RateLimit, TLAPS

\* A reply comes no sooner than the script has run: nobody sends before its slot.
SlotBeforeWake ==
  \A p \in Process :
    /\ pc[p] = "reply" => slot[p] <= now + delay[p]
    /\ pc[p] = "slot" => slot[p] <= wake[p]

TypeInv == TypeOK /\ SlotBeforeWake

\* Nobody oversleeps: Tick waits for the sleepers whose time has come.
NoOversleep == \A p \in Process : pc[p] = "slot" => now <= wake[p] + WakeJitter

\* The stored slot is never further ahead of the last reservation than a queue.
KeyInQueue ==
  /\ keySetAt <= now
  /\ key # None => key <= keySetAt + MaxQueue

\* Every slot held is at most the one stored in the key, or so old that no new
\* one can be near it: a reply may be under way for longer than the key lives.
SlotsBehindKey ==
  \A p \in Process : pc[p] \in Reserved =>
    \/ key # None /\ slot[p] <= key
    \/ slot[p] + Interval <= now

ReservationInv ==
  TypeInv /\ NoOversleep /\ KeyInQueue /\ SlotsBehindKey /\ ReservationsDistinct

\* A slot held lies MinInterval beyond every request on a slot, but for that
\* request's lateness, or it is an old one whose own reply is the late one.
SlotsAroundSends ==
  \A p, q \in Process :
    pc[p] \in Reserved /\ onSlot[q] # None =>
      \/ onSlot[q] + MinInterval <= slot[p] + lateness[q]
      \/ slot[p] + Interval <= onSlot[q]

\* But for its lateness, a request on a slot is long past or the key trails it by
\* a late wake at most.
KeyKnowsSends ==
  \A q \in Process :
    onSlot[q] # None =>
      /\ onSlot[q] <= now
      /\ \/ onSlot[q] + MinInterval <= now + lateness[q]
         \/ key # None /\ onSlot[q] <= key + lateness[q] + WakeJitter

SpacingInv == ReservationInv /\ SlotsAroundSends /\ KeyKnowsSends

-----------------------------------------------------------------------------
\* Spaced returns a time no earlier than now and, after an earlier event, no
\* earlier than gap beyond it (Spaced, the max of ratelimit.lua).
LEMMA SpacedFacts ==
  ASSUME NEW e \in Time \cup {None}, NEW gap \in Nat, now \in Time
  PROVE  /\ Spaced(e, gap) \in Nat
         /\ Spaced(e, gap) >= now
         /\ e # None => Spaced(e, gap) >= e + gap
  BY DEF Spaced, Time, None

\* A reservation leaves the key at the slot handed out, at least one interval
\* beyond the slot it held before (the script's max, ratelimit.lua).
LEMMA ReserveFacts ==
  ASSUME TypeOK, ReserveSlot
  PROVE  /\ NextSlot \in Time
         /\ key' = NextSlot
         /\ key' # None
         /\ keySetAt' = now
         /\ now <= NextSlot
         /\ NextSlot <= now + MaxQueue
         /\ key # None => key + Interval <= NextSlot
  BY SpacedFacts, TimingAssumption, QueueAssumption
     DEF TypeOK, ReserveSlot, InBounds, NextSlot, Interval, Time, None

\* The types are inductive together with the order of slot, reply and wake.
LEMMA TypesHold == Spec => []TypeInv
<1>1. Init => TypeInv
  BY TimingAssumption DEF Init, TypeInv, TypeOK, SlotBeforeWake, Time, Asleep
<1>2. TypeInv /\ [Next]_vars => TypeInv'
  <2> SUFFICES ASSUME TypeInv, [Next]_vars PROVE TypeOK' /\ SlotBeforeWake'
    BY DEF TypeInv
  <2> USE TimingAssumption DEF TypeInv, TypeOK, requests, reservation
  <2>1. CASE Tick
    BY <2>1 DEF Tick, Time, SlotBeforeWake
  <2>2. CASE Outage
    BY <2>2 DEF Outage, SlotBeforeWake
  <2>3. CASE Expire
    BY <2>3 DEF Expire, SlotBeforeWake
  <2>4. ASSUME NEW p \in Process, CallerStep(p) PROVE TypeOK' /\ SlotBeforeWake'
    <3>1. CASE Start(p)
      BY <3>1 DEF Start, SlotBeforeWake
    <3>2. CASE Send(p)
      <4>1. last' \in [Process -> Time \cup {None}]
        BY <3>2 DEF Send, MarkSent
      <4>2. /\ wake' \in [Process -> Time]
            /\ slot' \in [Process -> Time]
            /\ delay' \in [Process -> Time]
        BY <3>2 DEF Send, Release, Time
      <4>3. onSlot' \in [Process -> Time \cup {None}] /\ lateness' \in [Process -> Time]
        BY <3>2 DEF Send, SlotBeforeWake, ReplyTook, Time
      <4>4. SlotBeforeWake'
        BY <3>2 DEF Send, Release, SlotBeforeWake
      <4> QED BY <3>2, <4>1, <4>2, <4>3, <4>4 DEF Send
    <3>3. CASE Crash(p)
      BY <3>3 DEF Crash, Release, Time, SlotBeforeWake
    <3>4. CASE Reserve(p)
      <4>1. /\ NextSlot \in Time
            /\ key' = NextSlot
            /\ keySetAt' = now
            /\ now <= NextSlot
        BY <3>4, ReserveFacts DEF Reserve
      <4>2. NextSlot - now \in Time
        BY <4>1 DEF Time
      <4>3. SlotBeforeWake'
        BY <3>4, <4>1 DEF Reserve, SlotBeforeWake, Time
      <4> QED BY <3>4, <4>1, <4>2, <4>3 DEF Reserve
    <3>5. CASE Reply(p)
      BY <3>5 DEF Reply, Sleep, SlotBeforeWake, Time, Asleep
    <3>6. ASSUME Sleep(p, "fallback", FallbackWake(p))
          PROVE  /\ pc' \in [Process -> Asleep \cup {"down", "idle", "reply"}]
                 /\ wake' \in [Process -> Time]
      <4>1. last[p] \in Time \cup {None} /\ MinInterval \in Nat /\ now \in Time
        OBVIOUS
      <4>2. FallbackWake(p) \in Nat
        BY <4>1, SpacedFacts DEF FallbackWake
      <4> QED BY <3>6, <4>2 DEF Sleep, Time, Asleep
    <3>7. CASE FallBack(p)
      <4>1. SlotBeforeWake'
        BY <3>7 DEF FallBack, Sleep, SlotBeforeWake
      <4> QED BY <3>6, <3>7, <4>1 DEF FallBack
    <3>8. CASE ReplyLost(p)
      <4>1. SlotBeforeWake'
        BY <3>8 DEF ReplyLost, Sleep, Release, SlotBeforeWake
      <4>2. slot' \in [Process -> Time] /\ delay' \in [Process -> Time]
        BY <3>8 DEF ReplyLost, Release, Time
      <4> QED BY <3>6, <3>8, <4>1, <4>2 DEF ReplyLost
    <3> QED
      BY <2>4, <3>1, <3>2, <3>3, <3>4, <3>5, <3>7, <3>8 DEF CallerStep
  <2>5. CASE UNCHANGED vars
    BY <2>5 DEF vars, SlotBeforeWake
  <2> QED
    BY <2>1, <2>2, <2>3, <2>4, <2>5 DEF Next
<1> QED
  BY <1>1, <1>2, PTL DEF Spec

\* The types hold in every behaviour, whatever faults happen.
THEOREM TypeCorrect == Spec => []TypeOK
<1>1. TypeInv => TypeOK
  BY DEF TypeInv
<1> QED
  BY <1>1, TypesHold, PTL

-----------------------------------------------------------------------------
\* Once the key may expire every slot it stood for is an interval past (the TTL
\* of ratelimit.lua outlives the queue).
LEMMA ExpiryFacts ==
  ASSUME ReservationInv, Expire
  PROVE  key + Interval <= now
  BY TimingAssumption, QueueAssumption
     DEF ReservationInv, TypeInv, TypeOK, Time, Interval, Expire, KeyInQueue, None

\* Nothing that ReservationInv speaks of gets worse when p lets go of its slot or
\* takes none (Start, FallBack, ReplyLost, Send, Crash).
LEMMA LettingGo ==
  ASSUME ReservationInv, NEW p \in Process, pc'[p] \notin Reserved,
         \A q \in Process \ {p} : pc'[q] = pc[q] /\ slot'[q] = slot[q] /\ wake'[q] = wake[q],
         UNCHANGED <<now, key, keySetAt>>
  PROVE  NoOversleep' /\ KeyInQueue' /\ SlotsBehindKey' /\ ReservationsDistinct'
  BY DEF ReservationInv, NoOversleep, KeyInQueue, SlotsBehindKey, ReservationsDistinct,
     Reserved, Interval

\* A caller that reserves gets a slot an interval beyond every slot held.
LEMMA ReserveBeyondSlots ==
  ASSUME ReservationInv, ReserveSlot, NEW q \in Process, pc[q] \in Reserved
  PROVE  slot[q] + Interval <= NextSlot
<1> USE TimingAssumption DEF ReservationInv, TypeInv, TypeOK
<1>1. /\ NextSlot \in Time
      /\ now <= NextSlot
      /\ key # None => key + Interval <= NextSlot
  BY ReserveFacts
<1> QED
  BY <1>1 DEF SlotsBehindKey, Time, None, Interval

\* The inductive form: every slot held is behind the key or long past, and apart
\* from the others (the reservation order of ratelimit.lua).
LEMMA ReservationsHold == Spec => []ReservationInv
<1>1. Init => ReservationInv
  BY TimingAssumption, QueueAssumption DEF Init, ReservationInv, TypeInv, TypeOK,
     SlotBeforeWake, NoOversleep, KeyInQueue, SlotsBehindKey, ReservationsDistinct,
     Time, Asleep, Reserved
<1>2. ReservationInv /\ TypeInv' /\ [Next]_vars => ReservationInv'
  <2> SUFFICES ASSUME ReservationInv, TypeInv', [Next]_vars
               PROVE  /\ NoOversleep'
                      /\ KeyInQueue'
                      /\ SlotsBehindKey'
                      /\ ReservationsDistinct'
    BY DEF ReservationInv
  <2> USE DEF reservation
  <2>1. CASE Tick
    <3>1. NoOversleep' /\ KeyInQueue'
      BY <2>1, TimingAssumption, QueueAssumption
         DEF Tick, NoOversleep, KeyInQueue, ReservationInv, TypeInv, TypeOK, Asleep, Time
    <3>2. SlotsBehindKey'
      BY <2>1, TimingAssumption
         DEF Tick, SlotsBehindKey, ReservationInv, TypeInv, TypeOK, Time, Interval
    <3> QED
      BY <2>1, <3>1, <3>2 DEF Tick, ReservationInv, ReservationsDistinct
  <2>2. CASE Outage \/ UNCHANGED vars
    BY <2>2 DEF Outage, vars, ReservationInv, NoOversleep, KeyInQueue, SlotsBehindKey,
       ReservationsDistinct
  <2>3. CASE Expire
    <3>1. NoOversleep' /\ KeyInQueue' /\ ReservationsDistinct'
      BY <2>3 DEF Expire, ReservationInv, NoOversleep, KeyInQueue, ReservationsDistinct
    <3>2. key + Interval <= now
      BY <2>3, ExpiryFacts
    <3>3. SlotsBehindKey'
      BY <2>3, <3>2, TimingAssumption
         DEF Expire, SlotsBehindKey, ReservationInv, TypeInv, TypeOK, Time, None, Interval
    <3> QED
      BY <3>1, <3>3
  <2>4. ASSUME NEW p \in Process, CallerStep(p)
        PROVE  NoOversleep' /\ KeyInQueue' /\ SlotsBehindKey' /\ ReservationsDistinct'
    <3>1. CASE Start(p) \/ FallBack(p) \/ ReplyLost(p) \/ Send(p) \/ Crash(p)
      <4>1. /\ pc'[p] \notin Reserved
            /\ \A q \in Process \ {p} :
                 pc'[q] = pc[q] /\ slot'[q] = slot[q] /\ wake'[q] = wake[q]
            /\ UNCHANGED <<now, key, keySetAt>>
        BY <3>1 DEF Start, FallBack, ReplyLost, Send, Crash, Sleep, Release, Reserved,
           ReservationInv, TypeInv, TypeOK
      <4> QED
        BY <4>1, LettingGo
    <3>2. CASE Reserve(p)
      <4> USE TimingAssumption, QueueAssumption DEF ReservationInv, TypeInv, TypeOK
      <4>1. /\ NextSlot \in Time
            /\ key' = NextSlot
            /\ key' # None
            /\ keySetAt' = now
            /\ NextSlot <= now + MaxQueue
            /\ key # None => key + Interval <= NextSlot
        BY <3>2, ReserveFacts DEF Reserve
      <4>2. \A q \in Process : pc[q] \in Reserved => slot[q] + Interval <= NextSlot
        BY <3>2, ReserveBeyondSlots DEF Reserve
      <4>3. /\ now' = now /\ pc' = [pc EXCEPT ![p] = "reply"]
            /\ slot' = [slot EXCEPT ![p] = NextSlot] /\ wake' = wake
        BY <3>2 DEF Reserve
      <4>4. NoOversleep' /\ KeyInQueue'
        BY <4>1, <4>3 DEF NoOversleep, KeyInQueue, Time
      <4>5. SlotsBehindKey'
        BY <4>1, <4>2, <4>3 DEF SlotsBehindKey, Time, Interval, Reserved
      <4>6. ReservationsDistinct'
        BY <4>1, <4>2, <4>3 DEF ReservationsDistinct, Time, Interval, Reserved
      <4> QED
        BY <4>4, <4>5, <4>6
    <3>3. CASE Reply(p)
      <4>1. /\ pc' = [pc EXCEPT ![p] = "slot"] /\ pc[p] = "reply"
            /\ wake' = [wake EXCEPT ![p] = now + delay[p]]
            /\ UNCHANGED <<now, key, keySetAt, slot>>
        BY <3>3 DEF Reply, Sleep
      <4>2. NoOversleep'
        BY <4>1, TimingAssumption DEF ReservationInv, TypeInv, TypeOK, NoOversleep, Time
      <4> QED
        BY <4>1, <4>2 DEF ReservationInv, TypeInv, TypeOK, KeyInQueue, SlotsBehindKey,
           ReservationsDistinct, Reserved, Interval
    <3> QED
      BY <2>4, <3>1, <3>2, <3>3 DEF CallerStep
  <2> QED
    BY <2>1, <2>2, <2>3, <2>4 DEF Next
<1> QED
  BY <1>1, <1>2, TypesHold, PTL DEF Spec

\* Two callers never hold slots closer than the reserved interval: DECISIONS 27,
\* one budget for all processes.
THEOREM DistinctSlots == Spec => []ReservationsDistinct
<1>1. ReservationInv => ReservationsDistinct
  BY DEF ReservationInv
<1> QED
  BY <1>1, ReservationsHold, PTL

-----------------------------------------------------------------------------
\* A new slot lies beyond every request made on a slot, but for that request's
\* lateness (wait(), both halves).
LEMMA ReserveBeyondSends ==
  ASSUME SpacingInv, ReserveSlot, NEW q \in Process, onSlot[q] # None
  PROVE  /\ onSlot[q] + MinInterval <= NextSlot + lateness[q]
         /\ key' # None /\ onSlot[q] <= key' + lateness[q] + WakeJitter
<1> USE TimingAssumption DEF SpacingInv, ReservationInv, TypeInv, TypeOK
<1>1. /\ NextSlot \in Time
      /\ key' = NextSlot
      /\ key' # None
      /\ now <= NextSlot
      /\ key # None => key + Interval <= NextSlot
  BY ReserveFacts
<1>2. \/ onSlot[q] + MinInterval <= now + lateness[q]
      \/ key # None /\ onSlot[q] <= key + lateness[q] + WakeJitter
  BY DEF KeyKnowsSends
<1> QED
  BY <1>1, <1>2 DEF Interval, Time, None

\* A request on a slot is not further beyond the slot than its reply was late and
\* its sender overslept, and every other slot held is an interval away.
LEMMA SendOnSlot ==
  ASSUME SpacingInv, NEW p \in Process, pc[p] = "slot", wake[p] <= now
  PROVE  /\ slot[p] <= now
         /\ now <= slot[p] + ReplyTook(p) + WakeJitter
         /\ \/ key # None /\ slot[p] <= key
            \/ slot[p] + Interval <= now
         /\ \A q \in Process : q # p /\ pc[q] \in Reserved =>
              \/ now + MinInterval <= slot[q] + ReplyTook(p)
              \/ slot[q] + Interval <= now
<1> USE TimingAssumption DEF SpacingInv, ReservationInv, TypeInv, TypeOK
<1>1. slot[p] <= wake[p] /\ now <= wake[p] + WakeJitter
  BY DEF SlotBeforeWake, NoOversleep
<1>2. slot[p] <= now /\ now <= slot[p] + ReplyTook(p) + WakeJitter
  BY <1>1 DEF ReplyTook, Time
<1>3. ASSUME NEW q \in Process, q # p, pc[q] \in Reserved
      PROVE  \/ now + MinInterval <= slot[q] + ReplyTook(p)
             \/ slot[q] + Interval <= now
  <2>1. \/ slot[p] + Interval <= slot[q]
        \/ slot[q] + Interval <= slot[p]
    BY <1>3 DEF ReservationsDistinct, Reserved
  <2> QED
    BY <1>1, <2>1 DEF ReplyTook, Interval, Time
<1> QED
  BY <1>2, <1>3 DEF SlotsBehindKey, Reserved

\* Two requests on reserved slots are closer than MinInterval only by as much as
\* one of their replies was late, for any number of processes, through crashes,
\* outages, lost answers and the key's expiry (wait, both limiters).
THEOREM SharedSpacing == Spec => []SpacedSends
<1>1. Init => SpacingInv
  <2>1. Init => SlotsAroundSends /\ KeyKnowsSends
    BY DEF Init, SlotsAroundSends, KeyKnowsSends
  <2>2. Init => ReservationInv
    BY TimingAssumption, QueueAssumption DEF Init, ReservationInv, TypeInv, TypeOK,
       SlotBeforeWake, NoOversleep, KeyInQueue, SlotsBehindKey, ReservationsDistinct,
       Time, Asleep, Reserved
  <2> QED
    BY <2>1, <2>2 DEF SpacingInv
<1>2. SpacingInv /\ ReservationInv' /\ [Next]_vars => SpacingInv'
  <2> SUFFICES ASSUME SpacingInv, ReservationInv', [Next]_vars
               PROVE  SlotsAroundSends' /\ KeyKnowsSends'
    BY DEF SpacingInv
  <2> USE TimingAssumption DEF SpacingInv, ReservationInv, TypeInv, TypeOK
  <2>1. CASE Tick
    BY <2>1 DEF Tick, requests, reservation, SlotsAroundSends, KeyKnowsSends, Time, None
  <2>2. CASE Outage \/ UNCHANGED vars
    BY <2>2 DEF Outage, vars, requests, reservation, SlotsAroundSends, KeyKnowsSends
  <2>3. CASE Expire
    <3>1. key + Interval <= now
      BY <2>3, ExpiryFacts
    <3>2. SlotsAroundSends'
      BY <2>3 DEF Expire, requests, reservation, SlotsAroundSends
    <3>3. KeyKnowsSends'
      BY <2>3, <3>1 DEF Expire, requests, KeyKnowsSends, Interval, Time, None
    <3> QED
      BY <3>2, <3>3
  <2>4. ASSUME NEW p \in Process, CallerStep(p)
        PROVE  SlotsAroundSends' /\ KeyKnowsSends'
    <3>1. CASE Start(p) \/ Crash(p) \/ FallBack(p) \/ ReplyLost(p)
      <4>1. /\ pc'[p] \notin Reserved
            /\ \A q \in Process \ {p} : pc'[q] = pc[q] /\ slot'[q] = slot[q]
            /\ UNCHANGED <<now, key, onSlot, lateness>>
        BY <3>1 DEF Start, Crash, FallBack, ReplyLost, Sleep, Release, requests,
           reservation, Reserved
      <4> QED
        BY <4>1 DEF SlotsAroundSends, KeyKnowsSends, Reserved
    <3>2. CASE Reply(p)
      <4>1. /\ pc[p] = "reply" /\ pc' = [pc EXCEPT ![p] = "slot"]
            /\ UNCHANGED <<now, key, slot, onSlot, lateness>>
        BY <3>2 DEF Reply, Sleep, requests
      <4> QED
        BY <4>1 DEF SlotsAroundSends, KeyKnowsSends, Reserved
    <3>3. CASE Reserve(p)
      <4>1. /\ ReserveSlot
            /\ now' = now /\ onSlot' = onSlot /\ lateness' = lateness
            /\ slot'[p] = NextSlot
            /\ \A q \in Process \ {p} : pc'[q] = pc[q] /\ slot'[q] = slot[q]
        BY <3>3 DEF Reserve, requests
      <4>2. \A q \in Process : onSlot[q] # None =>
              /\ onSlot[q] + MinInterval <= NextSlot + lateness[q]
              /\ key' # None /\ onSlot[q] <= key' + lateness[q] + WakeJitter
        BY <4>1, ReserveBeyondSends
      <4>3. SlotsAroundSends'
        BY <4>1, <4>2 DEF SlotsAroundSends, Reserved
      <4>4. KeyKnowsSends'
        BY <4>1, <4>2 DEF KeyKnowsSends
      <4> QED
        BY <4>3, <4>4
    <3>4. CASE Send(p)
      <4>1. /\ wake[p] <= now
            /\ pc'[p] \notin Reserved
            /\ \A q \in Process \ {p} : pc'[q] = pc[q] /\ slot'[q] = slot[q]
            /\ UNCHANGED <<now, key>>
        BY <3>4 DEF Send, Release, Reserved
      <4>2. CASE pc[p] # "slot"
        <5>1. onSlot' = onSlot /\ lateness' = lateness
          BY <3>4, <4>2 DEF Send
        <5> QED
          BY <4>1, <5>1 DEF SlotsAroundSends, KeyKnowsSends, Reserved
      <4>3. CASE pc[p] = "slot"
        <5>1. /\ onSlot' = [onSlot EXCEPT ![p] = now]
              /\ lateness' = [lateness EXCEPT ![p] = ReplyTook(p)]
          BY <3>4, <4>3 DEF Send
        <5>2. /\ now <= slot[p] + ReplyTook(p) + WakeJitter
              /\ \/ key # None /\ slot[p] <= key
                 \/ slot[p] + Interval <= now
              /\ \A q \in Process : q # p /\ pc[q] \in Reserved =>
                   \/ now + MinInterval <= slot[q] + ReplyTook(p)
                   \/ slot[q] + Interval <= now
          BY <4>1, <4>3, SendOnSlot
        <5>3. ReplyTook(p) \in Int
          BY DEF ReplyTook, Time
        <5>4. \/ now + MinInterval <= now + ReplyTook(p)
              \/ key # None /\ now <= key + ReplyTook(p) + WakeJitter
          BY <5>2, <5>3 DEF Interval, Time, None
        <5>5. KeyKnowsSends'
          BY <4>1, <5>1, <5>4 DEF KeyKnowsSends, Time
        <5>6. SlotsAroundSends'
          BY <4>1, <5>1, <5>2 DEF SlotsAroundSends, Interval
        <5> QED
          BY <5>5, <5>6
      <4> QED
        BY <4>2, <4>3
    <3> QED
      BY <2>4, <3>1, <3>2, <3>3, <3>4 DEF CallerStep
  <2> QED
    BY <2>1, <2>2, <2>3, <2>4 DEF Next
<1>3. SpacingInv => SpacedSends
  <2> SUFFICES ASSUME SpacingInv, NEW p \in Process, NEW q \in Process,
                      pc[p] = "slot", wake[p] <= now, onSlot[q] # None
               PROVE  \/ now - onSlot[q] + ReplyTook(p) >= MinInterval
                      \/ now - onSlot[q] + lateness[q] >= MinInterval
    BY DEF SpacedSends
  <2> USE TimingAssumption DEF SpacingInv, ReservationInv, TypeInv, TypeOK
  <2>1. /\ slot[p] <= wake[p]
        /\ now <= wake[p] + WakeJitter
        /\ onSlot[q] <= now
    BY DEF SlotBeforeWake, NoOversleep, KeyKnowsSends
  <2>2. \/ onSlot[q] + MinInterval <= slot[p] + lateness[q]
        \/ slot[p] + Interval <= onSlot[q]
    BY DEF SlotsAroundSends, Reserved
  <2> QED
    BY <2>1, <2>2 DEF ReplyTook, Interval, Time, None
<1> QED
  BY <1>1, <1>2, <1>3, ReservationsHold, PTL DEF Spec

-----------------------------------------------------------------------------
\* A kept limiter remembers its process's latest request, in whichever mode it
\* was sent, and only that one.
LastIsSent == \A p \in Process \ Fresh : last[p] = sent[p]

\* A caller that has fallen back wakes no sooner than the spacing allows; its
\* process sends nothing in between.
FallbackWaits ==
  \A p \in Process \ Fresh :
    pc[p] = "fallback" /\ sent[p] # None => sent[p] + MinInterval <= wake[p]

FallbackInv == LastIsSent /\ FallbackWaits

\* Who falls back is put to sleep until its limiter's last request is far enough
\* away (FallBack, ReplyLost).
LEMMA FallbackSleeps ==
  ASSUME TypeOK, FallbackInv, NEW p \in Process, Sleep(p, "fallback", FallbackWake(p)),
         UNCHANGED <<last, requests>>
  PROVE  FallbackInv'
<1>1. /\ pc' = [pc EXCEPT ![p] = "fallback"] /\ wake' = [wake EXCEPT ![p] = FallbackWake(p)]
      /\ UNCHANGED <<last, sent>>
  BY DEF Sleep, requests
<1>2. p \notin Fresh /\ sent[p] # None => sent[p] + MinInterval <= FallbackWake(p)
  <2>1. last[p] \in Time \cup {None} /\ MinInterval \in Nat /\ now \in Time
    BY TimingAssumption DEF TypeOK
  <2>2. last[p] # None => FallbackWake(p) >= last[p] + MinInterval /\ FallbackWake(p) \in Nat
    BY <2>1, SpacedFacts DEF FallbackWake
  <2>3. p \notin Fresh => last[p] = sent[p]
    BY DEF FallbackInv, LastIsSent
  <2> QED
    BY <2>1, <2>2, <2>3 DEF Time, None
<1>3. LastIsSent'
  BY <1>1 DEF FallbackInv, LastIsSent
<1>4. FallbackWaits'
  BY <1>1, <1>2 DEF FallbackInv, FallbackWaits, TypeOK
<1> QED
  BY <1>3, <1>4 DEF FallbackInv

\* A caller that falls back keeps its distance from its own process's latest
\* request, also one that was sent on a reserved slot (mark_sent, both limiters),
\* for any timing and through every fault.
THEOREM FallbackKeepsSpacing == Spec => []FallbackSpaced
<1>1. Init => FallbackInv
  BY DEF Init, FallbackInv, LastIsSent, FallbackWaits
<1>2. TypeOK /\ FallbackInv /\ [Next]_vars => FallbackInv'
  <2> SUFFICES ASSUME TypeOK, FallbackInv, [Next]_vars PROVE FallbackInv'
    OBVIOUS
  <2>1. CASE Tick \/ Outage \/ Expire \/ UNCHANGED vars
    BY <2>1 DEF Tick, Outage, Expire, vars, requests, FallbackInv, LastIsSent, FallbackWaits
  <2>2. ASSUME NEW p \in Process, CallerStep(p) PROVE FallbackInv'
    <3>1. CASE Start(p)
      <4>1. pc' = [pc EXCEPT ![p] = "idle"] /\ UNCHANGED <<wake, last, sent>>
        BY <3>1 DEF Start, requests
      <4> QED
        BY <4>1 DEF FallbackInv, LastIsSent, FallbackWaits, TypeOK
    <3>2. CASE Reserve(p)
      <4>1. pc' = [pc EXCEPT ![p] = "reply"] /\ UNCHANGED <<wake, last, sent>>
        BY <3>2 DEF Reserve, requests
      <4> QED
        BY <4>1 DEF FallbackInv, LastIsSent, FallbackWaits, TypeOK
    <3>3. CASE FallBack(p) \/ ReplyLost(p)
      BY <3>3, FallbackSleeps DEF FallBack, ReplyLost
    <3>4. CASE Send(p)
      <4>1. /\ pc' = [pc EXCEPT ![p] = "idle"] /\ wake' = [wake EXCEPT ![p] = 0]
            /\ sent' = [sent EXCEPT ![p] = now]
            /\ last' = [last EXCEPT ![p] = IF p \in Fresh THEN None ELSE now]
        BY <3>4 DEF Send, MarkSent
      <4> QED
        BY <4>1 DEF FallbackInv, LastIsSent, FallbackWaits, TypeOK
    <3>5. CASE Crash(p)
      <4>1. /\ pc' = [pc EXCEPT ![p] = "down"] /\ wake' = [wake EXCEPT ![p] = 0]
            /\ sent' = [sent EXCEPT ![p] = None] /\ last' = [last EXCEPT ![p] = None]
        BY <3>5 DEF Crash
      <4> QED
        BY <4>1 DEF FallbackInv, LastIsSent, FallbackWaits, TypeOK
    <3>6. CASE Reply(p)
      <4>1. /\ pc' = [pc EXCEPT ![p] = "slot"]
            /\ wake' = [wake EXCEPT ![p] = now + delay[p]]
            /\ UNCHANGED <<last, sent>>
        BY <3>6 DEF Reply, Sleep, requests
      <4> QED
        BY <4>1 DEF FallbackInv, LastIsSent, FallbackWaits, TypeOK
    <3> QED
      BY <2>2, <3>1, <3>2, <3>3, <3>4, <3>5, <3>6 DEF CallerStep
  <2> QED
    BY <2>1, <2>2 DEF Next
<1>3. TypeOK /\ FallbackInv => FallbackSpaced
  BY TimingAssumption DEF TypeOK, FallbackInv, FallbackWaits, FallbackSpaced, FarFrom, Time, None
<1> QED
  BY <1>1, <1>2, <1>3, TypeCorrect, PTL DEF Spec
=============================================================================
