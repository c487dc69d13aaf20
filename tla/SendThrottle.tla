---------------------------- MODULE SendThrottle ----------------------------
(***************************************************************************)
(* What a job asks Redis before it sends (queue/email.worker.ts 166-228):  *)
(* the tenant's rate per minute and its slot among the simultaneous sends  *)
(* (queue/tenantQuota.ts), then the hourly and the daily quota of the SMTP *)
(* server (queue/smtpQuota.ts).  One tenant, one server, the jobs that the *)
(* worker instances hold at once (one that is done makes room for the      *)
(* next, under the same name); one action per Redis round trip.            *)
(*                                                                         *)
(* A counter is a key per window; keys outlive their window, so the        *)
(* expiry of one is not visible here.                                      *)
(***************************************************************************)
EXTENDS Naturals, FiniteSets

CONSTANTS Jobs,        \* jobs in the workers' hands at once
          RatePerMinute, \* sendingLimits.ratePerMinute of the tenant, 0: none
          HourlyLimit,   \* of the SMTP server, 0: none
          DailyLimit,    \* of the SMTP server, 0: none
          SlotLimit,     \* sendingLimits.concurrency of the tenant, 0: none
          Lease,       \* LEASE_MS, in clock ticks
          HourLength,  \* clock ticks (windows of a minute) per hour
          DayLength,   \* clock ticks per day
          MaxTime,     \* bound: clock ticks
          MaxCrashes   \* bound: worker crashes

ASSUME ThrottleAssumption ==
    /\ IsFiniteSet(Jobs)
    /\ {RatePerMinute, HourlyLimit, DailyLimit, SlotLimit, MaxTime, MaxCrashes} \subseteq Nat
    /\ {Lease, HourLength, DayLength} \subseteq Nat \ {0}

Scopes == {"minute", "hour", "day"}
Limit  == [minute |-> RatePerMinute, hour |-> HourlyLimit, day |-> DailyLimit]
Ticks  == 0..MaxTime
Length == [minute |-> 1, hour |-> HourLength, day |-> DayLength]
WindowAt(s, t) == t \div Length[s]

VARIABLES
    now,      \* the clock
    used,     \* the Redis counters: used[scope][window]
    slots,    \* the ZSET tenant:<id>:inflight: jobs with the instant they were added
    pc,       \* where each job is
    window,   \* the window of each scope the job read the clock for
    since,    \* the instant the job read for its slot
    crashes,  \* workers that died (bound)
    lost,     \* history: jobs a worker died with
    spent,    \* history: reservations used, the minute's by a job that got it, the
              \* hour's and the day's by an attempt to send
    sent      \* history: messages sent in each window of the clock

locals == <<window, since>>
vars == <<now, used, slots, pc, locals, crashes, lost, spent, sent>>

Counters == [Scopes -> [Ticks -> Nat]]
Zero == [s \in Scopes |-> [w \in Ticks |-> 0]]

\* Between acquireTenantSlot and releaseTenantSlot.
SlotPc == {"quota", "hour", "undoHour", "day", "undoDay", "returnHour", "send", "release"}
UndoPc == {"undoMinute", "undoHour", "undoDay", "returnHour"}
ThrottlePc == {"idle", "minute", "prune", "count", "claim"} \cup SlotPc \cup UndoPc

Init ==
    /\ now = 0
    /\ used = Zero
    /\ slots = {}
    /\ pc = [j \in Jobs |-> "idle"]
    /\ window = [j \in Jobs |-> [s \in Scopes |-> 0]]
    /\ since = [j \in Jobs |-> 0]
    /\ crashes = 0
    /\ lost = {}
    /\ spent = Zero
    /\ sent = Zero

At(j, w) == pc[j] = w
Goto(j, w) == pc' = [pc EXCEPT ![j] = w]
KeepClock == UNCHANGED <<now, crashes, lost>>
KeepSlots == UNCHANGED <<slots, since>>
KeepCounts == UNCHANGED <<used, spent, sent>>

Add(f, s, w) == [f EXCEPT ![s][w] = @ + 1]
Subtract(f, s, w) == [f EXCEPT ![s][w] = @ - 1]
-----------------------------------------------------------------------------
(* incr, then look at the result.                                           *)
\* Mutant: the limit is compared as if the reservation were not counted yet.
ExceedsByOne(s, n) == n > Limit[s] + 1
Exceeds(s, n) == n > Limit[s]

\* One incr: granted, or to be undone by a decr. Without a limit there is no counter.
Bump(j, s, next, undo) ==
    LET w == window[j][s]
        n == used[s][w] + 1 IN
    /\ \/ Limit[s] = 0 /\ Goto(j, next) /\ UNCHANGED used
       \/ Limit[s] # 0 /\ used' = Add(used, s, w) /\ Goto(j, IF Exceeds(s, n) THEN undo ELSE next)
    /\ UNCHANGED <<sent, locals, slots>> /\ KeepClock

\* The decr of a reservation that went over the limit.
Undo(j, s, next) ==
    /\ used' = Subtract(used, s, window[j][s])
    /\ Goto(j, next)
    /\ UNCHANGED <<spent, sent, locals, slots>> /\ KeepClock

(* reserveTenantRate.  The window is the one at the moment the clock was    *)
(* read; the incr arrives later.  Refused: the job goes back to the queue.  *)
TakeJob(j) ==
    /\ At(j, "idle")
    /\ window' = [window EXCEPT ![j]["minute"] = WindowAt("minute", now)]
    /\ Goto(j, "minute")
    /\ UNCHANGED <<since, slots>> /\ KeepCounts /\ KeepClock

ReserveMinute(j) ==
    /\ At(j, "minute") /\ Bump(j, "minute", "prune", "undoMinute")
    /\ spent' = IF pc'[j] = "prune" THEN Add(spent, "minute", window[j]["minute"]) ELSE spent

UndoMinute(j) == At(j, "undoMinute") /\ Undo(j, "minute", "idle")

(* acquireTenantSlot: read the clock and prune, count, add.                 *)
PruneSlots(j) ==
    /\ At(j, "prune")
    /\ since' = [since EXCEPT ![j] = now]
    /\ slots' = {e \in slots : e.at + Lease > now}
    /\ Goto(j, "count")
    /\ UNCHANGED window /\ KeepCounts /\ KeepClock

CountSlots(j) ==
    /\ At(j, "count")
    /\ \/ SlotLimit # 0 /\ Cardinality(slots) >= SlotLimit /\ Goto(j, "idle")
       \/ SlotLimit = 0 /\ Goto(j, "quota")
       \/ SlotLimit # 0 /\ Cardinality(slots) < SlotLimit /\ Goto(j, "claim")
    /\ UNCHANGED window /\ KeepSlots /\ KeepCounts /\ KeepClock

Others(j) == {e \in slots : e.job # j}

ClaimSlot(j) ==
    /\ At(j, "claim")
    /\ slots' = Others(j) \cup {[job |-> j, at |-> since[j]]}
    /\ Goto(j, "quota")
    /\ UNCHANGED locals /\ KeepCounts /\ KeepClock

-----------------------------------------------------------------------------
(* reserveSmtpQuota: both windows come from one reading of the clock.  The  *)
(* content or the server may be missing: the job ends without a message.    *)
ReadQuotaClock(j) ==
    /\ At(j, "quota")
    /\ window' = [window EXCEPT ![j]["hour"] = WindowAt("hour", now), ![j]["day"] = WindowAt("day", now)]
    /\ Goto(j, "hour")
    /\ UNCHANGED <<since, slots>> /\ KeepCounts /\ KeepClock

NothingToSend(j) ==
    /\ At(j, "quota") /\ Goto(j, "release")
    /\ UNCHANGED window /\ KeepSlots /\ KeepCounts /\ KeepClock

ReserveHour(j) == At(j, "hour") /\ Bump(j, "hour", "day", "undoHour") /\ UNCHANGED spent

\* Mutants: a refusal leaves the slot; the hour is not given back when the day is full.
UndoHourLeaving(j) == At(j, "undoHour") /\ Undo(j, "hour", "idle")
UndoDayOnly(j) == At(j, "undoDay") /\ Undo(j, "day", "release")

UndoHour(j) == At(j, "undoHour") /\ Undo(j, "hour", "release")

ReserveDay(j) == At(j, "day") /\ Bump(j, "day", "send", "undoDay") /\ UNCHANGED spent

\* The day refuses; a reservation of the hour is given back too.
UndoDay(j) == At(j, "undoDay") /\ Undo(j, "day", IF HourlyLimit > 0 THEN "returnHour" ELSE "release")
ReturnHour(j) == At(j, "returnHour") /\ Undo(j, "hour", "release")

-----------------------------------------------------------------------------
(* The send, and the finally that returns the slot.  A job that failed for  *)
(* a while comes back and reserves anew, like the next job of the worker.   *)
Spend(j) == spent' = Add(Add(spent, "hour", window[j]["hour"]), "day", window[j]["day"])
Deliver == sent' = [s \in Scopes |-> [sent[s] EXCEPT ![WindowAt(s, now)] = @ + 1]]

\* Mutant: a message goes out again under the old reservation.
SendRepeats(j) == At(j, "send") /\ Deliver /\ UNCHANGED <<pc, used, spent, locals, slots>> /\ KeepClock

Send(j) ==
    /\ At(j, "send") /\ Spend(j) /\ Deliver
    /\ Goto(j, "release")
    /\ UNCHANGED <<used, locals, slots>> /\ KeepClock

SendFails(j) ==
    /\ At(j, "send") /\ Spend(j)
    /\ Goto(j, "release")
    /\ UNCHANGED <<used, sent, locals, slots>> /\ KeepClock

ReleaseSlot(j) ==
    /\ At(j, "release")
    /\ slots' = IF SlotLimit = 0 THEN slots ELSE Others(j)
    /\ Goto(j, "idle")
    /\ UNCHANGED locals /\ KeepCounts /\ KeepClock

-----------------------------------------------------------------------------
Tick == now < MaxTime /\ now' = now + 1
        /\ UNCHANGED <<pc, crashes, lost, locals, slots>> /\ KeepCounts

\* The worker dies: BullMQ gives the job to another one, under the same id.
WorkerDies(j) ==
    /\ crashes < MaxCrashes /\ ~At(j, "idle")
    /\ crashes' = crashes + 1
    /\ lost' = lost \cup {j}
    /\ Goto(j, "idle")
    /\ UNCHANGED <<now, window>> /\ KeepSlots /\ KeepCounts

JobStep(j) ==
    \/ TakeJob(j) \/ ReserveMinute(j) \/ UndoMinute(j)
    \/ PruneSlots(j) \/ CountSlots(j) \/ ClaimSlot(j)
    \/ ReadQuotaClock(j) \/ NothingToSend(j) \/ ReserveHour(j) \/ UndoHour(j)
    \/ ReserveDay(j) \/ UndoDay(j) \/ ReturnHour(j)
    \/ Send(j) \/ SendFails(j) \/ ReleaseSlot(j) \/ WorkerDies(j)

Next == Tick \/ \E j \in Jobs : JobStep(j)

Spec == Init /\ [][Next]_vars
-----------------------------------------------------------------------------
TypeOK ==
    /\ now \in Ticks
    /\ used \in Counters /\ spent \in Counters /\ sent \in Counters
    /\ slots \subseteq [job : Jobs, at : Ticks]
    /\ pc \in [Jobs -> ThrottlePc]
    /\ window \in [Jobs -> [Scopes -> Ticks]]
    /\ since \in [Jobs -> Ticks]
    /\ crashes \in Nat /\ lost \subseteq Jobs

\* Reservations that are counted in a window and neither spent nor given back.
HeldPc == [minute |-> {"undoMinute"}, day |-> {"undoDay", "send"},
           hour   |-> {"undoHour", "day", "undoDay", "returnHour", "send"}]
Held(s, w) == Cardinality({j \in Jobs : window[j][s] = w /\ pc[j] \in HeldPc[s]})

\* "Estourar o limite do provedor custa reputacao": however the incr and decr of the jobs
\* interleave, no more reservations of a window are spent than its limit.
ReservationsWithinLimit ==
    \A s \in Scopes, w \in Ticks : Limit[s] # 0 => spent[s][w] <= Limit[s]

\* No window is closed by reservations nobody holds: a counter says what was spent and
\* what is held, and one more at most for every worker that died.
CountersExact ==
    \A s \in Scopes, w \in Ticks : Limit[s] # 0 =>
        LET known == spent[s][w] + Held(s, w) IN
        known <= used[s][w] /\ used[s][w] <= known + crashes

\* "Deve rodar em finally": a job outside the send holds no slot of its tenant, whichever
\* way it left, unless a worker died with it.
SlotsGivenBack == \A e \in slots : pc[e.job] \in SlotPc \/ e.job \in lost

\* Windows are fixed and a message leaves after its reservation: a window's messages may
\* exceed its limit, by the jobs that reserved in an earlier one and nothing else.
SpillBounded ==
    \A s \in Scopes, w \in Ticks : Limit[s] # 0 => sent[s][w] <= Limit[s] + Cardinality(Jobs)

\* "Envios simultaneos: semaforo": no more jobs of the tenant send at once than its
\* concurrency allows.
SlotsRespected == SlotLimit # 0 => Cardinality({j \in Jobs : pc[j] \in SlotPc}) <= SlotLimit
=============================================================================
