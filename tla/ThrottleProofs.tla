--------------------------- MODULE ThrottleProofs ---------------------------
(***************************************************************************)
(* The quotas of SendThrottle hold for any number of jobs, any limits and  *)
(* any clock: no window is over-spent, no reservation leaks but by a death *)
(* of a worker, and slots come back.                                       *)
(*                                                                         *)
(* SlotInv follows a job's entry of the ZSET along its way; QuotaInv bounds *)
(* what was spent by what is granted, and compares the counters with what  *)
(* is held; SpillInv covers a window's messages by what was spent of it and *)
(* by the jobs that come from an earlier one.                              *)
(***************************************************************************)
EXTENDS SendThrottle, FiniteSetTheorems, TLAPS

\* Where each job is; without a limit nothing is claimed, and nothing undone.
PlaceInv ==
    /\ pc \in [Jobs -> ThrottlePc]
    /\ \A j \in Jobs :
        /\ pc[j] = "claim" => SlotLimit # 0
        /\ pc[j] = "undoMinute" => Limit["minute"] # 0
        /\ pc[j] \in {"undoHour", "returnHour"} => Limit["hour"] # 0
        /\ pc[j] = "undoDay" => Limit["day"] # 0

\* The ZSET holds entries of jobs that are in their send, or died in it.
SlotInv ==
    /\ \A e \in slots : e.job \in Jobs /\ (pc[e.job] \in SlotPc \/ e.job \in lost)
    /\ SlotLimit = 0 => slots = {}

\* The limits are numbers, 0 for none.
LEMMA LimitScopes ==
  /\ Limit["minute"] = RatePerMinute /\ Limit["hour"] = HourlyLimit /\ Limit["day"] = DailyLimit
  /\ \A s \in Scopes : Limit[s] \in Nat
  BY ThrottleAssumption DEF Limit, Scopes

\* Steps lead to steps, and to those of a limit only if there is one.
LEMMA PlaceStep == ASSUME PlaceInv, [Next]_vars PROVE PlaceInv'
<1> USE LimitScopes DEF PlaceInv, ThrottlePc, SlotPc, UndoPc
<1>1. ASSUME NEW j \in Jobs, JobStep(j) PROVE PlaceInv'
  <2>1. CASE TakeJob(j) \/ ReserveMinute(j) \/ UndoMinute(j)
    BY <2>1 DEF TakeJob, ReserveMinute, UndoMinute, At, Goto, Bump, Undo
  <2>2. CASE PruneSlots(j) \/ CountSlots(j) \/ ClaimSlot(j)
    BY <2>2 DEF PruneSlots, CountSlots, ClaimSlot, At, Goto
  <2>3. CASE ReadQuotaClock(j) \/ NothingToSend(j) \/ ReserveHour(j) \/ UndoHour(j)
    BY <2>3 DEF ReadQuotaClock, NothingToSend, ReserveHour, UndoHour, At, Goto, Bump, Undo
  <2>4. CASE ReserveDay(j) \/ UndoDay(j) \/ ReturnHour(j)
    BY <2>4, ThrottleAssumption DEF ReserveDay, UndoDay, ReturnHour, At, Goto, Bump, Undo
  <2>5. CASE Send(j) \/ SendFails(j) \/ ReleaseSlot(j) \/ WorkerDies(j)
    BY <2>5 DEF Send, SendFails, ReleaseSlot, WorkerDies, At, Goto
  <2> QED BY <1>1, <2>1, <2>2, <2>3, <2>4, <2>5 DEF JobStep
<1>2. CASE Tick \/ UNCHANGED vars
  BY <1>2 DEF Tick, vars
<1> QED BY <1>1, <1>2 DEF Next

\* A slot is taken in a send and given back at its end, or with the lease of a dead worker.
LEMMA SlotStep == ASSUME PlaceInv, SlotInv, [Next]_vars PROVE SlotInv'
<1> USE DEF SlotInv, PlaceInv
<1>1. ASSUME NEW j \in Jobs, JobStep(j) PROVE SlotInv'
  <2> USE DEF SlotPc, ThrottlePc, UndoPc, KeepClock, KeepSlots, locals
  <2>1. CASE TakeJob(j) \/ ReserveMinute(j) \/ UndoMinute(j)
    BY <2>1 DEF TakeJob, ReserveMinute, UndoMinute, At, Goto, Bump, Undo
  <2>2. CASE PruneSlots(j) \/ CountSlots(j)
    BY <2>2 DEF PruneSlots, CountSlots, At, Goto
  <2>3. CASE ClaimSlot(j)
    BY <2>3 DEF ClaimSlot, Others, At, Goto
  <2>4. CASE ReadQuotaClock(j) \/ NothingToSend(j) \/ ReserveHour(j) \/ UndoHour(j)
    BY <2>4 DEF ReadQuotaClock, NothingToSend, ReserveHour, UndoHour, At, Goto, Bump, Undo
  <2>5. CASE ReserveDay(j) \/ UndoDay(j) \/ ReturnHour(j) \/ Send(j) \/ SendFails(j)
    BY <2>5 DEF ReserveDay, UndoDay, ReturnHour, Send, SendFails, At, Goto, Bump, Undo
  <2>6. CASE ReleaseSlot(j)
    BY <2>6 DEF ReleaseSlot, Others, At, Goto
  <2>7. CASE WorkerDies(j)
    BY <2>7 DEF WorkerDies, At, Goto
  <2> QED BY <1>1, <2>1, <2>2, <2>3, <2>4, <2>5, <2>6, <2>7 DEF JobStep
<1>2. CASE Tick \/ UNCHANGED vars
  BY <1>2 DEF Tick, vars, locals
<1> QED BY <1>1, <1>2 DEF Next

\* releaseTenantSlot "deve rodar em finally": a job that left the send holds no slot of its
\* tenant, whichever way it left, unless a worker died with it.
THEOREM SlotsReturned == Spec => []SlotsGivenBack
<1>1. Init => PlaceInv /\ SlotInv
  BY DEF Init, PlaceInv, SlotInv, ThrottlePc
<1>2. PlaceInv /\ SlotInv /\ [Next]_vars => (PlaceInv /\ SlotInv)'
  BY PlaceStep, SlotStep
<1>3. PlaceInv /\ SlotInv => SlotsGivenBack
  BY DEF SlotInv, SlotsGivenBack
<1> QED BY <1>1, <1>2, <1>3, PTL DEF Spec
-----------------------------------------------------------------------------
(* Windows and counters.                                                    *)
LEMMA WindowIsTick ==
  ASSUME NEW t \in Ticks, NEW s \in Scopes
  PROVE  WindowAt(s, t) \in Ticks
<1>1. Length[s] \in Nat \ {0} /\ t \in Nat /\ t <= MaxTime /\ MaxTime \in Nat
  BY ThrottleAssumption DEF Length, Scopes, Ticks
<1>2. \A n \in Nat, d \in Nat \ {0} : n \div d \in Nat /\ n \div d <= n
  OBVIOUS
<1> QED BY <1>1, <1>2 DEF WindowAt, Ticks

\* Jobs whose reservation in a window is within the limit and still theirs.
GrantedPc == [minute |-> {}, hour |-> {"day", "undoDay", "returnHour", "send"}, day |-> {"send"}]
HasAt(P, j, s, w) == window[j][s] = w /\ pc[j] \in P[s]
Having(P, s, w) == {j \in Jobs : HasAt(P, j, s, w)}
Number(P, s, w) == Cardinality(Having(P, s, w))

QuotaTypes ==
    /\ now \in Ticks /\ crashes \in Nat
    /\ window \in [Jobs -> [Scopes -> Ticks]]
    /\ used \in [Scopes -> [Ticks -> Int]]
    /\ spent \in Counters

WindowInv(s, w) ==
    /\ spent[s][w] + Number(HeldPc, s, w) <= used[s][w]
    /\ used[s][w] <= spent[s][w] + Number(HeldPc, s, w) + crashes
    /\ spent[s][w] + Number(GrantedPc, s, w) <= Limit[s]

QuotaInv == QuotaTypes /\ \A s \in Scopes, w \in Ticks : Limit[s] # 0 => WindowInv(s, w)

\* However many jobs hold a window, it is a number.
LEMMA NumberType == \A P, s, w : Number(P, s, w) \in Nat
<1> SUFFICES ASSUME NEW P, NEW s, NEW w PROVE Number(P, s, w) \in Nat
  OBVIOUS
<1> QED BY ThrottleAssumption, FS_Subset, FS_CardinalityType DEF Number, Having

\* A step of one job moves it into a set, out of it, or neither.
LEMMA NumberChange ==
  ASSUME NEW j \in Jobs, NEW P, NEW s, NEW w,
         \A k \in Jobs \ {j} : HasAt(P, k, s, w)' <=> HasAt(P, k, s, w)
  PROVE  /\ HasAt(P, j, s, w) /\ ~HasAt(P, j, s, w)' => Number(P, s, w)' = Number(P, s, w) - 1
         /\ ~HasAt(P, j, s, w) /\ HasAt(P, j, s, w)' => Number(P, s, w)' = Number(P, s, w) + 1
         /\ (HasAt(P, j, s, w) <=> HasAt(P, j, s, w)') => Number(P, s, w)' = Number(P, s, w)
<1> DEFINE H == Having(P, s, w)
<1>1. IsFiniteSet(H)
  BY ThrottleAssumption, FS_Subset DEF Having
<1>2. CASE HasAt(P, j, s, w) /\ ~HasAt(P, j, s, w)'
  <2>1. Having(P, s, w)' = H \ {j} /\ j \in H
    BY <1>2 DEF Having
  <2> QED BY <1>1, <1>2, <2>1, FS_RemoveElement, FS_CardinalityType DEF Number
<1>3. CASE ~HasAt(P, j, s, w) /\ HasAt(P, j, s, w)'
  <2>1. Having(P, s, w)' = H \cup {j} /\ j \notin H
    BY <1>3 DEF Having
  <2> QED BY <1>1, <1>3, <2>1, FS_AddElement, FS_CardinalityType DEF Number
<1>4. CASE HasAt(P, j, s, w) <=> HasAt(P, j, s, w)'
  <2>1. Having(P, s, w)' = H
    BY <1>4 DEF Having
  <2> QED BY <1>4, <2>1 DEF Number
<1> QED BY <1>2, <1>3, <1>4

\* One reservation more, one less, in one window.
LEMMA AddOne ==
  ASSUME NEW T, T = Nat \/ T = Int, NEW f \in [Scopes -> [Ticks -> T]], NEW s \in Scopes, NEW w \in Ticks
  PROVE  /\ Add(f, s, w) \in [Scopes -> [Ticks -> T]]
         /\ \A r \in Scopes, v \in Ticks :
              Add(f, s, w)[r][v] = IF r = s /\ v = w THEN f[r][v] + 1 ELSE f[r][v]
  BY DEF Add

\* A counter is lowered and no other one is.
LEMMA SubtractOne ==
  ASSUME NEW f \in [Scopes -> [Ticks -> Int]], NEW s \in Scopes, NEW w \in Ticks
  PROVE  /\ Subtract(f, s, w) \in [Scopes -> [Ticks -> Int]]
         /\ \A r \in Scopes, v \in Ticks :
              Subtract(f, s, w)[r][v] = IF r = s /\ v = w THEN f[r][v] - 1 ELSE f[r][v]
  BY DEF Subtract

\* Counters and windows keep their types.
LEMMA QuotaTypesStep == ASSUME PlaceInv, QuotaTypes, [Next]_vars PROVE QuotaTypes'
<1> USE DEF QuotaTypes, Counters, KeepClock, KeepSlots, KeepCounts, locals
<1>0. /\ \A s \in Scopes : WindowAt(s, now) \in Ticks
      /\ "minute" \in Scopes /\ "hour" \in Scopes /\ "day" \in Scopes
  BY WindowIsTick DEF Scopes
<1>a. \A s \in Scopes, w \in Ticks : /\ Add(used, s, w) \in [Scopes -> [Ticks -> Int]]
                                     /\ Subtract(used, s, w) \in [Scopes -> [Ticks -> Int]]
  BY AddOne, SubtractOne
<1>b. \A f \in Counters, s \in Scopes, w \in Ticks : Add(f, s, w) \in Counters
  BY AddOne
<1>1. ASSUME NEW j \in Jobs, JobStep(j) PROVE QuotaTypes'
  <2>0. \A s \in Scopes : window[j][s] \in Ticks
    OBVIOUS
  <2>a. ASSUME NEW s \in Scopes, NEW next, Undo(j, s, next) PROVE QuotaTypes'
    BY <1>a, <2>0, <2>a DEF Undo
  <2>b. ASSUME NEW s \in Scopes, NEW next, NEW undo, Bump(j, s, next, undo), spent' \in Counters
        PROVE  QuotaTypes'
    BY <1>a, <2>0, <2>b DEF Bump
  <2>1. CASE TakeJob(j) \/ ReadQuotaClock(j)
    <3>1. window' \in [Jobs -> [Scopes -> Ticks]]
      <4>1. CASE TakeJob(j)
        <5>1. window' = [window EXCEPT ![j] = [window[j] EXCEPT !["minute"] = WindowAt("minute", now)]]
          BY <4>1 DEF TakeJob
        <5> QED BY <1>0, <5>1
      <4>2. CASE ReadQuotaClock(j)
        <5> DEFINE at == [[window[j] EXCEPT !["hour"] = WindowAt("hour", now)] EXCEPT !["day"] = WindowAt("day", now)]
        <5>1. at \in [Scopes -> Ticks]
          BY <1>0
        <5>2. window' = [window EXCEPT ![j] = at]
          BY <4>2 DEF ReadQuotaClock
        <5> QED BY <5>1, <5>2
      <4> QED BY <2>1, <4>1, <4>2
    <3> QED BY <2>1, <3>1 DEF TakeJob, ReadQuotaClock
  <2>2. CASE ReserveMinute(j) \/ UndoMinute(j)
    <3>1. spent' \in Counters
      <4>1. Add(spent, "minute", window[j]["minute"]) \in Counters /\ spent \in Counters
        BY <1>0, <1>b, <2>0
      <4>2. spent' \in {spent, Add(spent, "minute", window[j]["minute"])}
        BY <2>2 DEF ReserveMinute, UndoMinute, Undo
      <4> QED BY <4>1, <4>2
    <3> QED BY <1>0, <2>a, <2>b, <2>2, <3>1 DEF ReserveMinute, UndoMinute
  <2>3. CASE PruneSlots(j) \/ CountSlots(j) \/ ClaimSlot(j) \/ NothingToSend(j) \/ ReleaseSlot(j)
    BY <2>3 DEF PruneSlots, CountSlots, ClaimSlot, NothingToSend, ReleaseSlot
  <2>4. CASE ReserveHour(j) \/ UndoHour(j) \/ ReturnHour(j)
    BY <1>0, <2>a, <2>b, <2>4 DEF ReserveHour, UndoHour, ReturnHour
  <2>5. CASE ReserveDay(j) \/ UndoDay(j)
    BY <1>0, <2>a, <2>b, <2>5 DEF ReserveDay, UndoDay
  <2>6. CASE Send(j) \/ SendFails(j)
    <3>1. spent' = Add(Add(spent, "hour", window[j]["hour"]), "day", window[j]["day"])
      BY <2>6 DEF Send, SendFails, Spend
    <3>2. Add(spent, "hour", window[j]["hour"]) \in Counters
      BY <1>0, <1>b, <2>0
    <3>3. spent' \in Counters
      BY <1>0, <1>b, <2>0, <3>1, <3>2
    <3> QED BY <2>6, <3>3 DEF Send, SendFails
  <2>7. CASE WorkerDies(j)
    BY <2>7 DEF WorkerDies
  <2> QED BY <1>1, <2>1, <2>2, <2>3, <2>4, <2>5, <2>6, <2>7 DEF JobStep
<1>2. CASE Tick
  <2>1. now' \in Ticks
    BY <1>2, ThrottleAssumption DEF Tick, Ticks
  <2> QED BY <1>2, <2>1 DEF Tick
<1>3. CASE UNCHANGED vars
  BY <1>3 DEF vars
<1> QED BY <1>1, <1>2, <1>3 DEF Next

\* A step of one job moves no other one.
LEMMA JobFrame ==
  ASSUME PlaceInv, QuotaTypes, NEW j \in Jobs, JobStep(j), NEW k \in Jobs \ {j}
  PROVE  pc'[k] = pc[k] /\ window'[k] = window[k]
<1> USE DEF PlaceInv, QuotaTypes, KeepClock, KeepSlots, KeepCounts, locals, Goto
<1>1. CASE TakeJob(j) \/ ReserveMinute(j) \/ UndoMinute(j) \/ PruneSlots(j) \/ CountSlots(j) \/ ClaimSlot(j)
  BY <1>1 DEF TakeJob, ReserveMinute, UndoMinute, PruneSlots, CountSlots, ClaimSlot, Bump, Undo
<1>2. CASE ReadQuotaClock(j) \/ NothingToSend(j) \/ ReserveHour(j) \/ UndoHour(j) \/ ReserveDay(j) \/ UndoDay(j)
  BY <1>2 DEF ReadQuotaClock, NothingToSend, ReserveHour, UndoHour, ReserveDay, UndoDay, Bump, Undo
<1>3. CASE ReturnHour(j) \/ Send(j) \/ SendFails(j) \/ ReleaseSlot(j) \/ WorkerDies(j)
  BY <1>3 DEF ReturnHour, Send, SendFails, ReleaseSlot, WorkerDies, Undo
<1> QED BY <1>1, <1>2, <1>3 DEF JobStep

\* What a step of one job does to one window.
LEMMA WindowStep ==
  ASSUME PlaceInv, QuotaTypes, QuotaTypes', NEW j \in Jobs, JobStep(j),
         NEW s \in Scopes, NEW w \in Ticks, Limit[s] # 0, WindowInv(s, w)
  PROVE  WindowInv(s, w)'
<1>1. ASSUME NEW P
      PROVE  /\ HasAt(P, j, s, w) /\ ~HasAt(P, j, s, w)' => Number(P, s, w)' = Number(P, s, w) - 1
             /\ ~HasAt(P, j, s, w) /\ HasAt(P, j, s, w)' => Number(P, s, w)' = Number(P, s, w) + 1
             /\ (HasAt(P, j, s, w) <=> HasAt(P, j, s, w)') => Number(P, s, w)' = Number(P, s, w)
  <2>1. \A k \in Jobs \ {j} : HasAt(P, k, s, w)' <=> HasAt(P, k, s, w)
    BY JobFrame DEF HasAt
  <2> QED BY <2>1, NumberChange
<1> DEFINE held == Number(HeldPc, s, w)
           granted == Number(GrantedPc, s, w)
           Holds == window[j][s] = w /\ pc[j] \in HeldPc[s]
           Granted == window[j][s] = w /\ pc[j] \in GrantedPc[s]
<1>2. /\ Holds /\ ~Holds' => held' = held - 1
      /\ ~Holds /\ Holds' => held' = held + 1
      /\ (Holds <=> Holds') => held' = held
  BY <1>1 DEF HasAt
<1>3. /\ Granted /\ ~Granted' => granted' = granted - 1
      /\ ~Granted /\ Granted' => granted' = granted + 1
      /\ (Granted <=> Granted') => granted' = granted
  BY <1>1 DEF HasAt
<1>4. /\ held \in Nat /\ granted \in Nat
      /\ Limit[s] \in Nat /\ crashes \in Nat /\ used[s][w] \in Int /\ spent[s][w] \in Nat
      /\ pc[j] \in ThrottlePc /\ \A r \in Scopes : window[j][r] \in Ticks
  BY NumberType, LimitScopes DEF QuotaTypes, PlaceInv, Counters
<1>5. /\ s \in {"minute", "hour", "day"} /\ {"minute", "hour", "day"} \subseteq Scopes
      /\ HeldPc["minute"] = {"undoMinute"} /\ HeldPc["day"] = {"undoDay", "send"}
      /\ HeldPc["hour"] = {"undoHour", "day", "undoDay", "returnHour", "send"}
      /\ GrantedPc["minute"] = {} /\ GrantedPc["day"] = {"send"}
      /\ GrantedPc["hour"] = {"day", "undoDay", "returnHour", "send"}
  BY DEF Scopes, HeldPc, GrantedPc
<1>14. granted <= held
  <2>1. Having(GrantedPc, s, w) \subseteq Having(HeldPc, s, w)
    BY <1>5 DEF Having, HasAt
  <2>2. IsFiniteSet(Having(HeldPc, s, w))
    BY ThrottleAssumption, FS_Subset DEF Having
  <2> QED BY <2>1, <2>2, FS_Subset DEF Number
<1>6. /\ spent[s][w] + held <= used[s][w]
      /\ used[s][w] <= spent[s][w] + held + crashes
      /\ spent[s][w] + granted <= Limit[s]
  BY DEF WindowInv
<1> HIDE DEF held, granted
<1> SUFFICES /\ spent'[s][w] + held' <= used'[s][w]
             /\ used'[s][w] <= spent'[s][w] + held' + crashes'
             /\ spent'[s][w] + granted' <= Limit[s]
  BY DEF WindowInv, held, granted
<1>7. \A r \in Scopes, v \in Ticks :
        /\ Add(used, r, v)[s][w] = IF r = s /\ v = w THEN used[s][w] + 1 ELSE used[s][w]
        /\ Subtract(used, r, v)[s][w] = IF r = s /\ v = w THEN used[s][w] - 1 ELSE used[s][w]
  <2> SUFFICES ASSUME NEW r \in Scopes, NEW v \in Ticks
               PROVE  /\ Add(used, r, v)[s][w] = IF r = s /\ v = w THEN used[s][w] + 1 ELSE used[s][w]
                      /\ Subtract(used, r, v)[s][w] = IF r = s /\ v = w THEN used[s][w] - 1 ELSE used[s][w]
    OBVIOUS
  <2> QED BY DEF QuotaTypes, Add, Subtract
<1>15. \A r \in Scopes, v \in Ticks :
        Add(spent, r, v)[s][w] = IF r = s /\ v = w THEN spent[s][w] + 1 ELSE spent[s][w]
  BY DEF QuotaTypes, Counters, Add
<1>8. CASE \/ TakeJob(j) \/ PruneSlots(j) \/ CountSlots(j) \/ ClaimSlot(j) \/ ReadQuotaClock(j)
           \/ NothingToSend(j) \/ ReleaseSlot(j)
  BY <1>2, <1>3, <1>4, <1>5, <1>6, <1>8 DEF TakeJob, PruneSlots, CountSlots, ClaimSlot, ReadQuotaClock, NothingToSend,
     ReleaseSlot, At, Goto, KeepCounts, KeepClock, locals, PlaceInv
<1>9. CASE ReserveMinute(j)
  BY <1>2, <1>3, <1>4, <1>5, <1>6, <1>7, <1>9, <1>14, <1>15
  DEF ReserveMinute, Bump, Exceeds, At, Goto, KeepClock, locals, PlaceInv
<1>10. CASE ReserveHour(j) \/ ReserveDay(j)
  BY <1>2, <1>3, <1>4, <1>5, <1>6, <1>7, <1>10, <1>14
  DEF ReserveHour, ReserveDay, Bump, Exceeds, At, Goto, KeepClock, locals, PlaceInv
<1>11. CASE UndoMinute(j) \/ UndoHour(j) \/ UndoDay(j) \/ ReturnHour(j)
  BY <1>2, <1>3, <1>4, <1>5, <1>6, <1>7, <1>11, LimitScopes
  DEF UndoMinute, UndoHour, UndoDay, ReturnHour, Undo, At, Goto, KeepClock, locals, PlaceInv
<1>12. CASE Send(j) \/ SendFails(j)
  <2> DEFINE first == Add(spent, "hour", window[j]["hour"])
  <2>1. spent' = Add(first, "day", window[j]["day"])
    BY <1>12 DEF Send, SendFails, Spend
  <2>2. first \in Counters
    BY <1>4, <1>5, AddOne DEF QuotaTypes, Counters
  <2>3. spent'[s][w] = IF s = "day" /\ window[j]["day"] = w THEN first[s][w] + 1 ELSE first[s][w]
    BY <1>4, <1>5, <2>1, <2>2 DEF Counters, Add
  <2>4. first[s][w] = IF s = "hour" /\ window[j]["hour"] = w THEN spent[s][w] + 1 ELSE spent[s][w]
    BY <1>4, <1>5, <1>15
  <2> HIDE DEF first
  <2> QED BY <1>2, <1>3, <1>4, <1>5, <1>6, <1>12, <2>3, <2>4
      DEF Send, SendFails, At, Goto, KeepClock, locals, PlaceInv
<1>13. CASE WorkerDies(j)
  BY <1>2, <1>3, <1>4, <1>5, <1>6, <1>13 DEF WorkerDies, Goto, KeepCounts, PlaceInv
<1> QED BY <1>8, <1>9, <1>10, <1>11, <1>12, <1>13 DEF JobStep

\* Every step keeps the counters of every window.
LEMMA QuotaStep == ASSUME PlaceInv, QuotaInv, [Next]_vars PROVE QuotaInv'
<1>1. QuotaTypes'
  BY QuotaTypesStep DEF QuotaInv
<1>2. ASSUME NEW j \in Jobs, JobStep(j), NEW s \in Scopes, NEW w \in Ticks, Limit[s] # 0
      PROVE  WindowInv(s, w)'
  BY <1>1, <1>2, WindowStep DEF QuotaInv
<1>3. CASE Tick \/ UNCHANGED vars
  <2>1. \A s \in Scopes, w \in Ticks : WindowInv(s, w)' = WindowInv(s, w)
    BY <1>3 DEF Tick, vars, locals, KeepCounts, WindowInv, Number, Having, HasAt
  <2> QED BY <1>1, <2>1 DEF QuotaInv
<1> QED BY <1>1, <1>2, <1>3 DEF QuotaInv, Next
\* Nothing is counted yet.
LEMMA QuotaInit == Init => QuotaInv
<1> SUFFICES ASSUME Init PROVE QuotaInv
  OBVIOUS
<1>1. QuotaTypes
  BY ThrottleAssumption DEF Init, QuotaTypes, Counters, Zero, Ticks
<1>2. ASSUME NEW s \in Scopes, NEW w \in Ticks PROVE WindowInv(s, w)
  <2>1. \A P \in {HeldPc, GrantedPc} : Having(P, s, w) = {}
    BY DEF Init, Having, HasAt, HeldPc, GrantedPc, Scopes
  <2>2. Number(HeldPc, s, w) = 0 /\ Number(GrantedPc, s, w) = 0
    BY <2>1, FS_EmptySet DEF Number
  <2> QED BY <2>2, LimitScopes DEF Init, WindowInv, Zero
<1> QED BY <1>1, <1>2 DEF QuotaInv

\* The invariant always holds.
LEMMA QuotaInvariant == Spec => [](PlaceInv /\ QuotaInv)
<1>1. Init => PlaceInv /\ QuotaInv
  BY QuotaInit DEF Init, PlaceInv, ThrottlePc
<1>2. PlaceInv /\ QuotaInv /\ [Next]_vars => (PlaceInv /\ QuotaInv)'
  BY PlaceStep, QuotaStep
<1> QED BY <1>1, <1>2, PTL DEF Spec

\* "Estourar o limite do provedor custa reputacao": for any number of jobs and any
\* interleaving of their commands, no more reservations of a window are spent than its limit.
THEOREM QuotasKept == Spec => []ReservationsWithinLimit
<1>1. QuotaInv => ReservationsWithinLimit
  <2> SUFFICES ASSUME QuotaInv, NEW s \in Scopes, NEW w \in Ticks, Limit[s] # 0
               PROVE  spent[s][w] <= Limit[s]
    BY DEF ReservationsWithinLimit
  <2>1. spent[s][w] \in Nat /\ Limit[s] \in Nat /\ Number(GrantedPc, s, w) \in Nat
    BY NumberType, LimitScopes DEF QuotaInv, QuotaTypes, Counters
  <2> QED BY <2>1 DEF QuotaInv, WindowInv
<1> QED BY <1>1, QuotaInvariant, PTL

\* No window is closed by reservations nobody holds: a counter says what was spent and what
\* is held, and one more at most for every worker that died.
THEOREM CountersKept == Spec => []CountersExact
<1>1. QuotaInv => CountersExact
  <2> SUFFICES ASSUME QuotaInv, NEW s \in Scopes, NEW w \in Ticks, Limit[s] # 0
               PROVE  /\ spent[s][w] + Held(s, w) <= used[s][w]
                      /\ used[s][w] <= spent[s][w] + Held(s, w) + crashes
    BY DEF CountersExact
  <2>1. Held(s, w) = Number(HeldPc, s, w)
    BY DEF Held, Number, Having, HasAt
  <2> QED BY <2>1 DEF QuotaInv, WindowInv
<1> QED BY <1>1, QuotaInvariant, PTL
-----------------------------------------------------------------------------
(* Messages and windows.  A message is covered by a reservation of the      *)
(* window it falls into, or its job read the clock in an earlier one: such  *)
(* a job crosses into a window once, for it reads the clock again before    *)
(* its next message.                                                        *)
Ready == {"prune", "count", "claim", "quota", "hour", "day", "send"}
\* Jobs whose reservation is spent already and whose message is not sent yet.
PendingPc == [minute |-> Ready, hour |-> {}, day |-> {}]
\* Jobs that read the clock and may still send for what they read.
StalePc == [minute |-> Ready \cup {"minute"}, hour |-> {"hour", "day", "send"}, day |-> {"hour", "day", "send"}]
Late(j, s, w) == window[j][s] < w /\ pc[j] \in StalePc[s]
LateJobs(s, w) == {j \in Jobs : Late(j, s, w)}

SpillTypes == sent \in Counters /\ \A j \in Jobs, s \in Scopes : window[j][s] <= WindowAt(s, now)

SpillWindow(s, w) ==
    /\ w > WindowAt(s, now) => sent[s][w] = 0
    /\ sent[s][w] + Number(PendingPc, s, w) + Cardinality(LateJobs(s, w)) <= spent[s][w] + Cardinality(Jobs)

SpillInv == SpillTypes /\ \A s \in Scopes, w \in Ticks : Limit[s] # 0 => SpillWindow(s, w)

\* A later instant is in the same window or in a later one.
LEMMA LaterWindow ==
  ASSUME NEW t \in Ticks, NEW s \in Scopes
  PROVE  WindowAt(s, t) \in Nat /\ WindowAt(s, t) <= WindowAt(s, t + 1)
<1>1. Length[s] \in Nat \ {0} /\ t \in Nat
  BY ThrottleAssumption DEF Length, Scopes, Ticks
<1>2. ASSUME NEW d \in Nat \ {0}, NEW n \in Nat PROVE n \div d \in Nat /\ n \div d <= (n + 1) \div d
  BY SMT
<1> QED BY <1>1, <1>2 DEF WindowAt

\* The late jobs are jobs, and a step of one job changes their number by one at most.
LEMMA LateChange ==
  ASSUME NEW j \in Jobs, NEW s, NEW w, \A k \in Jobs \ {j} : Late(k, s, w)' <=> Late(k, s, w)
  PROVE  LET n == Cardinality(LateJobs(s, w)) IN
         /\ Late(j, s, w) /\ ~Late(j, s, w)' => n' = n - 1
         /\ ~Late(j, s, w) /\ Late(j, s, w)' => n' = n + 1
         /\ (Late(j, s, w) <=> Late(j, s, w)') => n' = n
<1> DEFINE H == LateJobs(s, w)
<1>1. IsFiniteSet(H)
  BY ThrottleAssumption, FS_Subset DEF LateJobs
<1>2. CASE Late(j, s, w) /\ ~Late(j, s, w)'
  <2>1. LateJobs(s, w)' = H \ {j} /\ j \in H
    BY <1>2 DEF LateJobs
  <2> QED BY <1>1, <1>2, <2>1, FS_RemoveElement, FS_CardinalityType
<1>3. CASE ~Late(j, s, w) /\ Late(j, s, w)'
  <2>1. LateJobs(s, w)' = H \cup {j} /\ j \notin H
    BY <1>3 DEF LateJobs
  <2> QED BY <1>1, <1>3, <2>1, FS_AddElement, FS_CardinalityType
<1>4. CASE Late(j, s, w) <=> Late(j, s, w)'
  <2>1. LateJobs(s, w)' = H
    BY <1>4 DEF LateJobs
  <2> QED BY <1>4, <2>1
<1> QED BY <1>2, <1>3, <1>4

\* There are no more late jobs than jobs.
LEMMA LateJobsBound ==
  ASSUME NEW s, NEW w
  PROVE  /\ Cardinality(LateJobs(s, w)) \in Nat /\ Cardinality(Jobs) \in Nat
         /\ Cardinality(LateJobs(s, w)) <= Cardinality(Jobs)
BY ThrottleAssumption, FS_Subset, FS_CardinalityType DEF LateJobs

\* One reservation more is counted in its window.
LEMMA CountOne ==
  ASSUME NEW f \in Counters, NEW r \in Scopes, NEW v \in Ticks
  PROVE  /\ Add(f, r, v) \in Counters
         /\ \A s \in Scopes, w \in Ticks :
              Add(f, r, v)[s][w] = IF s = r /\ w = v THEN f[s][w] + 1 ELSE f[s][w]
BY DEF Add, Counters

\* A message counts in the windows of the instant it leaves, and in no other one.
LEMMA DeliverCounts ==
  ASSUME sent \in Counters, now \in Ticks, Deliver
  PROVE  /\ sent' \in Counters
         /\ \A s \in Scopes, w \in Ticks :
              sent'[s][w] = IF w = WindowAt(s, now) THEN sent[s][w] + 1 ELSE sent[s][w]
<1> DEFINE after(s) == [sent[s] EXCEPT ![WindowAt(s, now)] = @ + 1]
<1>1. \A s \in Scopes : WindowAt(s, now) \in Ticks /\ sent[s] \in [Ticks -> Nat]
  BY WindowIsTick DEF Counters
<1>2. ASSUME NEW s \in Scopes
      PROVE  /\ after(s) \in [Ticks -> Nat]
             /\ \A w \in Ticks : after(s)[w] = IF w = WindowAt(s, now) THEN sent[s][w] + 1 ELSE sent[s][w]
  BY <1>1
<1>3. sent' = [s \in Scopes |-> after(s)]
  BY DEF Deliver
<1> HIDE DEF after
<1> QED BY <1>2, <1>3 DEF Counters

\* Messages are counted, and no job read a clock that is ahead.
LEMMA SpillTypesStep == ASSUME PlaceInv, QuotaTypes, SpillTypes, [Next]_vars PROVE SpillTypes'
<1> USE DEF SpillTypes, KeepClock, KeepSlots, KeepCounts, locals
<1>0. now \in Ticks /\ window \in [Jobs -> [Scopes -> Ticks]]
  BY DEF QuotaTypes
<1>1. ASSUME NEW j \in Jobs, JobStep(j) PROVE SpillTypes'
  <2>1. CASE TakeJob(j) \/ ReadQuotaClock(j)
    <3>1. UNCHANGED <<sent, now>>
      BY <2>1 DEF TakeJob, ReadQuotaClock
    <3>2. \A s \in Scopes : WindowAt(s, now) \in Nat
      BY <1>0, LaterWindow
    <3>3. ASSUME NEW k \in Jobs, NEW s \in Scopes PROVE window'[k][s] \in {window[k][s], WindowAt(s, now)}
      <4>1. CASE TakeJob(j)
        BY <1>0, <4>1 DEF TakeJob
      <4>2. CASE ReadQuotaClock(j)
        <5> DEFINE at == [[window[j] EXCEPT !["hour"] = WindowAt("hour", now)] EXCEPT !["day"] = WindowAt("day", now)]
        <5>1. at[s] \in {window[j][s], WindowAt(s, now)}
          BY <1>0
        <5>2. window' = [window EXCEPT ![j] = at]
          BY <4>2 DEF ReadQuotaClock
        <5> HIDE DEF at
        <5> QED BY <1>0, <5>1, <5>2
      <4> QED BY <2>1, <4>1, <4>2
    <3>4. \A k \in Jobs, s \in Scopes : window'[k][s] <= WindowAt(s, now)
      BY <3>2, <3>3
    <3>5. \A s \in Scopes : WindowAt(s, now)' = WindowAt(s, now)
      BY <3>1 DEF WindowAt
    <3> QED BY <3>1, <3>4, <3>5
  <2>2. CASE Send(j)
    BY <1>0, <2>2, DeliverCounts DEF Send, WindowAt
  <2>3. CASE ReserveMinute(j) \/ UndoMinute(j) \/ ReserveHour(j) \/ UndoHour(j) \/ ReturnHour(j)
    BY <2>3 DEF ReserveMinute, UndoMinute, ReserveHour, UndoHour, ReturnHour, Bump, Undo, WindowAt
  <2>4. CASE ReserveDay(j) \/ UndoDay(j) \/ SendFails(j) \/ WorkerDies(j)
    BY <2>4 DEF ReserveDay, UndoDay, SendFails, WorkerDies, Bump, Undo, WindowAt
  <2>5. CASE PruneSlots(j) \/ CountSlots(j) \/ ClaimSlot(j) \/ NothingToSend(j) \/ ReleaseSlot(j)
    BY <2>5 DEF PruneSlots, CountSlots, ClaimSlot, NothingToSend, ReleaseSlot, WindowAt
  <2> QED BY <1>1, <2>1, <2>2, <2>3, <2>4, <2>5 DEF JobStep
<1>2. CASE Tick
  <2>1. sent' = sent /\ window' = window /\ now' = now + 1
    BY <1>2 DEF Tick
  <2>2. ASSUME NEW k \in Jobs, NEW s \in Scopes PROVE window[k][s] <= WindowAt(s, now + 1)
    <3>1. window[k][s] \in Nat /\ window[k][s] <= WindowAt(s, now)
      BY <1>0, ThrottleAssumption DEF Ticks
    <3>2. WindowAt(s, now + 1) \in Nat
      <4>1. Length[s] \in Nat \ {0} /\ now + 1 \in Nat
        BY <1>0, ThrottleAssumption DEF Length, Scopes, Ticks
      <4>2. ASSUME NEW d \in Nat \ {0}, NEW n \in Nat PROVE n \div d \in Nat
        BY SMT
      <4> QED BY <4>1, <4>2 DEF WindowAt
    <3> QED BY <1>0, <3>1, <3>2, LaterWindow
  <2> QED BY <2>1, <2>2 DEF WindowAt
<1>3. CASE UNCHANGED vars
  BY <1>3 DEF vars, WindowAt
<1> QED BY <1>1, <1>2, <1>3 DEF Next


\* What a step of one job does to the messages of one window.
LEMMA SpillWindowStep ==
  ASSUME PlaceInv, QuotaTypes, QuotaTypes', SpillTypes, SpillTypes', NEW j \in Jobs, JobStep(j),
         NEW s \in Scopes, NEW w \in Ticks, Limit[s] # 0, SpillWindow(s, w)
  PROVE  SpillWindow(s, w)'
<1> DEFINE pending == Number(PendingPc, s, w)
           late == Cardinality(LateJobs(s, w))
           Pends == window[j][s] = w /\ pc[j] \in PendingPc[s]
           IsLate == window[j][s] < w /\ pc[j] \in StalePc[s]
           cur == WindowAt(s, now)
<1>1. /\ Pends /\ ~Pends' => pending' = pending - 1
      /\ ~Pends /\ Pends' => pending' = pending + 1
      /\ (Pends <=> Pends') => pending' = pending
  <2>1. \A k \in Jobs \ {j} : HasAt(PendingPc, k, s, w)' <=> HasAt(PendingPc, k, s, w)
    BY JobFrame DEF HasAt
  <2> QED BY <2>1, NumberChange DEF HasAt
<1>2. /\ IsLate /\ ~IsLate' => late' = late - 1
      /\ ~IsLate /\ IsLate' => late' = late + 1
      /\ (IsLate <=> IsLate') => late' = late
  <2>1. \A k \in Jobs \ {j} : Late(k, s, w)' <=> Late(k, s, w)
    BY JobFrame DEF Late
  <2> QED BY <2>1, LateChange DEF Late
<1>3. /\ now' = now /\ cur' = cur
      /\ w # cur => sent'[s][w] = sent[s][w]
      /\ Send(j) /\ w = cur => sent'[s][w] = sent[s][w] + 1
      /\ ~Send(j) => sent'[s][w] = sent[s][w]
  <2>1. CASE Send(j)
    BY <2>1, DeliverCounts DEF Send, KeepClock, SpillTypes, QuotaTypes, WindowAt
  <2>2. CASE ~Send(j)
    <3>1. sent' = sent /\ now' = now
      BY <2>2 DEF JobStep, TakeJob, ReserveMinute, UndoMinute, PruneSlots, CountSlots, ClaimSlot, ReadQuotaClock,
         NothingToSend, ReserveHour, UndoHour, ReserveDay, UndoDay, ReturnHour, SendFails, ReleaseSlot, WorkerDies,
         Bump, Undo, KeepClock, KeepCounts
    <3> QED BY <2>2, <3>1 DEF WindowAt
  <2> QED BY <2>1, <2>2
<1>4. /\ pending \in Nat /\ late \in Nat /\ sent[s][w] \in Nat /\ spent[s][w] \in Nat /\ spent'[s][w] \in Nat
      /\ Cardinality(Jobs) \in Nat /\ w \in Nat /\ cur \in Nat
      /\ pc[j] \in ThrottlePc /\ \A r \in Scopes : window[j][r] \in Nat /\ window[j][r] <= WindowAt(r, now)
  <2>1. pending \in Nat /\ late \in Nat /\ Cardinality(Jobs) \in Nat
    BY NumberType, LateJobsBound
  <2>2. cur \in Nat /\ w \in Nat /\ pc[j] \in ThrottlePc
    BY LaterWindow, ThrottleAssumption DEF QuotaTypes, PlaceInv, Ticks
  <2>3. sent[s][w] \in Nat /\ spent[s][w] \in Nat /\ spent'[s][w] \in Nat
    BY DEF QuotaTypes, SpillTypes, Counters
  <2>4. \A r \in Scopes : window[j][r] \in Nat /\ window[j][r] <= WindowAt(r, now)
    BY ThrottleAssumption DEF QuotaTypes, SpillTypes, Ticks
  <2> QED BY <2>1, <2>2, <2>3, <2>4
<1>5. /\ s \in {"minute", "hour", "day"} /\ {"minute", "hour", "day"} \subseteq Scopes
      /\ PendingPc["minute"] = Ready /\ PendingPc["hour"] = {} /\ PendingPc["day"] = {}
      /\ StalePc["minute"] = Ready \cup {"minute"}
      /\ StalePc["hour"] = {"hour", "day", "send"} /\ StalePc["day"] = {"hour", "day", "send"}
  BY DEF Scopes, PendingPc, StalePc
<1>6. /\ w > cur => sent[s][w] = 0
      /\ sent[s][w] + pending + late <= spent[s][w] + Cardinality(Jobs)
  BY DEF SpillWindow
<1>7. ASSUME w > cur PROVE pending' = 0 /\ late' <= Cardinality(Jobs) /\ late' \in Nat
  <2>1. Having(PendingPc, s, w)' = {}
    <3>1. \A k \in Jobs : window'[k][s] \in Nat /\ window'[k][s] <= cur
      BY <1>3, ThrottleAssumption DEF SpillTypes, QuotaTypes, Ticks
    <3> QED BY <1>4, <1>7, <3>1 DEF Having, HasAt
  <2>2. (LateJobs(s, w) \subseteq Jobs)'
    BY DEF LateJobs
  <2> QED BY <2>1, <2>2, ThrottleAssumption, FS_EmptySet, FS_Subset, FS_CardinalityType DEF Number
<1> HIDE DEF pending, late, cur
<1> SUFFICES /\ w > cur' => sent'[s][w] = 0
             /\ sent'[s][w] + pending' + late' <= spent'[s][w] + Cardinality(Jobs)
  BY DEF SpillWindow, pending, late, cur
<1>8. CASE w > cur
  <2>1. sent'[s][w] = 0 /\ pending' = 0 /\ late' <= Cardinality(Jobs) /\ late' \in Nat
    BY <1>3, <1>4, <1>6, <1>7, <1>8
  <2> QED BY <1>4, <2>1
<1>9. CASE w <= cur
  <2>1. CASE PruneSlots(j) \/ CountSlots(j) \/ ClaimSlot(j) \/ NothingToSend(j) \/ ReleaseSlot(j)
    BY <1>1, <1>2, <1>3, <1>4, <1>5, <1>6, <1>9, <2>1
    DEF PruneSlots, CountSlots, ClaimSlot, NothingToSend, ReleaseSlot, At, Goto, KeepCounts, locals, PlaceInv, Ready, Send
  <2>2. CASE TakeJob(j)
    <3>1. window'[j][s] = IF s = "minute" THEN cur ELSE window[j][s]
      BY <2>2 DEF TakeJob, QuotaTypes, cur
    <3>2. pc[j] = "idle" /\ pc'[j] = "minute" /\ spent' = spent /\ ~Send(j)
      BY <2>2 DEF TakeJob, At, Goto, KeepCounts, PlaceInv, Send
    <3> QED BY <1>1, <1>2, <1>3, <1>4, <1>5, <1>6, <1>9, <3>1, <3>2 DEF Ready
  <2>3. CASE ReadQuotaClock(j)
    <3>1. window'[j][s] = IF s = "minute" THEN window[j][s] ELSE cur
      <4> DEFINE at == [[window[j] EXCEPT !["hour"] = WindowAt("hour", now)] EXCEPT !["day"] = WindowAt("day", now)]
      <4>1. at[s] = IF s = "minute" THEN window[j][s] ELSE cur
        BY <1>5 DEF QuotaTypes, cur
      <4>2. window' = [window EXCEPT ![j] = at]
        BY <2>3 DEF ReadQuotaClock
      <4> HIDE DEF at
      <4> QED BY <4>1, <4>2 DEF QuotaTypes
    <3>2. pc[j] = "quota" /\ pc'[j] = "hour" /\ spent' = spent /\ ~Send(j)
      BY <2>3 DEF ReadQuotaClock, At, Goto, KeepCounts, PlaceInv, Send
    <3> QED BY <1>1, <1>2, <1>3, <1>4, <1>5, <1>6, <1>9, <3>1, <3>2 DEF Ready
  <2>4. CASE ReserveMinute(j)
    <3>1. window' = window /\ pc[j] = "minute" /\ pc'[j] \in {"prune", "undoMinute"} /\ ~Send(j)
      BY <2>4 DEF ReserveMinute, Bump, At, Goto, locals, PlaceInv, Send
    <3>2. spent'[s][w] = IF pc'[j] = "prune" /\ s = "minute" /\ w = window[j][s] THEN spent[s][w] + 1 ELSE spent[s][w]
      BY <1>5, <2>4, AddOne DEF ReserveMinute, QuotaTypes, Counters
    <3> QED BY <1>1, <1>2, <1>3, <1>4, <1>5, <1>6, <1>9, <3>1, <3>2 DEF Ready
  <2>5. CASE ReserveHour(j) \/ ReserveDay(j)
    <3>1. window' = window /\ spent' = spent /\ ~Send(j) /\ pc[j] \in {"hour", "day"}
      BY <2>5 DEF ReserveHour, ReserveDay, Bump, At, locals, Send
    <3>2. \/ pc[j] = "hour" /\ pc'[j] \in {"day", "undoHour"}
          \/ pc[j] = "day" /\ pc'[j] \in {"send", "undoDay"}
      BY <2>5 DEF ReserveHour, ReserveDay, Bump, At, Goto, PlaceInv
    <3> QED BY <1>1, <1>2, <1>3, <1>4, <1>5, <1>6, <1>9, <3>1, <3>2 DEF Ready
  <2>6. CASE UndoMinute(j) \/ UndoHour(j) \/ UndoDay(j) \/ ReturnHour(j) \/ WorkerDies(j)
    <3>1. window' = window /\ spent' = spent
      BY <2>6 DEF UndoMinute, UndoHour, UndoDay, ReturnHour, WorkerDies, Undo, KeepCounts, locals
    <3>2. pc'[j] \in {"idle", "release", "returnHour"}
      BY <2>6 DEF UndoMinute, UndoHour, UndoDay, ReturnHour, WorkerDies, Undo, Goto, PlaceInv
    <3>3. ~Send(j)
      <4>1. CASE WorkerDies(j)
        BY <4>1 DEF WorkerDies, Goto, Send, PlaceInv
      <4>2. CASE UndoMinute(j) \/ UndoHour(j) \/ UndoDay(j) \/ ReturnHour(j)
        BY <4>2 DEF UndoMinute, UndoHour, UndoDay, ReturnHour, At, Send
      <4> QED BY <2>6, <4>1, <4>2
    <3> QED BY <1>1, <1>2, <1>3, <1>4, <1>5, <1>6, <1>9, <3>1, <3>2, <3>3 DEF Ready
  <2>7. CASE Send(j) \/ SendFails(j)
    <3>1. window' = window /\ pc[j] = "send" /\ pc'[j] = "release"
      BY <2>7 DEF Send, SendFails, At, Goto, locals, PlaceInv
    <3> DEFINE first == Add(spent, "hour", window[j]["hour"])
    <3>2. spent' = Add(first, "day", window[j]["day"])
      BY <2>7 DEF Send, SendFails, Spend
    <3>3. window[j]["hour"] \in Ticks /\ window[j]["day"] \in Ticks
      BY <1>5 DEF QuotaTypes
    <3>4. first \in Counters
          /\ first[s][w] = IF s = "hour" /\ w = window[j]["hour"] THEN spent[s][w] + 1 ELSE spent[s][w]
      <4>1. spent \in Counters /\ "hour" \in Scopes
        BY <1>5 DEF QuotaTypes
      <4> QED BY <3>3, <4>1, CountOne
    <3>5. spent'[s][w] = IF s = "day" /\ w = window[j]["day"] THEN first[s][w] + 1 ELSE first[s][w]
      <4>1. "day" \in Scopes
        BY <1>5
      <4> HIDE DEF first
      <4> QED BY <3>2, <3>3, <3>4, <4>1, CountOne
    <3>6. spent'[s][w] = IF s # "minute" /\ w = window[j][s] THEN spent[s][w] + 1 ELSE spent[s][w]
      BY <1>5, <3>4, <3>5
    <3>7. w # cur => sent'[s][w] = sent[s][w]
      BY <1>3
    <3>8. w = cur => sent'[s][w] \in {sent[s][w], sent[s][w] + 1}
      BY <1>3
    <3>9. window[j][s] <= cur /\ window[j][s] \in Nat
      BY <1>4 DEF cur
    <3> QED BY <1>1, <1>2, <1>3, <1>4, <1>5, <1>6, <1>9, <3>1, <3>6, <3>7, <3>8, <3>9 DEF Ready
  <2> QED BY <2>1, <2>2, <2>3, <2>4, <2>5, <2>6, <2>7 DEF JobStep
<1> QED BY <1>4, <1>8, <1>9

\* Every step keeps the messages of every window.
LEMMA SpillStep == ASSUME PlaceInv, QuotaInv, SpillInv, [Next]_vars PROVE SpillInv'
<1>1. QuotaTypes /\ QuotaTypes' /\ SpillTypes /\ SpillTypes'
  BY QuotaTypesStep, SpillTypesStep DEF QuotaInv, SpillInv
<1>2. ASSUME NEW j \in Jobs, JobStep(j), NEW s \in Scopes, NEW w \in Ticks, Limit[s] # 0
      PROVE  SpillWindow(s, w)'
  BY <1>1, <1>2, SpillWindowStep DEF SpillInv
<1>3. CASE Tick \/ UNCHANGED vars
  <2> SUFFICES ASSUME NEW s \in Scopes, NEW w \in Ticks, SpillWindow(s, w) PROVE SpillWindow(s, w)'
    BY <1>1 DEF SpillInv
  <2>1. UNCHANGED <<sent, spent, pc, window>> /\ now' \in {now, now + 1}
    BY <1>3 DEF Tick, vars, locals, KeepCounts
  <2>2. Number(PendingPc, s, w)' = Number(PendingPc, s, w) /\ LateJobs(s, w)' = LateJobs(s, w)
    BY <2>1 DEF Number, Having, HasAt, LateJobs, Late
  <2>3. WindowAt(s, now)' \in Nat /\ WindowAt(s, now) \in Nat /\ WindowAt(s, now) <= WindowAt(s, now)'
    BY <1>1, <2>1, LaterWindow DEF QuotaTypes, WindowAt
  <2> QED BY <2>1, <2>2, <2>3, ThrottleAssumption DEF SpillWindow, Ticks
<1> QED BY <1>1, <1>2, <1>3 DEF SpillInv, Next

\* Nothing is sent yet.
LEMMA SpillInit == Init => SpillInv
<1> SUFFICES ASSUME Init PROVE SpillInv
  OBVIOUS
<1>1. 0 \in Ticks
  BY ThrottleAssumption DEF Ticks
<1>2. SpillTypes
  <2>1. \A s \in Scopes : WindowAt(s, 0) \in Nat
    BY <1>1, LaterWindow
  <2> QED BY <2>1 DEF Init, SpillTypes, Counters, Zero
<1>3. ASSUME NEW s \in Scopes, NEW w \in Ticks PROVE SpillWindow(s, w)
  <2>1. Having(PendingPc, s, w) = {} /\ LateJobs(s, w) = {}
    BY DEF Init, Having, HasAt, LateJobs, Late, PendingPc, StalePc, Ready, Scopes
  <2>2. Number(PendingPc, s, w) = 0 /\ Cardinality(LateJobs(s, w)) = 0
    BY <2>1, FS_EmptySet DEF Number
  <2>3. sent[s][w] = 0 /\ spent[s][w] = 0 /\ Cardinality(Jobs) \in Nat
    BY LateJobsBound DEF Init, Zero
  <2> QED BY <2>2, <2>3 DEF SpillWindow
<1> QED BY <1>2, <1>3 DEF SpillInv

\* Windows are fixed and a message leaves after its reservation: whatever the clock does
\* between the commands of the jobs, a window's messages exceed its limit by no more than
\* there are jobs in hand.
THEOREM SpillKept == Spec => []SpillBounded
<1>1. Init => PlaceInv /\ QuotaInv /\ SpillInv
  BY QuotaInit, SpillInit DEF Init, PlaceInv, ThrottlePc
<1>2. PlaceInv /\ QuotaInv /\ SpillInv /\ [Next]_vars => (PlaceInv /\ QuotaInv /\ SpillInv)'
  BY PlaceStep, QuotaStep, SpillStep
<1>3. PlaceInv /\ QuotaInv /\ SpillInv => SpillBounded
  <2> SUFFICES ASSUME QuotaInv, SpillInv, NEW s \in Scopes, NEW w \in Ticks, Limit[s] # 0
               PROVE  sent[s][w] <= Limit[s] + Cardinality(Jobs)
    BY DEF SpillBounded
  <2>1. /\ Number(GrantedPc, s, w) \in Nat /\ Number(PendingPc, s, w) \in Nat
        /\ Cardinality(LateJobs(s, w)) \in Nat /\ Cardinality(Jobs) \in Nat /\ Limit[s] \in Nat
    BY NumberType, LateJobsBound, LimitScopes
  <2>2. sent[s][w] \in Nat /\ spent[s][w] \in Nat
    BY DEF QuotaInv, QuotaTypes, SpillInv, SpillTypes, Counters
  <2> QED BY <2>1, <2>2 DEF QuotaInv, WindowInv, SpillInv, SpillWindow
<1> QED BY <1>1, <1>2, <1>3, PTL DEF Spec
=============================================================================
