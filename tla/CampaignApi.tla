---------------------------- MODULE CampaignApi ----------------------------
(***************************************************************************)
(* The campaign operations (services/campaign.service.ts), run by HTTP     *)
(* requests and, for a scheduled start, by the scheduler worker.  Every    *)
(* operation loads the document into a local variable (proc[p].doc) and    *)
(* ends in a save of the paths it changed: Mongoose writes only those, and *)
(* compares the version only when an array was assigned.                   *)
(***************************************************************************)
EXTENDS CampaignState

KeepJobs == UNCHANGED workVars
KeepOutside == KeepJobs /\ UNCHANGED <<smtp, hookVars, late>>

Step(p, s) == proc[p].step = s
Doc(p) == proc[p].doc

\* The handler ends, with an answer or an error. A scheduler job that ended,
\* either way, stays in Redis under its id (removeOnComplete, removeOnFail).
EndOf(p) == /\ proc' = [proc EXCEPT ![p] = Idle]
            /\ sched' = IF p = Scheduler THEN "kept" ELSE sched

Advance(p, s) == proc' = [proc EXCEPT ![p].step = s] /\ UNCHANGED sched

\* Bounds: starts that succeed, versions an edit may consume.
PastBound(o) == \/ o = "start" /\ camp.run >= MaxRuns
                \/ o = "edit"  /\ camp.ver >= MaxVersions

\* Mutant: a paused campaign may be started.
RefusedUnlessPaused(o) == \/ ~Exists
                          \/ o = "start" /\ camp.status \in {"sending", "queued"}

\* What each operation demands of the status it loads.
Refused(o) == \/ ~Exists
              \/ o = "start"      /\ camp.status \in {"sending", "queued", "paused"}
              \/ o = "pause"      /\ camp.status # "sending"
              \/ o = "resume"     /\ camp.status # "paused"
              \/ o = "schedule"   /\ camp.status \in {"sending", "queued"}
              \/ o = "unschedule" /\ camp.status # "scheduled"
              \/ o \in {"edit", "remove"} /\ camp.status = "sending"

AfterLoad(o) == CASE o = "start" -> "count"
                  [] o \in {"schedule", "unschedule", "remove"} -> "cancel"
                  [] OTHER -> "save"

(* getById and the checks on the document it returns: a handler begins, or  *)
(* answers with an error and changes nothing.                               *)
Begin(p, o) == [proc EXCEPT ![p] = [Idle EXCEPT !.op = o, !.doc = camp, !.step = AfterLoad(o)]]

Request(p) ==
    /\ p \in Requests /\ Step(p, "idle")
    /\ \E o \in Operations :
          proc' = IF Refused(o) \/ PastBound(o) THEN proc ELSE Begin(p, o)
    /\ UNCHANGED <<camp, log, eligible, sched>> /\ KeepOutside

(* The scheduler worker takes the job that came due and calls start.        *)
SchedulerTakes ==
    /\ sched = "delayed" /\ Step(Scheduler, "idle")
    /\ \/ /\ Refused("start") \/ PastBound("start")
          /\ sched' = "kept"
          /\ UNCHANGED proc
       \/ /\ ~Refused("start") /\ ~PastBound("start")
          /\ sched' = "active"
          /\ proc' = Begin(Scheduler, "start")
    /\ UNCHANGED <<camp, log, eligible>> /\ KeepOutside

-----------------------------------------------------------------------------
(* save() of a document nobody deleted; one that changes an array also asks *)
(* for the version that was loaded, and advances it.                        *)
SaveScalars(doc) == Exists /\ camp' = doc
SaveArrays(p, doc) == Exists /\ camp.ver = Doc(p).ver /\ camp' = [doc EXCEPT !.ver = @ + 1]

\* The paths of `new` that differ from the loaded document, on top of what is stored.
Kept(old, new, stored) == IF new # old THEN new ELSE stored
Written(p, new) ==
    [status  |-> Kept(Doc(p).status, new.status, camp.status),
     sent    |-> Kept(Doc(p).sent, new.sent, camp.sent),
     failed  |-> Kept(Doc(p).failed, new.failed, camp.failed),
     bounced |-> Kept(Doc(p).bounced, new.bounced, camp.bounced),
     total   |-> Kept(Doc(p).total, new.total, camp.total),
     run     |-> Kept(Doc(p).run, new.run, camp.run),
     ver     |-> camp.ver]

\* The history `late` starts anew when the campaign is no longer paused.
SetStatus(p, op, s) ==
    /\ proc[p].op = op /\ Step(p, "save")
    /\ \/ SaveScalars(Written(p, [Doc(p) EXCEPT !.status = s]))
       \/ ~Exists /\ UNCHANGED camp
    /\ EndOf(p)
    /\ late' = IF Exists /\ s # "paused" THEN 0 ELSE late
    /\ UNCHANGED <<log, eligible, smtp, hookVars>> /\ KeepJobs

Pause(p)  == SetStatus(p, "pause", "paused")
Resume(p) == SetStatus(p, "resume", "sending")

(* An edit assigns listIds and attachments. *)
Edit(p) ==
    /\ proc[p].op = "edit" /\ Step(p, "save")
    /\ \/ SaveArrays(p, camp)
       \/ UNCHANGED camp
    /\ EndOf(p)
    /\ UNCHANGED <<log, eligible>> /\ KeepOutside

-----------------------------------------------------------------------------
(* Scheduling.  cancelSchedule throws when the job is running (it is        *)
(* locked); a finished one is removed, so that the id is free again.        *)
CancelSchedule(p, next) ==
    \/ sched = "active" /\ EndOf(p)
    \/ sched # "active" /\ sched' = "none" /\ proc' = [proc EXCEPT ![p].step = next]

ScheduleCancel(p) ==
    /\ proc[p].op = "schedule" /\ Step(p, "cancel")
    /\ CancelSchedule(p, "add")
    /\ UNCHANGED <<camp, log, eligible>> /\ KeepOutside

\* BullMQ ignores a job whose id is taken: a schedule that came in between stays.
ScheduleAdd(p) ==
    /\ proc[p].op = "schedule" /\ Step(p, "add")
    /\ sched' = IF sched = "none" THEN "delayed" ELSE sched
    /\ proc' = [proc EXCEPT ![p].step = "save"]
    /\ UNCHANGED <<camp, log, eligible>> /\ KeepOutside

ScheduleSave(p) == SetStatus(p, "schedule", "scheduled")

UnscheduleCancel(p) ==
    /\ proc[p].op = "unschedule" /\ Step(p, "cancel")
    /\ CancelSchedule(p, "save")
    /\ UNCHANGED <<camp, log, eligible>> /\ KeepOutside

UnscheduleSave(p) == SetStatus(p, "unschedule", "draft")

-----------------------------------------------------------------------------
(* remove: cancel the schedule, drain the queue, delete logs, delete.       *)
RemoveCancel(p) ==
    /\ proc[p].op = "remove" /\ Step(p, "cancel")
    /\ CancelSchedule(p, "drain")
    /\ UNCHANGED <<camp, log, eligible>> /\ KeepOutside

\* Mutant: active jobs are removed too.
RemoveDrainActive(p) ==
    /\ proc[p].op = "remove" /\ Step(p, "drain")
    /\ queue' = [j \in Jobs |-> IF queue[j] \in {"waiting", "active"} THEN "removed" ELSE queue[j]]
    /\ Advance(p, "wipe")
    /\ UNCHANGED <<camp, log, eligible, smtp, attempts, waited, pc, cred, seen, stalls, mails, hookVars, late>>

\* removeCampaignJobs: jobs that are active now cannot be removed.
RemoveDrain(p) ==
    /\ proc[p].op = "remove" /\ Step(p, "drain")
    /\ queue' = [j \in Jobs |-> IF queue[j] = "waiting" THEN "removed" ELSE queue[j]]
    /\ Advance(p, "wipe")
    /\ UNCHANGED <<camp, log, eligible, smtp, attempts, waited, pc, cred, seen, stalls, mails, hookVars, late>>

RemoveWipe(p) ==
    /\ proc[p].op = "remove" /\ Step(p, "wipe")
    /\ log' = [c \in Contacts |-> NoLog]
    /\ Advance(p, "delete")
    /\ UNCHANGED <<camp, eligible>> /\ KeepOutside

RemoveDelete(p) ==
    /\ proc[p].op = "remove" /\ Step(p, "delete")
    /\ camp' = [camp EXCEPT !.status = "gone"]
    /\ EndOf(p)
    /\ UNCHANGED <<log, eligible>> /\ KeepOutside

-----------------------------------------------------------------------------
(* start: count the audience, wipe the previous SendLogs, save, dispatch.   *)
(* Without an SMTP server (no fallback is configured) or an audience: error. *)
CountAudience(p) ==
    /\ proc[p].op = "start" /\ Step(p, "count")
    /\ \/ (smtp.gone \/ eligible = {}) /\ EndOf(p)
       \/ /\ ~smtp.gone /\ eligible # {}
          /\ proc' = [proc EXCEPT ![p] = [@ EXCEPT !.total = Cardinality(eligible), !.step = "wipe"]]
          /\ UNCHANGED sched
    /\ UNCHANGED <<camp, log, eligible>> /\ KeepOutside

WipeLogs(p) ==
    /\ proc[p].op = "start" /\ Step(p, "wipe")
    /\ log' = [c \in Contacts |-> NoLog]
    /\ Advance(p, "save")
    /\ UNCHANGED <<camp, eligible>> /\ KeepOutside

\* linkStats.splice(0) marks the array as assigned: the save compares versions.
StartedDoc(p) == [Doc(p) EXCEPT !.status = "sending", !.total = proc[p].total,
                                !.sent = 0, !.failed = 0, !.bounced = 0, !.run = camp.run + 1]

\* Mutant: the save does not compare versions.
SaveStartBlindly(p) ==
    /\ proc[p].op = "start" /\ Step(p, "save")
    /\ SaveScalars(Written(p, StartedDoc(p)))
    /\ proc' = [proc EXCEPT ![p] = [@ EXCEPT !.step = "dispatch", !.run = camp.run + 1,
                                            !.doc = StartedDoc(p), !.todo = Contacts, !.batch = {}]]
    /\ late' = 0
    /\ UNCHANGED <<log, eligible, sched, smtp, hookVars>> /\ KeepJobs

SaveStart(p) ==
    /\ proc[p].op = "start" /\ Step(p, "save")
    /\ SaveArrays(p, Written(p, StartedDoc(p)))
    /\ proc' = [proc EXCEPT ![p] = [@ EXCEPT !.step = "dispatch", !.run = camp.run + 1,
                                            !.doc = StartedDoc(p), !.todo = Contacts, !.batch = {}]]
    /\ late' = 0
    /\ UNCHANGED <<log, eligible, sched, smtp, hookVars>> /\ KeepJobs

SaveStartFails(p) ==
    /\ proc[p].op = "start" /\ Step(p, "save")
    /\ ~Exists \/ camp.ver # Doc(p).ver
    /\ EndOf(p)
    /\ UNCHANGED <<camp, log, eligible>> /\ KeepOutside

-----------------------------------------------------------------------------
(* Dispatch: the cursor reads the recipient query anew, batch by batch.     *)
NextRows(p) == proc[p].todo \cap eligible

\* The batch the cursor yields: all that is left, or a full one.
IsBatch(p, B) == /\ B # {} /\ B \subseteq NextRows(p)
                 /\ \/ Cardinality(B) = BatchSize
                    \/ B = NextRows(p) /\ Cardinality(B) < BatchSize

Insertable(p, B) == {c \in B : log[c] = NoLog}

InsertLogs(p, B) == log' = [c \in Contacts |->
    IF c \in B THEN [run |-> proc[p].run, status |-> "pending"] ELSE log[c]]

DispatchInsert(p) ==
    /\ Step(p, "dispatch")
    /\ \E B \in SUBSET Contacts :
          /\ IsBatch(p, B) /\ Insertable(p, B) = B
          /\ InsertLogs(p, B)
          /\ proc' = [proc EXCEPT ![p] = [@ EXCEPT !.batch = B, !.todo = proc[p].todo \ B, !.step = "enqueue"]]
    /\ UNCHANGED <<camp, eligible, sched>> /\ KeepOutside

\* insertMany stops at the first contact that already has a SendLog.
DispatchDuplicate(p) ==
    /\ Step(p, "dispatch")
    /\ \E B \in SUBSET Contacts :
          /\ IsBatch(p, B) /\ Insertable(p, B) # B
          /\ \E inserted \in SUBSET Insertable(p, B) : InsertLogs(p, inserted)
    /\ Advance(p, "catch")
    /\ UNCHANGED <<camp, eligible>> /\ KeepOutside

DispatchEnqueue(p) ==
    /\ Step(p, "enqueue")
    /\ queue' = [j \in Jobs |-> IF j[1] \in proc[p].batch /\ j[2] = proc[p].run
                                THEN "waiting" ELSE queue[j]]
    /\ proc' = [proc EXCEPT ![p] = [@ EXCEPT !.queued = proc[p].queued + Cardinality(proc[p].batch),
                                            !.batch = {}, !.step = "dispatch"]]
    /\ UNCHANGED <<camp, log, eligible, smtp, attempts, waited, pc, cred, seen, stalls, mails,
                   sched, hookVars, late>>

DispatchDone(p) ==
    /\ Step(p, "dispatch") /\ NextRows(p) = {}
    /\ EndOf(p)
    /\ UNCHANGED <<camp, log, eligible>> /\ KeepOutside

\* MongoDB or Redis fails during the dispatch.
DispatchFails(p) ==
    /\ "fault" \in Environment
    /\ proc[p].step \in {"dispatch", "enqueue"}
    /\ Advance(p, "catch")
    /\ UNCHANGED <<camp, log, eligible>> /\ KeepOutside

(* The catch block: pause with the number of jobs that were queued.         *)
DispatchCatch(p) ==
    /\ Step(p, "catch")
    /\ \/ SaveScalars(Written(p, [Doc(p) EXCEPT !.status = "paused", !.total = proc[p].queued]))
       \/ ~Exists /\ UNCHANGED camp
    /\ EndOf(p)
    /\ UNCHANGED <<log, eligible>> /\ KeepOutside

-----------------------------------------------------------------------------
(* The process dies.  A request is simply lost; the scheduler's job is      *)
(* active without a worker until BullMQ puts it back.                       *)
ProcessDies(p) ==
    /\ "crash" \in Environment /\ ~Step(p, "idle")
    /\ proc' = [proc EXCEPT ![p] = Idle]
    /\ sched' = IF p = Scheduler THEN "delayed" ELSE sched
    /\ UNCHANGED <<camp, log, eligible>> /\ KeepOutside

StartStepOf(p) ==
    \/ CountAudience(p) \/ WipeLogs(p) \/ SaveStart(p) \/ SaveStartFails(p)
    \/ DispatchInsert(p) \/ DispatchDuplicate(p) \/ DispatchEnqueue(p)
    \/ DispatchDone(p) \/ DispatchCatch(p)

\* A handler that has begun goes on.
HandlerStep(p) ==
    \/ StartStepOf(p) \/ Pause(p) \/ Resume(p) \/ Edit(p)
    \/ ScheduleCancel(p) \/ ScheduleAdd(p) \/ ScheduleSave(p)
    \/ UnscheduleCancel(p) \/ UnscheduleSave(p)
    \/ RemoveCancel(p) \/ RemoveDrain(p) \/ RemoveWipe(p) \/ RemoveDelete(p)

ApiStep(p) == Request(p) \/ HandlerStep(p) \/ DispatchFails(p) \/ ProcessDies(p)
=============================================================================
