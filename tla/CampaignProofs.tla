--------------------------- MODULE CampaignProofs ---------------------------
(***************************************************************************)
(* The campaign core, for any contacts, requests, workers and bounds.      *)
(* Part 1: types (WorkTypes and ApiTypes split TypeOK along the            *)
(* components), no duplicate mail and the refinement of Delivery.  MailInv *)
(* is the inductive invariant: its per-job part follows a job through the  *)
(* worker, its dispatch part says that a job is queued once.  Part 2, on   *)
(* top of it: what the counters, the logs and the status of a campaign     *)
(* promise.  The messages that follow a pause, those counted as sent, one  *)
(* run at a time, the limit of errors, the truth of the logs, and counters *)
(* equal to them.                                                          *)
(***************************************************************************)
EXTENDS Campaign, FiniteSetTheorems, TLAPS

\* Sizes of audiences and batches are numbers.
LEMMA AudienceSize == \A S \in SUBSET Contacts : Cardinality(S) \in Nat
  BY SizesAssumption, FS_Subset, FS_CardinalityType

\* What every e-mail worker step changes is typed.
WorkTypes ==
    /\ camp \in CampaignDoc
    /\ log \in [Contacts -> Log]
    /\ eligible \subseteq Contacts
    /\ queue \in [Jobs -> QueueState]
    /\ attempts \in [Jobs -> Nat]
    /\ waited \in [Jobs -> {"no", "since", "expired"}]
    /\ pc \in [Jobs -> WorkerPc]
    /\ cred \in [Jobs -> SmtpDoc]
    /\ seen \in [Jobs -> Log]
    /\ stalls \in [Jobs -> Nat]
    /\ mails \in [Jobs -> Nat]
    /\ smtp \in SmtpDoc

\* The steps up to the send.
LEMMA ReadTypes ==
  ASSUME WorkTypes, NEW j \in Jobs, Take(j) \/ ReadStep(j) \/ PauseLimitPasses(j) \/ NoCapacity(j) \/ LoadForSend(j) \/ CannotSend(j)
  PROVE  WorkTypes'
  BY DEF WorkTypes, Take, ReadStep, DiscardDeleted, WaitPaused, AbandonPaused, PassCampaign,
         PauseLimitPasses, NoCapacity, LoadForSend, CannotSend, Complete, Delay, KeepOthers,
         KeepJob, KeepQueue, Goto, QueueState, WorkerPc, BeforeMail, FailPc

\* The records that MongoDB stores keep their types.
LEMMA StoredTypes ==
  ASSUME WorkTypes, NEW j \in Jobs, NEW s \in LogStatus
  PROVE  /\ LogSet(j, s) \in [Contacts -> Log]
         /\ Finalized \in CampaignDoc /\ AutoPaused \in CampaignDoc
         /\ Increment("sent") \in CampaignDoc
         /\ Increment("failed") \in CampaignDoc
         /\ Increment("bounced") \in CampaignDoc
<1>1. LogSet(j, s) \in [Contacts -> Log]
  BY DEF WorkTypes, LogSet, Log, Jobs
<1>2. Finalized \in CampaignDoc /\ AutoPaused \in CampaignDoc
  BY DEF WorkTypes, Finalized, AutoPaused, CampaignDoc, CampaignStatus
<1>3. /\ Increment("sent") \in CampaignDoc
      /\ Increment("failed") \in CampaignDoc
      /\ Increment("bounced") \in CampaignDoc
  BY DEF WorkTypes, Increment, CampaignDoc
<1> QED BY <1>1, <1>2, <1>3

\* An error of the processor.
LEMMA ThrowTypes ==
  ASSUME WorkTypes, NEW j \in Jobs, Throw(j), UNCHANGED <<camp, log, eligible, smtp>>
  PROVE  WorkTypes'
  BY DEF WorkTypes, Throw, Goto, QueueState, WorkerPc, FailPc

\* The send and its rejections.
LEMMA SendTypes ==
  ASSUME WorkTypes, NEW j \in Jobs, SendStep(j) \/ AuthStep(j)
  PROVE  WorkTypes'
<1>1. CASE Accept(j) \/ RejectLogin(j) \/ RejectRecipient(j)
  BY <1>1 DEF WorkTypes, Accept, RejectLogin, RejectRecipient, KeepOthers,
              KeepJob, KeepQueue, Goto, WorkerPc, BookPc, BouncePc, AuthPc
<1>2. CASE FailForNow(j)
  BY <1>2, ThrowTypes DEF FailForNow, KeepOthers
<1>3. CASE CredentialsChanged(j) \/ CredentialsSame(j)
  BY <1>3 DEF WorkTypes, CredentialsChanged, CredentialsSame, Delay, KeepOthers, KeepJob,
              KeepQueue, Goto, QueueState, WorkerPc, AuthPc
<1>4. CASE PauseForAuth(j)
  BY <1>4 DEF WorkTypes, PauseForAuth, Delay, KeepOthers, Goto, QueueState, WorkerPc,
              CampaignDoc, CampaignStatus
<1> QED BY <1>1, <1>2, <1>3, <1>4 DEF SendStep, AuthStep

\* The bookkeeping of sent and failed messages.
LEMMA CountTypes ==
  ASSUME WorkTypes, NEW j \in Jobs, BookStep(j) \/ FailStep(j)
  PROVE  WorkTypes'
<1>1. /\ {"sent", "failed"} \subseteq LogStatus
      /\ \A s \in LogStatus : LogSet(j, s) \in [Contacts -> Log]
      /\ Finalized \in CampaignDoc /\ AutoPaused \in CampaignDoc
      /\ Increment("sent") \in CampaignDoc /\ Increment("failed") \in CampaignDoc
  BY StoredTypes DEF LogStatus
<1>2. CASE BookLog(j) \/ BookStat(j) \/ FailLog(j) \/ FailStat(j) \/ FailFinal(j)
  BY <1>1, <1>2 DEF WorkTypes, BookLog, BookStat, FailLog, FailStat, FailFinal, KeepOthers,
                    KeepJob, KeepQueue, Goto, WorkerPc, BookPc, FailPc
<1>3. CASE BookFinal(j) \/ FailPause(j)
  BY <1>1, <1>3 DEF WorkTypes, BookFinal, FailPause, Return, Complete, KeepOthers, KeepJob,
                    KeepQueue, Goto, QueueState, WorkerPc
<1> QED BY <1>2, <1>3 DEF BookStep, FailStep

\* The bookkeeping of a bounce.
LEMMA BounceTypes ==
  ASSUME WorkTypes, NEW j \in Jobs, BounceStep(j)
  PROVE  WorkTypes'
<1>1. Finalized \in CampaignDoc /\ AutoPaused \in CampaignDoc /\ Increment("bounced") \in CampaignDoc
  BY StoredTypes DEF LogStatus
<1>2. CASE BounceFind(j)
  BY <1>2 DEF WorkTypes, BounceFind, KeepQueue, Goto, WorkerPc, BouncePc, Jobs
<1>3. CASE BounceMark(j) \/ BounceKnown(j)
  <2>1. BounceMark(j) => log' \in [Contacts -> Log]
    BY DEF WorkTypes, BounceMark, Log, LogStatus, Jobs
  <2> QED BY <1>3, <2>1 DEF WorkTypes, BounceMark, BounceKnown, KeepOthers, KeepJob, KeepQueue,
                            Goto, WorkerPc, BouncePc
<1>4. CASE BounceMarkLost(j)
  BY <1>4, ThrowTypes DEF BounceMarkLost, KeepOthers
<1>5. CASE BounceCount(j) \/ BounceFinal(j) \/ BouncePause(j)
  BY <1>1, <1>5 DEF WorkTypes, BounceCount, BounceFinal, BouncePause, Complete, KeepOthers,
                    KeepJob, KeepQueue, Goto, QueueState, WorkerPc, BouncePc
<1> QED BY <1>2, <1>3, <1>4, <1>5 DEF BounceStep

\* Faults and deaths.
LEMMA CrashTypes ==
  ASSUME WorkTypes, NEW j \in Jobs, MongoFault(j) \/ WorkerDies(j) \/ RecoverStalled(j)
  PROVE  WorkTypes'
<1>1. CASE MongoFault(j)
  <2>1. CASE Throw(j)
    BY <1>1, <2>1, ThrowTypes DEF MongoFault, KeepOthers
  <2>2. CASE ~Throw(j)
    BY <1>1, <2>2 DEF WorkTypes, MongoFault, Complete, KeepOthers, KeepJob, KeepQueue, Goto,
                      QueueState, WorkerPc
  <2> QED BY <2>1, <2>2
<1>2. CASE WorkerDies(j)
  BY <1>2 DEF WorkTypes, WorkerDies, KeepOthers, Goto, WorkerPc
<1>3. CASE RecoverStalled(j)
  BY <1>3 DEF WorkTypes, RecoverStalled, Delay, KeepOthers, Goto, QueueState, WorkerPc, FailPc
<1> QED BY <1>1, <1>2, <1>3

\* Every step of a worker.
LEMMA WorkerTypes ==
  ASSUME WorkTypes, NEW j \in Jobs, WorkerStep(j)
  PROVE  WorkTypes'
  BY ReadTypes, SendTypes, CountTypes, BounceTypes, CrashTypes DEF WorkerStep, WorkStep
-----------------------------------------------------------------------------
\* The local state of the handlers.
ApiTypes == proc \in [Procs -> Proc] /\ sched \in {"none", "delayed", "active", "kept"}

\* A document that is saved has the stored document's type.
LEMMA DocTypes ==
  ASSUME WorkTypes, ApiTypes, NEW p \in Procs
  PROVE  /\ Doc(p) \in CampaignDoc
         /\ StartedDoc(p) \in CampaignDoc
         /\ \A new \in CampaignDoc : Written(p, new) \in CampaignDoc
<1>1. Doc(p) \in CampaignDoc
  BY DEF ApiTypes, Proc, Doc
<1>2. StartedDoc(p) \in CampaignDoc
  <2>1. proc[p].total \in Nat /\ camp.run + 1 \in Nat
    BY DEF WorkTypes, ApiTypes, Proc, CampaignDoc
  <2> QED BY <1>1, <2>1 DEF CampaignDoc, CampaignStatus, StartedDoc
<1>3. ASSUME NEW new \in CampaignDoc PROVE Written(p, new) \in CampaignDoc
  BY <1>1 DEF WorkTypes, CampaignDoc, Written, Kept
<1> QED BY <1>1, <1>2, <1>3

\* A handler ends or goes to its next step.
LEMMA EndTypes ==
  ASSUME WorkTypes, ApiTypes, NEW p \in Procs
  PROVE  /\ EndOf(p) => ApiTypes'
         /\ \A s \in ProcStep : Advance(p, s) => ApiTypes'
         /\ \A s \in ProcStep : CancelSchedule(p, s) => ApiTypes'
<1>1. Idle \in Proc
  BY DEF Idle, Proc, NewDoc, CampaignDoc, CampaignStatus, ProcStep
<1>2. EndOf(p) => ApiTypes'
  BY <1>1 DEF EndOf, ApiTypes
<1>3. \A s \in ProcStep : Advance(p, s) => ApiTypes'
  BY DEF Advance, ApiTypes, Proc
<1>4. \A s \in ProcStep : CancelSchedule(p, s) => ApiTypes'
  BY <1>2 DEF CancelSchedule, ApiTypes, Proc
<1> QED BY <1>2, <1>3, <1>4

\* A handler begins with the document it loaded.
LEMMA BeginTypes ==
  ASSUME WorkTypes, ApiTypes, NEW p \in Procs, NEW o \in Operations \cup {"start"}
  PROVE  Begin(p, o) \in [Procs -> Proc]
<1>1. AfterLoad(o) \in ProcStep
  BY DEF AfterLoad, ProcStep, StartStep
<1>2. [Idle EXCEPT !.op = o, !.doc = camp, !.step = AfterLoad(o)] \in Proc
  BY <1>1 DEF WorkTypes, Idle, Proc
<1> QED BY <1>2 DEF Begin, ApiTypes

\* A save of the status from a copy.
LEMMA StatusTypes ==
  ASSUME WorkTypes, ApiTypes, NEW p \in Procs, NEW o, NEW s \in CampaignStatus, SetStatus(p, o, s)
  PROVE  WorkTypes' /\ ApiTypes'
<1>1. [Doc(p) EXCEPT !.status = s] \in CampaignDoc
  BY DocTypes DEF CampaignDoc
<1>2. camp' \in CampaignDoc
  BY <1>1, DocTypes DEF SetStatus, SaveScalars, WorkTypes
<1> QED BY <1>2, EndTypes DEF SetStatus, WorkTypes, KeepJobs, workVars

\* Pause, resume, edit, schedule and unschedule.
LEMMA EditingTypes ==
  ASSUME WorkTypes, ApiTypes, NEW p \in Procs,
         Pause(p) \/ Resume(p) \/ Edit(p) \/ ScheduleCancel(p) \/ ScheduleAdd(p) \/ ScheduleSave(p)
         \/ UnscheduleCancel(p) \/ UnscheduleSave(p)
  PROVE  WorkTypes' /\ ApiTypes'
<1>1. CASE Pause(p) \/ Resume(p) \/ ScheduleSave(p) \/ UnscheduleSave(p)
  BY <1>1, StatusTypes DEF Pause, Resume, ScheduleSave, UnscheduleSave, CampaignStatus
<1>2. CASE Edit(p)
  <2>1. camp' \in CampaignDoc
    BY <1>2 DEF Edit, SaveArrays, WorkTypes, CampaignDoc
  <2> QED BY <1>2, <2>1, EndTypes DEF Edit, WorkTypes, KeepOutside, KeepJobs, workVars
<1>3. CASE ScheduleAdd(p)
  <2>1. ApiTypes'
    BY <1>3, EndTypes DEF ScheduleAdd, ApiTypes, Proc, ProcStep, StartStep
  <2> QED BY <1>3, <2>1 DEF ScheduleAdd, WorkTypes, KeepOutside, KeepJobs, workVars
<1>4. CASE UnscheduleCancel(p) \/ ScheduleCancel(p)
  <2>1. "save" \in ProcStep /\ "add" \in ProcStep
    BY DEF ProcStep, StartStep
  <2> QED BY <1>4, <2>1, EndTypes DEF UnscheduleCancel, ScheduleCancel, WorkTypes, KeepOutside, KeepJobs, workVars
<1> QED BY <1>1, <1>2, <1>3, <1>4

\* The steps of a removal.
LEMMA RemoveTypes ==
  ASSUME WorkTypes, ApiTypes, NEW p \in Procs,
         RemoveCancel(p) \/ RemoveDrain(p) \/ RemoveWipe(p) \/ RemoveDelete(p)
  PROVE  WorkTypes' /\ ApiTypes'
<1>1. {"drain", "wipe", "delete"} \subseteq ProcStep
  BY DEF ProcStep, StartStep
<1>2. CASE RemoveCancel(p)
  BY <1>1, <1>2, EndTypes DEF RemoveCancel, WorkTypes, KeepOutside, KeepJobs, workVars
<1>3. CASE RemoveDrain(p)
  BY <1>1, <1>3, EndTypes DEF RemoveDrain, WorkTypes, QueueState
<1>4. CASE RemoveWipe(p)
  BY <1>1, <1>4, EndTypes DEF RemoveWipe, WorkTypes, KeepOutside, KeepJobs, workVars, NoLog, Log, LogStatus
<1>5. CASE RemoveDelete(p)
  BY <1>5, EndTypes DEF RemoveDelete, WorkTypes, KeepOutside, KeepJobs, workVars, CampaignDoc
<1> QED BY <1>2, <1>3, <1>4, <1>5

\* A start up to its save.
LEMMA LaunchTypes ==
  ASSUME WorkTypes, ApiTypes, NEW p \in Procs,
         CountAudience(p) \/ WipeLogs(p) \/ SaveStart(p) \/ SaveStartFails(p)
  PROVE  WorkTypes' /\ ApiTypes'
<1>1. {"save", "wipe", "dispatch"} \subseteq ProcStep
  BY DEF ProcStep, StartStep
<1>2. CASE CountAudience(p)
  <2>1. Cardinality(eligible) \in Nat
    BY AudienceSize DEF WorkTypes
  <2>2. ApiTypes'
    <3>1. [proc[p] EXCEPT !.total = Cardinality(eligible), !.step = "wipe"] \in Proc
      BY <1>1, <2>1 DEF ApiTypes, Proc
    <3> QED BY <1>2, <3>1, EndTypes DEF CountAudience, ApiTypes
  <2> QED BY <1>2, <2>2 DEF CountAudience, WorkTypes, KeepOutside, KeepJobs, workVars
<1>3. CASE WipeLogs(p)
  BY <1>1, <1>3, EndTypes DEF WipeLogs, WorkTypes, KeepOutside, KeepJobs, workVars, NoLog, Log, LogStatus
<1>4. CASE SaveStart(p)
  <2>1. camp' \in CampaignDoc
    <3>1. Written(p, StartedDoc(p)) \in CampaignDoc
      BY DocTypes
    <3>2. camp' = [Written(p, StartedDoc(p)) EXCEPT !.ver = @ + 1]
      BY <1>4 DEF SaveStart, SaveArrays
    <3> QED BY <3>1, <3>2 DEF CampaignDoc
  <2>2. proc' \in [Procs -> Proc]
    <3>1. StartedDoc(p) \in CampaignDoc /\ camp.run + 1 \in Nat
      BY DocTypes DEF WorkTypes, CampaignDoc
    <3> QED BY <1>1, <1>4, <3>1 DEF SaveStart, ApiTypes, Proc
  <2> QED BY <1>4, <2>1, <2>2 DEF SaveStart, WorkTypes, ApiTypes, KeepOutside, KeepJobs, workVars
<1>5. CASE SaveStartFails(p)
  BY <1>5, EndTypes DEF SaveStartFails, WorkTypes, KeepOutside, KeepJobs, workVars
<1> QED BY <1>2, <1>3, <1>4, <1>5

\* The batches of a dispatch and its end.
LEMMA DispatchTypes ==
  ASSUME WorkTypes, ApiTypes, NEW p \in Procs,
         DispatchInsert(p) \/ DispatchDuplicate(p) \/ DispatchEnqueue(p) \/ DispatchDone(p)
         \/ DispatchFails(p) \/ DispatchCatch(p) \/ ProcessDies(p)
  PROVE  WorkTypes' /\ ApiTypes'
<1>1. {"dispatch", "enqueue", "catch"} \subseteq ProcStep
  BY DEF ProcStep, StartStep
<1>2. ASSUME NEW B \in SUBSET Contacts, InsertLogs(p, B) PROVE log' \in [Contacts -> Log]
  <2>1. [run |-> proc[p].run, status |-> "pending"] \in Log
    BY DEF ApiTypes, Proc, Log, LogStatus
  <2> QED BY <1>2, <2>1 DEF InsertLogs, WorkTypes
<1>3. CASE DispatchInsert(p)
  <2>1. PICK B \in SUBSET Contacts :
          /\ InsertLogs(p, B)
          /\ proc' = [proc EXCEPT ![p] = [@ EXCEPT !.batch = B, !.todo = proc[p].todo \ B, !.step = "enqueue"]]
    BY <1>3 DEF DispatchInsert
  <2>2. proc' \in [Procs -> Proc]
    BY <1>1, <2>1 DEF ApiTypes, Proc
  <2> QED BY <1>2, <1>3, <2>1, <2>2 DEF DispatchInsert, WorkTypes, ApiTypes, KeepOutside, KeepJobs, workVars
<1>4. CASE DispatchDuplicate(p)
  <2>1. log' \in [Contacts -> Log]
    <3>1. \A B : Insertable(p, B) \subseteq B
      BY DEF Insertable
    <3>2. PICK inserted \in SUBSET Contacts : InsertLogs(p, inserted)
      BY <1>4, <3>1 DEF DispatchDuplicate
    <3> QED BY <1>2, <3>2
  <2> QED BY <1>1, <1>4, <2>1, EndTypes DEF DispatchDuplicate, WorkTypes, KeepOutside, KeepJobs, workVars
<1>5. CASE DispatchEnqueue(p)
  <2>1. Cardinality(proc[p].batch) \in Nat
    BY AudienceSize DEF ApiTypes, Proc
  <2>2. proc' \in [Procs -> Proc]
    <3> DEFINE n == proc[p].queued + Cardinality(proc[p].batch)
    <3>1. proc[p] \in Proc
      BY DEF ApiTypes
    <3>2. n \in Nat
      BY <2>1, <3>1 DEF Proc
    <3> HIDE DEF n
    <3>3. [proc[p] EXCEPT !.queued = n, !.batch = {}, !.step = "dispatch"] \in Proc
      BY <1>1, <3>1, <3>2 DEF Proc
    <3>4. proc' = [proc EXCEPT ![p] = [proc[p] EXCEPT !.queued = n, !.batch = {}, !.step = "dispatch"]]
      BY <1>5 DEF DispatchEnqueue, n
    <3> QED BY <3>3, <3>4 DEF ApiTypes
  <2> QED BY <1>5, <2>2 DEF DispatchEnqueue, WorkTypes, ApiTypes, QueueState
<1>6. CASE DispatchDone(p)
  BY <1>6, EndTypes DEF DispatchDone, WorkTypes, KeepOutside, KeepJobs, workVars
<1>7. CASE DispatchFails(p)
  BY <1>1, <1>7, EndTypes DEF DispatchFails, WorkTypes, KeepOutside, KeepJobs, workVars
<1>8. CASE DispatchCatch(p)
  <2>1. [Doc(p) EXCEPT !.status = "paused", !.total = proc[p].queued] \in CampaignDoc
    BY DocTypes DEF ApiTypes, Proc, CampaignDoc, CampaignStatus
  <2>2. camp' \in CampaignDoc
    BY <1>8, <2>1, DocTypes DEF DispatchCatch, SaveScalars, WorkTypes
  <2> QED BY <1>8, <2>2, EndTypes DEF DispatchCatch, WorkTypes, KeepOutside, KeepJobs, workVars
<1>9. CASE ProcessDies(p)
  <2>1. Idle \in Proc
    BY DEF Idle, Proc, NewDoc, CampaignDoc, CampaignStatus, ProcStep
  <2> QED BY <1>9, <2>1 DEF ProcessDies, WorkTypes, ApiTypes, KeepOutside, KeepJobs, workVars
<1> QED BY <1>3, <1>4, <1>5, <1>6, <1>7, <1>8, <1>9

\* Every step of a request.
LEMMA ApiStepTypes ==
  ASSUME WorkTypes, ApiTypes, NEW p \in Procs, ApiStep(p)
  PROVE  WorkTypes' /\ ApiTypes'
<1>1. CASE Request(p)
  <2>1. proc' \in [Procs -> Proc]
    BY <1>1, BeginTypes DEF Request, ApiTypes
  <2> QED BY <1>1, <2>1 DEF Request, ApiTypes, WorkTypes, KeepOutside, KeepJobs, workVars
<1>2. CASE HandlerStep(p) \/ DispatchFails(p) \/ ProcessDies(p)
  BY <1>2, EditingTypes, RemoveTypes, LaunchTypes, DispatchTypes DEF HandlerStep, StartStepOf
<1> QED BY <1>1, <1>2 DEF ApiStep

\* The steps of a webhook.
LEMMA HookTypes ==
  ASSUME TypeOK, NEW h \in Hooks, HookArrives(h) \/ HookStepOf(h)
  PROVE  WorkTypes' /\ ApiTypes' /\ (hook \in [Hooks -> Hook])' /\ (hooksLeft \in Nat)'
<1> USE DEF TypeOK, KeepApart, workVars, apiVars
<1>1. NoLog \in Log /\ IdleHook \in Hook
  BY DEF IdleHook, Hook, NoLog, Log, LogStatus
<1>2. hook[h].step # "idle" => hook[h] \in [step: {"find", "mark", "count"}, contact: Contacts, seen: Log]
  BY DEF Hook, IdleHook
<1>3. CASE HookArrives(h)
  <2>1. hook' \in [Hooks -> Hook]
    BY <1>1, <1>3 DEF HookArrives, Hook
  <2>2. hooksLeft' \in Nat
    BY <1>3 DEF HookArrives
  <2> QED BY <1>3, <2>1, <2>2 DEF HookArrives, WorkTypes, ApiTypes
<1>4. CASE HookFind(h)
  <2>1. hook[h].contact \in Contacts
    BY <1>2, <1>4 DEF HookFind
  <2>2. [hook[h] EXCEPT !.seen = log[hook[h].contact], !.step = "mark"] \in Hook
    BY <1>2, <1>4, <2>1 DEF HookFind, Hook
  <2>3. hook' \in [Hooks -> Hook]
    BY <1>1, <1>4, <2>2 DEF HookFind
  <2> QED BY <1>4, <2>3 DEF HookFind, WorkTypes, ApiTypes
<1>5. CASE HookMark(h)
  <2>1. hook[h].contact \in Contacts
    BY <1>2, <1>5 DEF HookMark
  <2>2. [hook[h] EXCEPT !.step = "count"] \in Hook
    BY <1>2, <1>5 DEF HookMark, Hook
  <2>3. hook' \in [Hooks -> Hook]
    BY <1>1, <1>5, <2>2 DEF HookMark, HookGoto
  <2>4. log' \in [Contacts -> Log]
    BY <1>5, <2>1 DEF HookMark, Log, LogStatus
  <2> QED BY <1>5, <2>3, <2>4 DEF HookMark, WorkTypes, ApiTypes
<1>6. CASE HookCount(h)
  <2>1. camp' \in CampaignDoc
    BY <1>6 DEF HookCount, Increment, CampaignDoc
  <2> QED BY <1>1, <1>6, <2>1 DEF HookCount, WorkTypes, ApiTypes
<1> QED BY <1>3, <1>4, <1>5, <1>6 DEF HookStepOf

\* The initial values.
LEMMA TypeInit == Init => TypeOK
<1> SUFFICES ASSUME Init PROVE TypeOK
  OBVIOUS
<1>1. NewDoc \in CampaignDoc /\ NoLog \in Log /\ IdleHook \in Hook
  BY DEF NewDoc, CampaignDoc, CampaignStatus, NoLog, Log, LogStatus, Hook
<1>2. Idle \in Proc
  BY <1>1 DEF Idle, Proc, ProcStep
<1>3. smtp \in SmtpDoc /\ eligible \subseteq Contacts
  BY DEF Init, SmtpDoc
<1>4. cred \in [Jobs -> SmtpDoc]
  BY <1>3 DEF Init
<1> QED BY <1>1, <1>2, <1>3, <1>4, BoundsAssumption DEF Init, TypeOK, QueueState, WorkerPc

\* What happens outside.
LEMMA OutsideTypes ==
  ASSUME TypeOK, Outside
  PROVE  (eligible \subseteq Contacts)' /\ (smtp \in SmtpDoc)'
<1>1. CASE AudienceChanges
  BY <1>1 DEF TypeOK, AudienceChanges
<1>2. CASE EditSmtp
  <2>1. PICK good \in BOOLEAN : smtp' = [ver |-> smtp.ver + 1, ok |-> good, gone |-> FALSE]
    BY <1>2 DEF EditSmtp
  <2>2. smtp.ver + 1 \in Nat
    BY DEF TypeOK, SmtpDoc
  <2>3. smtp' \in SmtpDoc
    BY <2>1, <2>2 DEF SmtpDoc
  <2> QED BY <1>2, <2>3 DEF EditSmtp, KeepAllBut, TypeOK
<1>3. CASE RevokePassword \/ RemoveSmtp
  BY <1>3 DEF TypeOK, RevokePassword, RemoveSmtp, SmtpDoc
<1> QED BY <1>1, <1>2, <1>3 DEF Outside

\* The scheduled job that comes due.
LEMMA SchedulerTypes ==
  ASSUME TypeOK, SchedulerTakes
  PROVE  ApiTypes'
<1>1. WorkTypes /\ ApiTypes /\ Scheduler \in Procs
  BY DEF TypeOK, WorkTypes, ApiTypes, Procs
<1>2. Begin(Scheduler, "start") \in [Procs -> Proc]
  BY <1>1, BeginTypes
<1> QED BY <1>1, <1>2 DEF SchedulerTakes, ApiTypes

\* Only a message that is accepted, a save of another status and a start touch `late`.
LEMMA LateType == TypeOK /\ Next => late' \in Nat
<1> SUFFICES ASSUME TypeOK, Next PROVE late' \in Nat
  OBVIOUS
<1>1. late \in Nat
  BY DEF TypeOK
<1>2. ASSUME NEW p \in Procs, ApiStep(p) PROVE late' \in Nat
  <2>1. CASE Pause(p) \/ Resume(p) \/ ScheduleSave(p) \/ UnscheduleSave(p)
    BY <1>1, <2>1 DEF Pause, Resume, ScheduleSave, UnscheduleSave, SetStatus
  <2>2. CASE SaveStart(p)
    BY <2>2 DEF SaveStart
  <2> QED BY <1>1, <1>2, <2>1, <2>2 DEF ApiStep, Request, HandlerStep, DispatchFails, ProcessDies,
       StartStepOf, CountAudience, WipeLogs, SaveStartFails, DispatchInsert, DispatchDuplicate,
       DispatchEnqueue, DispatchDone, DispatchCatch, Edit, ScheduleCancel, ScheduleAdd, UnscheduleCancel,
       RemoveCancel, RemoveDrain, RemoveWipe, RemoveDelete, KeepOutside
<1>3. ASSUME NEW j \in Jobs, WorkerStep(j) PROVE late' \in Nat
  <2>1. CASE Accept(j)
    BY <1>1, <2>1 DEF Accept
  <2> QED BY <1>1, <1>3, <2>1 DEF WorkerStep, WorkStep, ReadStep, SendStep, BookStep, AuthStep, FailStep,
       BounceStep, Take, DiscardDeleted, WaitPaused, AbandonPaused, PassCampaign, PauseLimitPasses,
       NoCapacity, LoadForSend, CannotSend, RejectLogin, RejectRecipient, FailForNow, BookLog,
       BookStat, BookFinal, CredentialsChanged, CredentialsSame, PauseForAuth, FailLog, FailStat,
       FailFinal, FailPause, BounceFind, BounceMark, BounceMarkLost, BounceKnown, BounceCount,
       BounceFinal, BouncePause, MongoFault, WorkerDies, RecoverStalled, KeepOthers
<1> QED BY <1>1, <1>2, <1>3 DEF Next, SchedulerTakes, Outside, AudienceChanges, EditSmtp,
     RevokePassword, RemoveSmtp, KeepAllBut, HookArrives, HookStepOf, HookFind, HookMark, HookCount,
     KeepApart, KeepOutside

\* Every step keeps the types.
LEMMA TypeStep == TypeOK /\ [Next]_vars => TypeOK'
<1> SUFFICES ASSUME TypeOK, [Next]_vars PROVE TypeOK'
  OBVIOUS
<1>1. WorkTypes /\ ApiTypes
  BY DEF TypeOK, WorkTypes, ApiTypes
<1>2. SUFFICES ASSUME Next PROVE TypeOK'
  BY DEF TypeOK, vars, workVars, apiVars, hookVars
<1>3. late' \in Nat
  BY <1>2, LateType
<1>4. ASSUME NEW p \in Procs, ApiStep(p) PROVE TypeOK'
  <2>1. UNCHANGED hookVars
    BY <1>4 DEF ApiStep, Request, HandlerStep, DispatchFails, ProcessDies, StartStepOf,
       CountAudience, WipeLogs, SaveStart, SaveStartFails, DispatchInsert, DispatchDuplicate,
       DispatchEnqueue, DispatchDone, DispatchCatch, Pause, Resume, Edit, ScheduleCancel, ScheduleAdd,
       ScheduleSave, UnscheduleCancel, UnscheduleSave, RemoveCancel, RemoveDrain, RemoveWipe,
       RemoveDelete, SetStatus, KeepOutside, hookVars
  <2> QED BY <1>1, <1>3, <1>4, <2>1, ApiStepTypes DEF TypeOK, WorkTypes, ApiTypes, hookVars
<1>5. CASE SchedulerTakes
  BY <1>3, <1>5, SchedulerTypes DEF SchedulerTakes, TypeOK, ApiTypes, KeepOutside, KeepJobs, workVars, hookVars
<1>6. ASSUME NEW j \in Jobs, WorkerStep(j) PROVE TypeOK'
  <2>1. UNCHANGED <<apiVars, hookVars>>
    BY <1>6 DEF WorkerStep, WorkStep, ReadStep, SendStep, BookStep, AuthStep, FailStep, BounceStep,
       Take, DiscardDeleted, WaitPaused, AbandonPaused, PassCampaign, PauseLimitPasses, NoCapacity,
       LoadForSend, CannotSend, Accept, RejectLogin, RejectRecipient, FailForNow, BookLog, BookStat,
       BookFinal, CredentialsChanged, CredentialsSame, PauseForAuth, FailLog, FailStat, FailFinal,
       FailPause, BounceFind, BounceMark, BounceMarkLost, BounceKnown, BounceCount, BounceFinal,
       BouncePause, MongoFault, WorkerDies, RecoverStalled, KeepOthers, apiVars, hookVars
  <2> QED BY <1>1, <1>3, <1>6, <2>1, WorkerTypes DEF TypeOK, WorkTypes, apiVars, hookVars
<1>7. ASSUME NEW h \in Hooks, HookArrives(h) \/ HookStepOf(h) PROVE TypeOK'
  BY <1>3, <1>7, HookTypes DEF TypeOK, WorkTypes, ApiTypes
<1>8. CASE Outside
  BY <1>3, <1>8, OutsideTypes DEF Outside, AudienceChanges, EditSmtp, RevokePassword, RemoveSmtp,
     KeepAllBut, TypeOK, workVars, apiVars, hookVars
<1> QED BY <1>2, <1>4, <1>5, <1>6, <1>7, <1>8 DEF Next

\* Every variable of the campaign keeps its type, over all the interleavings of handlers,
\* workers, webhooks, crashes and outside events.
THEOREM TypeCorrect == Spec => []TypeOK
  BY TypeInit, TypeStep, PTL DEF Spec

-----------------------------------------------------------------------------
(* No duplicate mail.                                                       *)
\* No message was sent yet.
LEMMA MailInit == Init => MailInv
<1> SUFFICES ASSUME Init PROVE MailInv
  OBVIOUS
<1>1. ASSUME NEW j \in Jobs PROVE JobInv(j)
  BY DEF Init, JobInv, MayStillSend
<1>2. DispatchInv
  BY DEF Init, DispatchInv, Unqueued, NewDoc, Idle
<1> QED BY <1>1, <1>2 DEF MailInv

-----------------------------------------------------------------------------
(* The e-mail workers. *)

\* A worker's step on job j disturbs no other job, no dispatch, and not the run.
Alone(j) ==
    /\ queue[j] # "none"
    /\ proc' = proc /\ camp'.run = camp.run
    /\ \A i \in Jobs \ {j} : /\ queue'[i] = queue[i] /\ pc'[i] = pc[i]
                             /\ mails'[i] = mails[i] /\ stalls'[i] = stalls[i]

\* A job is taken and its status read, without a message.
LEMMA ReadAlone ==
  ASSUME WorkTypes, NEW j \in Jobs, JobInv(j),
         Take(j) \/ ReadStep(j) \/ PauseLimitPasses(j) \/ NoCapacity(j) \/ LoadForSend(j) \/ CannotSend(j)
  PROVE  Alone(j) /\ JobInv(j)'
<1> USE DEF WorkTypes, JobInv, MayStillSend, Alone, KeepOthers, KeepQueue, KeepJob, Goto, At, BookPc, FailPc, apiVars
<1>1. CASE Take(j)
  BY <1>1 DEF Take
<1>2. queue[j] \in QueueState
  OBVIOUS
<1>5. CASE DiscardDeleted(j)
  BY <1>2, <1>5 DEF DiscardDeleted, Complete, QueueState
<1>6. CASE WaitPaused(j) \/ NoCapacity(j)
  BY <1>2, <1>6 DEF WaitPaused, NoCapacity, Delay, QueueState
<1>3. CASE AbandonPaused(j) \/ PassCampaign(j) \/ LoadForSend(j) \/ CannotSend(j)
  BY <1>3 DEF AbandonPaused, PassCampaign, LoadForSend, CannotSend
<1>4. CASE PauseLimitPasses(j)
  BY <1>4 DEF PauseLimitPasses, Pending
<1> QED BY <1>1, <1>3, <1>4, <1>5, <1>6 DEF ReadStep

\* An error before the message leaves puts the job back, or fails it.
LEMMA ThrowAlone ==
  ASSUME WorkTypes, NEW j \in Jobs, JobInv(j), queue[j] = "active", pc[j] \notin BookPc,
         Throw(j), UNCHANGED <<camp, proc>>
  PROVE  Alone(j) /\ JobInv(j)'
  BY DEF WorkTypes, JobInv, MayStillSend, Alone, Throw, Goto, FailPc

\* The one step that sends leads to the bookkeeping, from which no way leads back.
LEMMA SendAlone ==
  ASSUME WorkTypes, NEW j \in Jobs, JobInv(j), SendStep(j) \/ AuthStep(j)
  PROVE  Alone(j) /\ JobInv(j)'
<1>1. CASE FailForNow(j)
  BY <1>1, ThrowAlone DEF FailForNow, At, BookPc, FailPc, JobInv, KeepOthers, apiVars, WorkTypes, QueueState
<1> USE DEF WorkTypes, JobInv, MayStillSend, Alone, KeepOthers, KeepQueue, KeepJob, Goto, At, BookPc, FailPc, apiVars
<1>2. CASE Accept(j)
  BY <1>2 DEF Accept, QueueState
<1>3. CASE RejectLogin(j) \/ RejectRecipient(j) \/ CredentialsSame(j)
  BY <1>3 DEF RejectLogin, RejectRecipient, CredentialsSame, QueueState
<1>4. CASE CredentialsChanged(j)
  BY <1>4 DEF CredentialsChanged, Delay, QueueState
<1>5. CASE PauseForAuth(j)
  <2>1. camp'.run = camp.run
    BY <1>5 DEF PauseForAuth, CampaignDoc
  <2> QED BY <1>5, <2>1 DEF PauseForAuth, Delay, QueueState
<1> QED BY <1>1, <1>2, <1>3, <1>4, <1>5 DEF SendStep, AuthStep

\* The bookkeeping and the counts of failures and bounces send nothing.
LEMMA CountAlone ==
  ASSUME WorkTypes, NEW j \in Jobs, JobInv(j), BookStep(j) \/ FailStep(j) \/ BounceStep(j)
  PROVE  Alone(j) /\ JobInv(j)'
<1>1. /\ Finalized.run = camp.run /\ AutoPaused.run = camp.run
      /\ \A f \in {"sent", "failed", "bounced"} : Increment(f).run = camp.run
  BY DEF WorkTypes, CampaignDoc, Finalized, AutoPaused, Increment
<1>2. CASE BookStep(j)
  BY <1>1, <1>2 DEF WorkTypes, JobInv, MayStillSend, Alone, BookStep, BookLog, BookStat, BookFinal,
              Complete, KeepOthers, KeepJob, KeepQueue, Goto, At, BookPc, FailPc, apiVars
<1>3. CASE FailStep(j)
  BY <1>1, <1>3 DEF WorkTypes, JobInv, MayStillSend, Alone, FailStep, FailLog, FailStat, FailFinal,
              FailPause, Return, Complete, KeepOthers, KeepJob, KeepQueue, Goto, At, BookPc, FailPc, apiVars
<1>4. CASE BounceMarkLost(j)
  BY <1>4, ThrowAlone DEF BounceMarkLost, At, BookPc, FailPc, JobInv, KeepOthers, apiVars, WorkTypes, QueueState
<1>5. CASE BounceStep(j) /\ ~BounceMarkLost(j)
  BY <1>1, <1>5 DEF WorkTypes, JobInv, MayStillSend, Alone, BounceStep, BounceFind, BounceMark,
              BounceKnown, BounceCount, BounceFinal, BouncePause, Complete, KeepOthers, KeepJob,
              KeepQueue, Goto, At, BookPc, FailPc, apiVars
<1> QED BY <1>2, <1>3, <1>4, <1>5

\* A fault in the bookkeeping ends the job; only a death gives it back, and is counted.
LEMMA CrashAlone ==
  ASSUME WorkTypes, NEW j \in Jobs, JobInv(j), MongoFault(j) \/ WorkerDies(j) \/ RecoverStalled(j)
  PROVE  Alone(j) /\ JobInv(j)'
<1>1. CASE MongoFault(j) /\ Throw(j)
  <2>1. queue[j] = "active" /\ pc[j] \notin BookPc
    <3>1. queue[j] \in QueueState
      BY DEF WorkTypes
    <3>2. CASE pc[j] \in {"got", "cleared"} \cup AuthPc \cup BouncePc
      BY <3>1, <3>2 DEF JobInv, QueueState, AuthPc, BouncePc, FailPc, BookPc
    <3>3. CASE pc[j] \in FailPc /\ queue[j] = "active"
      BY <3>3 DEF FailPc, BookPc
    <3>4. CASE pc[j] \in FailPc /\ queue[j] = "failed" /\ KeepJob
      BY <1>1, <3>4 DEF Throw, KeepJob, KeepQueue, WorkTypes
    <3>5. CASE pc[j] \in BookPc /\ Complete(j)
      BY <1>1, <3>5 DEF Throw, Complete, WorkTypes
    <3> QED BY <1>1, <3>2, <3>3, <3>4, <3>5 DEF MongoFault
  <2> QED BY <1>1, <2>1, ThrowAlone DEF MongoFault, KeepOthers, apiVars
<1>2. CASE MongoFault(j) /\ ~Throw(j)
  BY <1>2 DEF WorkTypes, JobInv, MayStillSend, Alone, MongoFault, Complete, KeepOthers, KeepJob,
              KeepQueue, Goto, BookPc, FailPc, apiVars
<1>3. CASE WorkerDies(j)
  BY <1>3 DEF WorkTypes, JobInv, MayStillSend, Alone, WorkerDies, KeepOthers, Goto, BookPc, FailPc, apiVars
<1>4. CASE RecoverStalled(j)
  <2>1. queue[j] = "active" /\ mails[j] <= stalls[j]
    BY <1>4 DEF RecoverStalled, At, JobInv, MayStillSend, BookPc, FailPc, WorkTypes, QueueState
  <2>2. proc' = proc /\ camp' = camp /\ mails' = mails /\ stalls' = stalls
    BY <1>4 DEF RecoverStalled, Delay, KeepOthers, apiVars
  <2>3. \/ queue' = [queue EXCEPT ![j] = "waiting"] /\ pc' = [pc EXCEPT ![j] = "idle"]
        \/ /\ queue' = [queue EXCEPT ![j] = "failed"]
           /\ pc' = [pc EXCEPT ![j] = "failLog"] \/ pc' = [pc EXCEPT ![j] = "idle"]
    BY <1>4 DEF RecoverStalled, Delay, Goto
  <2> QED BY <2>1, <2>2, <2>3 DEF Alone, JobInv, MayStillSend, BookPc, FailPc, WorkTypes
<1> QED BY <1>1, <1>2, <1>3, <1>4

\* Every step of a worker concerns its own job.
LEMMA WorkerAlone ==
  ASSUME WorkTypes, NEW j \in Jobs, JobInv(j), WorkerStep(j)
  PROVE  Alone(j) /\ JobInv(j)'
  BY ReadAlone, SendAlone, CountAlone, CrashAlone DEF WorkerStep, WorkStep

\* So it keeps the invariant of all.
LEMMA WorkerMail ==
  ASSUME WorkTypes, MailInv, NEW j \in Jobs, WorkerStep(j)
  PROVE  MailInv'
<1>1. Alone(j) /\ JobInv(j)'
  BY WorkerAlone DEF MailInv
<1>2. ASSUME NEW i \in Jobs \ {j} PROVE JobInv(i)'
  BY <1>1, <1>2 DEF Alone, MailInv, JobInv, MayStillSend
<1>3. DispatchInv'
  BY <1>1 DEF Alone, MailInv, DispatchInv, Unqueued
<1> QED BY <1>1, <1>2, <1>3 DEF MailInv

-----------------------------------------------------------------------------
(* The handlers. *)

\* A step of handler p that leaves the jobs alone and dispatches nothing.
Quiet(p) ==
    /\ UNCHANGED <<queue, pc, mails, stalls>>
    /\ camp'.run = camp.run
    /\ \A q \in Procs \ {p} : proc'[q] = proc[q]
    /\ proc'[p].run \in {0, proc[p].run}
    /\ proc'[p].doc.run <= camp.run
    /\ proc'[p].batch \cap proc'[p].todo = {}
    /\ proc'[p].step \notin {"dispatch", "enqueue"}

\* Steps of a handler that queue nothing and take no run.
LEMMA QuietMail ==
  ASSUME WorkTypes, ApiTypes, MailInv, NEW p \in Procs, Quiet(p)
  PROVE  MailInv'
<1>1. ASSUME NEW j \in Jobs PROVE JobInv(j)'
  BY <1>1 DEF Quiet, MailInv, JobInv, MayStillSend
<1>2. camp.run \in Nat /\ \A q \in Procs : proc[q].run \in Nat
  BY DEF WorkTypes, CampaignDoc, ApiTypes, Proc
<1>3. \A q \in Procs : /\ proc'[q].run \in {0, proc[q].run}
                       /\ proc'[q].run <= camp'.run /\ proc'[q].doc.run <= camp'.run
                       /\ proc'[q].batch \cap proc'[q].todo = {}
  BY <1>2 DEF Quiet, MailInv, DispatchInv
<1>4. ASSUME NEW q \in Procs, NEW r \in Procs, q # r, proc'[q].run # 0
      PROVE  proc'[q].run # proc'[r].run
  BY <1>2, <1>3, <1>4 DEF MailInv, DispatchInv
<1>5. ASSUME NEW q \in Procs, NEW j \in Jobs, Unqueued(q, j)' PROVE queue'[j] = "none"
  BY <1>5 DEF Quiet, MailInv, DispatchInv, Unqueued
<1>6. \A j \in Jobs : j[2] > camp'.run => queue'[j] = "none"
  BY DEF Quiet, MailInv, DispatchInv
<1>7. DispatchInv'
  BY <1>3, <1>4, <1>5, <1>6 DEF DispatchInv
<1> QED BY <1>1, <1>7 DEF MailInv

\* Ending, or advancing to a step that is not of the dispatch, is quiet.
LEMMA MoveQuiet ==
  ASSUME WorkTypes, ApiTypes, MailInv, NEW p \in Procs,
         UNCHANGED <<queue, pc, mails, stalls>>, camp'.run = camp.run
  PROVE  /\ EndOf(p) => Quiet(p)
         /\ \A s \in ProcStep \ {"dispatch", "enqueue"} :
               /\ proc' = [proc EXCEPT ![p].step = s] => Quiet(p)
               /\ Advance(p, s) => Quiet(p)
               /\ CancelSchedule(p, s) => Quiet(p)
         /\ \A o \in Operations \cup {"start"} : proc' = Begin(p, o) => Quiet(p)
<1>1. camp.run \in Nat /\ proc[p] \in Proc
  BY DEF WorkTypes, CampaignDoc, ApiTypes
<1>2. proc[p].doc.run <= camp.run /\ proc[p].batch \cap proc[p].todo = {}
  BY DEF MailInv, DispatchInv
<1>3. EndOf(p) => Quiet(p)
  BY <1>1 DEF EndOf, Quiet, ApiTypes, Idle, NewDoc
<1>4. ASSUME NEW s \in ProcStep \ {"dispatch", "enqueue"}
      PROVE  proc' = [proc EXCEPT ![p].step = s] => Quiet(p)
  BY <1>1, <1>2 DEF Quiet, ApiTypes, Proc
<1>5. ASSUME NEW s \in ProcStep \ {"dispatch", "enqueue"}
      PROVE  (Advance(p, s) => Quiet(p)) /\ (CancelSchedule(p, s) => Quiet(p))
  BY <1>3, <1>4 DEF Advance, CancelSchedule
<1>6. ASSUME NEW o \in Operations \cup {"start"}, proc' = Begin(p, o) PROVE Quiet(p)
  <2>1. AfterLoad(o) \notin {"dispatch", "enqueue"}
    BY DEF AfterLoad
  <2> QED BY <1>1, <1>6, <2>1 DEF Begin, Quiet, ApiTypes, Idle
<1> QED BY <1>3, <1>4, <1>5, <1>6

\* Saves keep the run, for the loaded document's is not newer than the stored one.
LEMMA SaveKeepsRun ==
  ASSUME WorkTypes, ApiTypes, NEW p \in Procs
  PROVE  \A s : Written(p, [Doc(p) EXCEPT !.status = s]).run = camp.run
<1>1. Doc(p) \in CampaignDoc
  BY DocTypes
<1> QED BY <1>1 DEF CampaignDoc, Written, Kept

\* Pauses, edits and schedules are such steps.
LEMMA EditQuiet ==
  ASSUME WorkTypes, ApiTypes, MailInv, NEW p \in Procs,
         Request(p) \/ Pause(p) \/ Resume(p) \/ Edit(p) \/ ScheduleCancel(p) \/ ScheduleAdd(p) \/ ScheduleSave(p)
         \/ UnscheduleCancel(p) \/ UnscheduleSave(p) \/ RemoveCancel(p) \/ RemoveWipe(p) \/ RemoveDelete(p)
  PROVE  Quiet(p)
<1>1. camp'.run = camp.run
  <2>1. CASE Pause(p) \/ Resume(p) \/ ScheduleSave(p) \/ UnscheduleSave(p)
    BY <2>1, SaveKeepsRun DEF Pause, Resume, ScheduleSave, UnscheduleSave, SetStatus, SaveScalars
  <2>2. CASE Edit(p) \/ RemoveDelete(p)
    BY <2>2 DEF Edit, RemoveDelete, SaveArrays, WorkTypes, CampaignDoc
  <2>3. CASE Request(p) \/ ScheduleCancel(p) \/ ScheduleAdd(p) \/ UnscheduleCancel(p) \/ RemoveCancel(p) \/ RemoveWipe(p)
    BY <2>3 DEF Request, ScheduleCancel, ScheduleAdd, UnscheduleCancel, RemoveCancel, RemoveWipe
  <2> QED BY <2>1, <2>2, <2>3
<1>2. UNCHANGED <<queue, pc, mails, stalls>>
  BY DEF Request, Pause, Resume, Edit, ScheduleCancel, ScheduleAdd, ScheduleSave, UnscheduleCancel, UnscheduleSave,
         RemoveCancel, RemoveWipe, RemoveDelete, SetStatus, KeepOutside, KeepJobs, workVars
<1>3. CASE Request(p)
  <2>1. CASE proc' = proc
    BY <1>1, <1>2, <1>3, <2>1 DEF Quiet, Request, Step, MailInv, DispatchInv
  <2> QED BY <1>1, <1>2, <1>3, <2>1, MoveQuiet DEF Request
<1>4. {"add", "save", "drain", "wipe", "delete"} \subseteq ProcStep \ {"dispatch", "enqueue"}
  BY DEF ProcStep, StartStep
<1>5. CASE Pause(p) \/ Resume(p) \/ Edit(p) \/ ScheduleSave(p) \/ UnscheduleSave(p) \/ RemoveDelete(p)
  BY <1>1, <1>2, <1>5, MoveQuiet DEF Pause, Resume, Edit, ScheduleSave, UnscheduleSave, RemoveDelete, SetStatus
<1>6. CASE ScheduleAdd(p)
  BY <1>1, <1>2, <1>4, <1>6, MoveQuiet DEF ScheduleAdd
<1>7. CASE ScheduleCancel(p) \/ UnscheduleCancel(p) \/ RemoveCancel(p)
  BY <1>1, <1>2, <1>4, <1>7, MoveQuiet DEF ScheduleCancel, UnscheduleCancel, RemoveCancel
<1>8. CASE RemoveWipe(p)
  BY <1>1, <1>2, <1>4, <1>8, MoveQuiet DEF RemoveWipe
<1> QED BY <1>3, <1>5, <1>6, <1>7, <1>8

\* So are the steps of a start around its save and its batches.
LEMMA StartQuiet ==
  ASSUME WorkTypes, ApiTypes, MailInv, NEW p \in Procs,
         CountAudience(p) \/ WipeLogs(p) \/ SaveStartFails(p) \/ DispatchDuplicate(p)
         \/ DispatchDone(p) \/ DispatchFails(p) \/ DispatchCatch(p) \/ ProcessDies(p)
  PROVE  Quiet(p)
<1>1. camp'.run = camp.run
  <2>1. CASE DispatchCatch(p)
    <3> DEFINE halted == [Doc(p) EXCEPT !.status = "paused", !.total = proc[p].queued]
    <3>1. halted.run = Doc(p).run
      BY DocTypes DEF CampaignDoc
    <3>2. Written(p, halted).run = camp.run
      BY <3>1 DEF Written, Kept
    <3>3. camp' = Written(p, halted) \/ UNCHANGED camp
      BY <2>1 DEF DispatchCatch, SaveScalars
    <3> QED BY <3>2, <3>3
  <2> QED BY <2>1 DEF CountAudience, WipeLogs, SaveStartFails, DispatchDuplicate, DispatchDone,
                      DispatchFails, ProcessDies
<1>2. UNCHANGED <<queue, pc, mails, stalls>>
  BY DEF CountAudience, WipeLogs, SaveStartFails, DispatchDuplicate, DispatchDone,
     DispatchFails, DispatchCatch, ProcessDies, KeepOutside, KeepJobs, workVars
<1>3. {"wipe", "save", "catch"} \subseteq ProcStep \ {"dispatch", "enqueue"}
  BY DEF ProcStep, StartStep
<1>4. CASE CountAudience(p)
  <2>1. CASE EndOf(p)
    BY <1>1, <1>2, <2>1, MoveQuiet
  <2>2. CASE ~EndOf(p)
    <3>1. proc' = [proc EXCEPT ![p] = [@ EXCEPT !.total = Cardinality(eligible), !.step = "wipe"]]
      BY <1>4, <2>2 DEF CountAudience
    <3>2. proc[p].doc.run <= camp.run /\ proc[p].batch \cap proc[p].todo = {}
      BY DEF MailInv, DispatchInv
    <3> QED BY <1>1, <1>2, <3>1, <3>2 DEF Quiet, ApiTypes, Proc
  <2> QED BY <2>1, <2>2
<1>5. CASE WipeLogs(p) \/ DispatchDuplicate(p) \/ DispatchFails(p)
  BY <1>1, <1>2, <1>3, <1>5, MoveQuiet DEF WipeLogs, DispatchDuplicate, DispatchFails
<1>6. CASE SaveStartFails(p) \/ DispatchDone(p) \/ DispatchCatch(p)
  BY <1>1, <1>2, <1>6, MoveQuiet DEF SaveStartFails, DispatchDone, DispatchCatch
<1>7. CASE ProcessDies(p)
  BY <1>1, <1>2, <1>7 DEF ProcessDies, Quiet, ApiTypes, Idle, NewDoc, WorkTypes, CampaignDoc
<1> QED BY <1>4, <1>5, <1>6, <1>7

-----------------------------------------------------------------------------
(* The four handler steps that are not quiet. *)

\* A start takes a run number nobody has used.
LEMMA SaveStartMail ==
  ASSUME WorkTypes, ApiTypes, MailInv, NEW p \in Procs, SaveStart(p)
  PROVE  MailInv'
<1>1. camp.run \in Nat /\ \A q \in Procs : proc[q] \in Proc
  BY DEF WorkTypes, ApiTypes, CampaignDoc
<1>2. UNCHANGED <<queue, pc, mails, stalls>>
  BY DEF SaveStart, KeepOutside, KeepJobs, workVars
<1>3. camp'.run = camp.run + 1
  <2>1. Doc(p) \in CampaignDoc /\ Doc(p).run <= camp.run
    BY DocTypes DEF MailInv, DispatchInv, Doc
  <2>2. StartedDoc(p).run = camp.run + 1
    BY <2>1 DEF StartedDoc, CampaignDoc
  <2>3. Written(p, StartedDoc(p)).run = camp.run + 1
    BY <1>1, <2>1, <2>2 DEF Written, Kept, CampaignDoc
  <2>4. Written(p, StartedDoc(p)) \in CampaignDoc
    BY DocTypes
  <2> QED BY <2>3, <2>4 DEF SaveStart, SaveArrays, CampaignDoc
<1>4. /\ proc'[p].run = camp.run + 1 /\ proc'[p].doc.run = camp.run + 1
      /\ proc'[p].batch = {}
  <2>1. Doc(p) \in CampaignDoc
    BY DocTypes
  <2>2. StartedDoc(p).run = camp.run + 1
    BY <2>1 DEF StartedDoc, CampaignDoc
  <2> QED BY <1>1, <2>2 DEF SaveStart, Proc, ApiTypes
<1>5. \A q \in Procs \ {p} : proc'[q] = proc[q]
  BY DEF SaveStart, ApiTypes
<1>6. ASSUME NEW j \in Jobs PROVE JobInv(j)'
  BY <1>2, <1>6 DEF MailInv, JobInv, MayStillSend
<1>7. \A q \in Procs : /\ proc'[q].run <= camp'.run /\ proc'[q].doc.run <= camp'.run
                       /\ proc'[q].batch \cap proc'[q].todo = {}
  BY <1>1, <1>3, <1>4, <1>5 DEF MailInv, DispatchInv, Proc, CampaignDoc
<1>8. ASSUME NEW q \in Procs, NEW r \in Procs, q # r, proc'[q].run # 0
      PROVE  proc'[q].run # proc'[r].run
  BY <1>1, <1>3, <1>4, <1>5, <1>8 DEF MailInv, DispatchInv, Proc
<1>9. ASSUME NEW q \in Procs, NEW j \in Jobs, Unqueued(q, j)' PROVE queue'[j] = "none"
  <2>1. CASE q = p
    BY <1>1, <1>2, <1>4, <1>9, <2>1 DEF MailInv, DispatchInv, Unqueued
  <2>2. CASE q # p
    BY <1>2, <1>5, <1>9, <2>2 DEF MailInv, DispatchInv, Unqueued
  <2> QED BY <2>1, <2>2
<1>10. ASSUME NEW j \in Jobs, j[2] > camp'.run PROVE queue'[j] = "none"
  <2>1. j[2] \in Nat /\ j[2] > camp.run
    BY <1>1, <1>3, <1>10, BoundsAssumption DEF Jobs, Runs
  <2> QED BY <1>2, <2>1 DEF MailInv, DispatchInv
<1>11. DispatchInv'
  BY <1>7, <1>8, <1>9, <1>10 DEF DispatchInv
<1> QED BY <1>6, <1>11 DEF MailInv

\* A batch moves from the cursor to the hands of the dispatch, with its SendLogs.
LEMMA InsertMail ==
  ASSUME WorkTypes, ApiTypes, MailInv, NEW p \in Procs, DispatchInsert(p)
  PROVE  MailInv'
<1>1. PICK B \in SUBSET Contacts :
        /\ B \subseteq proc[p].todo
        /\ proc' = [proc EXCEPT ![p] = [@ EXCEPT !.batch = B, !.todo = proc[p].todo \ B, !.step = "enqueue"]]
  BY DEF DispatchInsert, IsBatch, NextRows
<1>2. UNCHANGED <<camp, queue, pc, mails, stalls>>
  BY DEF DispatchInsert, KeepOutside, KeepJobs, workVars
<1>3. /\ \A q \in Procs : proc'[q].run = proc[q].run /\ proc'[q].doc = proc[q].doc
      /\ \A q \in Procs \ {p} : proc'[q] = proc[q]
      /\ proc'[p].batch = B /\ proc'[p].todo = proc[p].todo \ B
  BY <1>1 DEF ApiTypes, Proc
<1>4. ASSUME NEW j \in Jobs PROVE JobInv(j)'
  BY <1>2, <1>4 DEF MailInv, JobInv, MayStillSend
<1>5. ASSUME NEW q \in Procs, NEW j \in Jobs, Unqueued(q, j)' PROVE queue'[j] = "none"
  <2>1. Unqueued(q, j)
    BY <1>1, <1>3, <1>5 DEF Unqueued, DispatchInsert, Step
  <2> QED BY <1>2, <2>1 DEF MailInv, DispatchInv
<1>6. DispatchInv'
  BY <1>1, <1>2, <1>3, <1>5 DEF MailInv, DispatchInv
<1> QED BY <1>4, <1>6 DEF MailInv

\* The batch is queued: jobs that were in the queue under no state.
LEMMA EnqueueMail ==
  ASSUME WorkTypes, ApiTypes, MailInv, NEW p \in Procs, DispatchEnqueue(p)
  PROVE  MailInv'
<1>1. /\ queue' = [j \in Jobs |-> IF j[1] \in proc[p].batch /\ j[2] = proc[p].run
                                  THEN "waiting" ELSE queue[j]]
      /\ UNCHANGED <<camp, pc, mails, stalls>>
  BY DEF DispatchEnqueue
<1>2. /\ \A q \in Procs : proc'[q].run = proc[q].run /\ proc'[q].doc = proc[q].doc
      /\ \A q \in Procs \ {p} : proc'[q] = proc[q]
      /\ proc'[p].batch = {} /\ proc'[p].todo = proc[p].todo
  BY DEF DispatchEnqueue, ApiTypes, Proc
<1>3. ASSUME NEW j \in Jobs, j[1] \in proc[p].batch, j[2] = proc[p].run
      PROVE  queue[j] = "none"
  BY <1>3 DEF DispatchEnqueue, Step, MailInv, DispatchInv, Unqueued
<1>4. ASSUME NEW j \in Jobs PROVE JobInv(j)'
  BY <1>1, <1>3, <1>4 DEF MailInv, JobInv, MayStillSend, WorkTypes
<1>5. ASSUME NEW q \in Procs, NEW j \in Jobs, Unqueued(q, j)' PROVE queue'[j] = "none"
  <2>1. Unqueued(q, j)
    BY <1>2, <1>5 DEF Unqueued, DispatchEnqueue, Step
  <2>2. queue[j] = "none"
    BY <2>1 DEF MailInv, DispatchInv
  <2>3. CASE q = p
    BY <1>1, <1>2, <1>5, <2>2, <2>3 DEF Unqueued, MailInv, DispatchInv
  <2>4. CASE q # p
    <3>1. j[2] = proc[q].run
      BY <2>1 DEF Unqueued
    <3>2. proc[p].run # proc[q].run \/ proc[p].run = 0
      BY <2>4 DEF MailInv, DispatchInv
    <3>3. j[2] # 0
      BY BoundsAssumption DEF Jobs, Runs
    <3> QED BY <1>1, <2>2, <3>1, <3>2, <3>3
  <2> QED BY <2>3, <2>4
<1>6. ASSUME NEW j \in Jobs, j[2] > camp'.run PROVE queue'[j] = "none"
  <2>1. proc[p].run \in Nat /\ proc[p].run <= camp.run /\ camp.run \in Nat /\ j[2] \in Nat
    BY BoundsAssumption DEF MailInv, DispatchInv, ApiTypes, Proc, WorkTypes, CampaignDoc, Jobs, Runs
  <2>2. j[2] # proc[p].run /\ queue[j] = "none"
    BY <1>1, <1>6, <2>1 DEF MailInv, DispatchInv
  <2> QED BY <1>1, <2>2
<1>7. DispatchInv'
  <2>1. \A q \in Procs : proc'[q].batch \cap proc'[q].todo = {}
    BY <1>2 DEF MailInv, DispatchInv
  <2> QED BY <1>1, <1>2, <1>5, <1>6, <2>1 DEF MailInv, DispatchInv
<1> QED BY <1>4, <1>7 DEF MailInv

\* A deletion takes waiting jobs out of the queue.
LEMMA DrainMail ==
  ASSUME WorkTypes, ApiTypes, MailInv, NEW p \in Procs, RemoveDrain(p)
  PROVE  MailInv'
<1>1. /\ queue' = [j \in Jobs |-> IF queue[j] = "waiting" THEN "removed" ELSE queue[j]]
      /\ UNCHANGED <<camp, pc, mails, stalls>>
      /\ proc' = [proc EXCEPT ![p].step = "wipe"]
  BY DEF RemoveDrain, Advance
<1>2. ASSUME NEW j \in Jobs PROVE JobInv(j)'
  BY <1>1, <1>2 DEF MailInv, JobInv, MayStillSend, WorkTypes
<1>3. \A q \in Procs : /\ proc'[q].run = proc[q].run /\ proc'[q].doc = proc[q].doc
                       /\ proc'[q].batch = proc[q].batch /\ proc'[q].todo = proc[q].todo
                       /\ proc'[q].step \in {proc[q].step, "wipe"}
  BY <1>1 DEF ApiTypes, Proc
<1>4. \A j \in Jobs : queue[j] = "none" => queue'[j] = "none"
  BY <1>1
<1>5. ASSUME NEW q \in Procs, NEW j \in Jobs, Unqueued(q, j)' PROVE Unqueued(q, j)
  BY <1>3, <1>5 DEF Unqueued
<1>6. DispatchInv'
  BY <1>1, <1>3, <1>4, <1>5 DEF MailInv, DispatchInv
<1> QED BY <1>2, <1>6 DEF MailInv

\* Every step of a request keeps the invariant.
LEMMA ApiMail ==
  ASSUME WorkTypes, ApiTypes, MailInv, NEW p \in Procs, ApiStep(p)
  PROVE  MailInv'
  BY QuietMail, EditQuiet, StartQuiet, SaveStartMail, InsertMail, EnqueueMail, DrainMail
     DEF ApiStep, HandlerStep, StartStepOf

-----------------------------------------------------------------------------
\* Every step does.
LEMMA MailStep == TypeOK /\ MailInv /\ [Next]_vars => MailInv'
<1> SUFFICES ASSUME TypeOK, MailInv, [Next]_vars PROVE MailInv'
  OBVIOUS
<1>1. WorkTypes /\ ApiTypes
  BY DEF TypeOK, WorkTypes, ApiTypes
<1>2. ASSUME UNCHANGED <<camp, queue, pc, mails, stalls, proc>> PROVE MailInv'
  BY <1>2 DEF MailInv, JobInv, MayStillSend, DispatchInv, Unqueued
<1>3. CASE UNCHANGED vars
  BY <1>2, <1>3 DEF vars, workVars, apiVars
<1>4. ASSUME NEW p \in Procs, ApiStep(p) PROVE MailInv'
  BY <1>1, <1>4, ApiMail
<1>5. ASSUME NEW j \in Jobs, WorkerStep(j) PROVE MailInv'
  BY <1>1, <1>5, WorkerMail
<1>6. CASE SchedulerTakes
  <2>1. UNCHANGED <<camp, queue, pc, mails, stalls>>
    BY <1>6 DEF SchedulerTakes, KeepOutside, KeepJobs, workVars
  <2>2. CASE proc' = proc
    BY <1>2, <2>1, <2>2
  <2>3. CASE proc' = Begin(Scheduler, "start")
    <3>1. Scheduler \in Procs
      BY DEF Procs
    <3>2. Quiet(Scheduler)
      BY <1>1, <2>1, <2>3, <3>1, MoveQuiet
    <3> QED BY <1>1, <3>1, <3>2, QuietMail
  <2> QED BY <1>6, <2>2, <2>3 DEF SchedulerTakes
<1>7. ASSUME NEW h \in Hooks, HookArrives(h) \/ HookStepOf(h) PROVE MailInv'
  <2>1. UNCHANGED <<queue, pc, mails, stalls, proc>>
    BY <1>7 DEF HookArrives, HookStepOf, HookFind, HookMark, HookCount, KeepApart, workVars, apiVars
  <2>2. camp'.run = camp.run
    BY <1>1, <1>7 DEF HookArrives, HookStepOf, HookFind, HookMark, HookCount, Increment, WorkTypes, CampaignDoc
  <2> QED BY <2>1, <2>2 DEF MailInv, JobInv, MayStillSend, DispatchInv, Unqueued
<1>8. CASE Outside
  BY <1>2, <1>8 DEF Outside, AudienceChanges, EditSmtp, RevokePassword, RemoveSmtp, KeepAllBut,
     workVars, apiVars
<1> QED BY <1>3, <1>4, <1>5, <1>6, <1>7, <1>8 DEF Next

\* The inductive invariant holds.
THEOREM MailInvariant == Spec => [](TypeOK /\ MailInv)
<1>1. Init => TypeOK /\ MailInv
  BY TypeInit, MailInit
<1>2. TypeOK /\ MailInv /\ [Next]_vars => (TypeOK /\ MailInv)'
  BY TypeStep, MailStep
<1> QED BY <1>1, <1>2, PTL DEF Spec

\* One dispatch of one contact reaches the SMTP server at most once, plus once for every
\* worker that died holding the job, for any number of contacts, workers and handlers.
THEOREM AtMostOneMail == Spec => []NoDuplicateMail
<1>1. MailInv => NoDuplicateMail
  BY DEF MailInv, JobInv, NoDuplicateMail
<1> QED BY <1>1, MailInvariant, PTL

-----------------------------------------------------------------------------
(* The refinement: a step of a job is a step of its fate, or none. *)

\* Every message starts as absent.
LEMMA FateInit == Init => Promise!DeliveryInit
  BY DEF Init, Promise!DeliveryInit, FateOf

\* A worker takes no job up again that has ended, and sends only the one it holds.
Forward(j) ==
    /\ queue'[j] \in QueueState \ {"none"}
    /\ ~Pending(j) => queue'[j] = queue[j]
    /\ \/ mails'[j] = mails[j]
       \/ mails'[j] = mails[j] + 1 /\ queue[j] = "active" /\ queue'[j] = "active"

\* A worker takes a message only forward: it ends a queued one, and revives none.
LEMMA WorkerForward ==
  ASSUME WorkTypes, NEW j \in Jobs, JobInv(j), WorkerStep(j)
  PROVE  Forward(j)
<1> USE DEF Forward, Pending, QueueState, JobInv, At, Goto, KeepJob, KeepQueue
<1>1. /\ queue[j] \in QueueState /\ queue[j] # "none"
      /\ queue \in [Jobs -> QueueState] /\ pc \in [Jobs -> WorkerPc] /\ mails \in [Jobs -> Nat]
  BY WorkerAlone DEF WorkTypes, Alone
<1>2. CASE Take(j) \/ ReadStep(j) \/ NoCapacity(j) \/ PauseLimitPasses(j) \/ LoadForSend(j) \/ CannotSend(j)
  BY <1>1, <1>2 DEF Take, ReadStep, DiscardDeleted, WaitPaused, AbandonPaused, PassCampaign,
     NoCapacity, PauseLimitPasses, LoadForSend, CannotSend, Complete, Delay, FailPc
<1>3. CASE SendStep(j)
  BY <1>1, <1>3 DEF SendStep, Accept, RejectLogin, RejectRecipient, FailForNow, Throw, FailPc
<1>4. CASE BookStep(j) \/ AuthStep(j)
  BY <1>1, <1>4 DEF BookStep, BookLog, BookStat, BookFinal, AuthStep, CredentialsChanged,
     CredentialsSame, PauseForAuth, Complete, Delay, FailPc
<1>5. CASE FailStep(j)
  BY <1>1, <1>5 DEF FailStep, FailLog, FailStat, FailFinal, FailPause, Return, Complete
<1>6. CASE BounceStep(j)
  BY <1>1, <1>6 DEF BounceStep, BounceFind, BounceMark, BounceMarkLost, BounceKnown, BounceCount,
     BounceFinal, BouncePause, Complete, Throw, FailPc
<1>7. CASE MongoFault(j) \/ WorkerDies(j)
  BY <1>1, <1>7 DEF MongoFault, WorkerDies, Complete, Throw, FailPc, BookPc, AuthPc, BouncePc
<1>8. CASE RecoverStalled(j)
  BY <1>1, <1>8 DEF RecoverStalled, Delay, FailPc
<1> QED BY <1>2, <1>3, <1>4, <1>5, <1>6, <1>7, <1>8 DEF WorkerStep, WorkStep

Fate == [j \in Jobs |-> FateOf(j)]

\* A worker accepts, gives up, or changes nothing that can be seen.
LEMMA WorkerFate ==
  ASSUME WorkTypes, MailInv, NEW j \in Jobs, WorkerStep(j)
  PROVE  Promise!AcceptOne(j) \/ Promise!GiveUp({j}) \/ Fate' = Fate
<1>1. Alone(j) /\ Forward(j)
  BY WorkerAlone, WorkerForward DEF MailInv
<1>2. \A i \in Jobs \ {j} : FateOf(i)' = FateOf(i)
  BY <1>1 DEF Alone, FateOf, Pending
<1>3. mails[j] \in Nat
  BY DEF WorkTypes
<1>4. \/ FateOf(j) = "queued" /\ FateOf(j)' \in {"accepted", "refused"}
      \/ FateOf(j)' = FateOf(j)
  BY <1>1, <1>3 DEF Alone, Forward, FateOf, Pending, QueueState
<1>5. ASSUME FateOf(j) = "queued", FateOf(j)' = "accepted" PROVE Promise!AcceptOne(j)
  BY <1>2, <1>5 DEF Promise!AcceptOne, Promise!SettleAs
<1>6. ASSUME FateOf(j) = "queued", FateOf(j)' = "refused" PROVE Promise!GiveUp({j})
  BY <1>2, <1>6 DEF Promise!GiveUp, Promise!SettleAs
<1>7. ASSUME FateOf(j)' = FateOf(j) PROVE Fate' = Fate
  BY <1>2, <1>7 DEF Fate
<1> QED BY <1>4, <1>5, <1>6, <1>7

\* A batch that is queued is a batch of absent messages.
LEMMA EnqueueFate ==
  ASSUME WorkTypes, ApiTypes, MailInv, NEW p \in Procs, DispatchEnqueue(p)
  PROVE  \E B \in SUBSET Jobs : Promise!QueueBatch(B)
<1> DEFINE B == {j \in Jobs : j[1] \in proc[p].batch /\ j[2] = proc[p].run /\ mails[j] = 0}
<1>1. /\ queue' = [j \in Jobs |-> IF j[1] \in proc[p].batch /\ j[2] = proc[p].run
                                  THEN "waiting" ELSE queue[j]]
      /\ mails' = mails
  BY DEF DispatchEnqueue
<1>2. ASSUME NEW j \in Jobs, j[1] \in proc[p].batch, j[2] = proc[p].run
      PROVE  queue[j] = "none"
  BY <1>2 DEF DispatchEnqueue, Step, MailInv, DispatchInv, Unqueued
<1>3. mails \in [Jobs -> Nat]
  BY DEF WorkTypes
<1>4. \A j \in B : FateOf(j) = "absent" /\ FateOf(j)' = "queued"
  BY <1>1, <1>2, <1>3 DEF FateOf, Pending
<1>5. ASSUME NEW j \in Jobs \ B PROVE FateOf(j)' = FateOf(j)
  BY <1>1, <1>3, <1>5 DEF FateOf, Pending
<1>6. Promise!QueueBatch(B)
  BY <1>4, <1>5 DEF Promise!QueueBatch, Promise!SettleAs
<1> QED BY <1>6

\* A removal gives up what is queued.
LEMMA DrainFate ==
  ASSUME WorkTypes, NEW p \in Procs, RemoveDrain(p)
  PROVE  \E B \in SUBSET Jobs : Promise!GiveUp(B)
<1> DEFINE B == {j \in Jobs : queue[j] = "waiting" /\ mails[j] = 0}
<1>1. /\ queue' = [j \in Jobs |-> IF queue[j] = "waiting" THEN "removed" ELSE queue[j]]
      /\ mails' = mails
  BY DEF RemoveDrain
<1>2. mails \in [Jobs -> Nat]
  BY DEF WorkTypes
<1>3. \A j \in B : FateOf(j) = "queued" /\ FateOf(j)' = "refused"
  BY <1>1, <1>2 DEF FateOf, Pending
<1>4. ASSUME NEW j \in Jobs \ B PROVE FateOf(j)' = FateOf(j)
  BY <1>1, <1>2, <1>4 DEF FateOf, Pending
<1>5. Promise!GiveUp(B)
  BY <1>3, <1>4 DEF Promise!GiveUp, Promise!SettleAs
<1> QED BY <1>5

\* Whatever leaves the queue and the mails alone cannot be seen.
LEMMA SameFate == UNCHANGED <<queue, mails>> => Fate' = Fate
  BY DEF Fate, FateOf, Pending

\* Every step of a request is a step of Delivery or none.
LEMMA ApiFate ==
  ASSUME WorkTypes, ApiTypes, MailInv, NEW p \in Procs, ApiStep(p)
  PROVE  Promise!DeliveryNext \/ Fate' = Fate
<1>1. CASE DispatchEnqueue(p)
  BY <1>1, EnqueueFate DEF Promise!DeliveryNext
<1>2. CASE RemoveDrain(p)
  BY <1>2, DrainFate DEF Promise!DeliveryNext
<1>3. CASE SaveStart(p) \/ DispatchInsert(p)
  BY <1>3, SameFate DEF SaveStart, DispatchInsert, KeepOutside, KeepJobs, workVars
<1>4. CASE Quiet(p)
  BY <1>4, SameFate DEF Quiet
<1> QED BY <1>1, <1>2, <1>3, <1>4, EditQuiet, StartQuiet DEF ApiStep, HandlerStep, StartStepOf

\* Every step is.
LEMMA FateStep == TypeOK /\ MailInv /\ [Next]_vars => [Promise!DeliveryNext]_Fate
<1> SUFFICES ASSUME TypeOK, MailInv, [Next]_vars
             PROVE  Promise!DeliveryNext \/ Fate' = Fate
  OBVIOUS
<1>1. WorkTypes /\ ApiTypes
  BY DEF TypeOK, WorkTypes, ApiTypes
<1>2. CASE UNCHANGED vars
  BY <1>2, SameFate DEF vars, workVars
<1>3. ASSUME NEW p \in Procs, ApiStep(p) PROVE Promise!DeliveryNext \/ Fate' = Fate
  BY <1>1, <1>3, ApiFate
<1>4. ASSUME NEW j \in Jobs, WorkerStep(j) PROVE Promise!DeliveryNext \/ Fate' = Fate
  BY <1>1, <1>4, WorkerFate DEF Promise!DeliveryNext
<1>5. CASE SchedulerTakes \/ Outside \/ \E h \in Hooks : HookArrives(h) \/ HookStepOf(h)
  BY <1>5, SameFate DEF SchedulerTakes, Outside, AudienceChanges, EditSmtp, RevokePassword, RemoveSmtp,
     KeepAllBut, HookArrives, HookStepOf, HookFind, HookMark, HookCount, KeepApart, KeepOutside,
     KeepJobs, workVars
<1> QED BY <1>2, <1>3, <1>4, <1>5 DEF Next

\* The campaign implements Delivery: a message is queued once and settled once, for good,
\* for any number of contacts, workers and handlers, with crashes and faults.
THEOREM CampaignDelivers == Spec => ImplementsDelivery
<1>1. Init => Promise!DeliveryInit
  BY FateInit
<1>2. TypeOK /\ MailInv /\ [Next]_vars => [Promise!DeliveryNext]_Fate
  BY FateStep
<1>3. [Promise!DeliveryNext]_Fate => [Promise!DeliveryNext]_[j \in Jobs |-> FateOf(j)]
  BY DEF Fate
<1> QED BY <1>1, <1>2, <1>3, MailInvariant, PTL DEF Spec, ImplementsDelivery, Promise!DeliverySafe
-----------------------------------------------------------------------------
(* Counting jobs: the messages of a pause, and the messages counted as      *)
(* sent.                                                                    *)

\* Jobs that passed the look at the campaign's status and may still send.
Senders == {j \in Jobs : pc[j] \in {"cleared", "sending"}}
\* Jobs whose message was accepted and is not in the counter yet.
Uncounted == {j \in Jobs : pc[j] \in {"sentLog", "sentStat"}}

Halted == camp.status \in {"paused", "gone"}

LatencyInv ==
    /\ Cardinality(HeldJobs) <= Concurrency
    /\ Halted => late + Cardinality(Senders) <= Concurrency
    /\ ~Halted => late = 0

SentInv ==
    /\ \A j \in Jobs : stalls[j] <= MaxStalls
    /\ camp.sent + Cardinality(Uncounted) <= Cardinality(Accepted)

\* The jobs are a finite set, and so are their messages.
LEMMA JobsFinite ==
  /\ \A S \in SUBSET Jobs : IsFiniteSet(S) /\ Cardinality(S) \in Nat
  /\ IsFiniteSet(Accepted) /\ Cardinality(Accepted) \in Nat
<1>1. IsFiniteSet(Runs) /\ IsFiniteSet(1..1 + MaxStalls)
  <2>1. 1 \in Int /\ MaxRuns \in Int /\ 1 + MaxStalls \in Int
    BY BoundsAssumption
  <2> QED BY <2>1, FS_Interval DEF Runs
<1>2. IsFiniteSet(Jobs)
  BY <1>1, SizesAssumption, FS_Product DEF Jobs
<1>3. IsFiniteSet(Jobs \X (1..1 + MaxStalls))
  BY <1>1, <1>2, FS_Product
<1> QED BY <1>2, <1>3, FS_Subset, FS_CardinalityType DEF Accepted

\* What a step of one job does to the number of the jobs in some place.
LEMMA OneJobMoves ==
  ASSUME NEW S \in SUBSET Jobs, NEW T \in SUBSET Jobs, NEW j \in Jobs,
         \A i \in Jobs \ {j} : i \in T <=> i \in S
  PROVE  /\ j \in S /\ j \notin T => Cardinality(T) = Cardinality(S) - 1
         /\ j \notin S /\ j \in T => Cardinality(T) = Cardinality(S) + 1
         /\ (j \in S <=> j \in T) => Cardinality(T) = Cardinality(S)
<1>1. IsFiniteSet(S)
  BY JobsFinite
<1>2. CASE j \in S /\ j \notin T
  <2>1. T = S \ {j}
    BY <1>2
  <2> QED BY <1>1, <1>2, <2>1, FS_RemoveElement
<1>3. CASE j \notin S /\ j \in T
  <2>1. T = S \cup {j}
    BY <1>3
  <2> QED BY <1>1, <1>3, <2>1, FS_AddElement
<1>4. CASE j \in S <=> j \in T
  <2>1. T = S
    BY <1>4
  <2> QED BY <1>4, <2>1
<1> QED BY <1>2, <1>3, <1>4

\* A job that may send is in the hands of a living worker.
LEMMA SendersHeld ==
  ASSUME TypeOK, MailInv
  PROVE  Senders \subseteq HeldJobs /\ Cardinality(Senders) <= Cardinality(HeldJobs)
<1>1. ASSUME NEW j \in Senders PROVE j \in HeldJobs
  BY <1>1 DEF Senders, HeldJobs, MailInv, JobInv, TypeOK, QueueState, FailPc
<1>2. HeldJobs \subseteq Jobs
  BY DEF HeldJobs
<1> QED BY <1>1, <1>2, JobsFinite, FS_Subset

\* What the counts see of a worker's step.
Passes(j) == pc'[j] \in {"cleared", "sending"} => pc[j] \in {"cleared", "sending"} \/ ~Halted
Quieter(j) ==
    /\ late' = late /\ mails' = mails
    /\ Passes(j)
    /\ pc'[j] \in {"sentLog", "sentStat"} => pc[j] \in {"sentLog", "sentStat"}
    /\ pc'[j] = "sentLog" => pc[j] = "sentLog"
    /\ camp'.status = camp.status \/ ~Halted
    /\ \/ camp'.sent = camp.sent
       \/ pc[j] = "sentStat" /\ pc'[j] = "sentFinal" /\ camp'.sent = camp.sent + 1
    /\ (queue'[j] = "active" /\ pc'[j] # "dead")
         => (queue[j] = "active" /\ pc[j] # "dead") \/ Cardinality(HeldJobs) < Concurrency
    /\ stalls'[j] = stalls[j] \/ stalls'[j] <= MaxStalls

\* A worker sends, or does what the counts do not see.
LEMMA WorkerCounts ==
  ASSUME TypeOK, MailInv, SentInv, NEW j \in Jobs, WorkerStep(j)
  PROVE  Accept(j) \/ Quieter(j)
<1> USE DEF TypeOK, Quieter, Passes, Halted, KeepOthers, KeepQueue, KeepJob, Goto, At
<1>0. /\ queue[j] \in {"none", "waiting", "completed", "removed"} => pc[j] = "idle"
      /\ queue[j] = "failed" => pc[j] \in FailPc \cup {"idle"}
      /\ queue[j] \in QueueState
      /\ camp \in CampaignDoc /\ stalls[j] \in Nat
  BY DEF MailInv, JobInv
<1>1. CASE Take(j)
  BY <1>1 DEF Take
<1>2. CASE ReadStep(j)
  BY <1>0, <1>2 DEF ReadStep, DiscardDeleted, WaitPaused, AbandonPaused, PassCampaign, Complete, Delay, Exists, QueueState, FailPc
<1>3. CASE PauseLimitPasses(j)
  BY <1>3 DEF PauseLimitPasses
<1>4. CASE NoCapacity(j) \/ LoadForSend(j) \/ CannotSend(j)
  BY <1>0, <1>4 DEF NoCapacity, LoadForSend, CannotSend, Delay, QueueState, FailPc
<1>5. CASE SendStep(j)
  BY <1>0, <1>5 DEF SendStep, RejectLogin, RejectRecipient, FailForNow, Throw, QueueState, FailPc
<1>6. CASE BookStep(j)
  <2>1. Finalized.sent = camp.sent /\ (Finalized.status = camp.status \/ camp.status = "sending")
    BY <1>0 DEF Finalized, CampaignDoc
  <2>2. Increment("sent").status = camp.status /\ Increment("sent").sent \in {camp.sent, camp.sent + 1}
    BY <1>0 DEF Increment, CampaignDoc
  <2> QED BY <1>0, <1>6, <2>1, <2>2 DEF BookStep, BookLog, BookStat, BookFinal, Complete, QueueState, FailPc
<1>7. CASE AuthStep(j)
  BY <1>0, <1>7 DEF AuthStep, CredentialsChanged, CredentialsSame, PauseForAuth, Delay, QueueState, FailPc, CampaignDoc
<1>8. /\ Finalized.sent = camp.sent /\ (Finalized.status = camp.status \/ camp.status = "sending")
      /\ AutoPaused.sent = camp.sent /\ (AutoPaused.status = camp.status \/ camp.status = "sending")
      /\ \A f \in {"failed", "bounced"} : Increment(f).status = camp.status /\ Increment(f).sent = camp.sent
  BY <1>0 DEF Finalized, AutoPaused, Increment, CampaignDoc
<1>9. CASE FailStep(j)
  BY <1>0, <1>8, <1>9 DEF FailStep, FailLog, FailStat, FailFinal, FailPause, Return, Complete, QueueState, FailPc
<1>10. CASE BounceStep(j)
  BY <1>0, <1>8, <1>10 DEF BounceStep, BounceFind, BounceMark, BounceMarkLost, BounceKnown, BounceCount, BounceFinal,
     BouncePause, Complete, Throw, QueueState, FailPc
<1>11. CASE RecoverStalled(j)
  BY <1>0, <1>11 DEF RecoverStalled, Delay
<1>12. CASE MongoFault(j)
  BY <1>0, <1>12 DEF MongoFault, Complete, Throw, QueueState, FailPc, AuthPc, BouncePc, BookPc
<1>13. CASE WorkerDies(j)
  BY <1>0, <1>13, BoundsAssumption DEF WorkerDies, SentInv
<1> QED BY <1>1, <1>2, <1>3, <1>4, <1>5, <1>6, <1>7, <1>9, <1>10, <1>11, <1>12, <1>13 DEF WorkerStep, WorkStep

\* A message more: it leaves the jobs that may send and joins those to be counted.
LEMMA AcceptCounts ==
  ASSUME TypeOK, MailInv, LatencyInv, SentInv, NEW j \in Jobs, Accept(j), Alone(j), TypeOK', MailInv'
  PROVE  LatencyInv' /\ SentInv'
<1> USE DEF TypeOK
<1>1. /\ pc[j] = "sending" /\ pc'[j] = "sentLog" /\ UNCHANGED <<camp, queue, stalls>>
      /\ late' = IF Halted THEN late + 1 ELSE late
      /\ mails' = [mails EXCEPT ![j] = @ + 1]
  BY DEF Accept, At, Goto, KeepQueue, Halted
<1>2. \A i \in Jobs \ {j} : pc'[i] = pc[i]
  BY DEF Alone
<1>3. Cardinality(Senders') = Cardinality(Senders) - 1
  BY <1>1, <1>2, OneJobMoves DEF Senders
<1>4. Cardinality(Uncounted') = Cardinality(Uncounted) + 1
  BY <1>1, <1>2, OneJobMoves DEF Uncounted
<1>5. HeldJobs' = HeldJobs
  <2>1. pc[j] # "dead" /\ pc'[j] # "dead"
    BY <1>1
  <2> QED BY <1>1, <1>2, <2>1 DEF HeldJobs
<1>6. /\ Cardinality(Senders) \in Nat /\ Cardinality(Uncounted) \in Nat /\ Cardinality(HeldJobs) \in Nat
      /\ Cardinality(Accepted) \in Nat /\ late \in Nat /\ camp.sent \in Nat /\ Concurrency \in Nat
  BY JobsFinite, BoundsAssumption DEF Senders, Uncounted, HeldJobs, CampaignDoc
<1>7. LatencyInv'
  BY <1>1, <1>3, <1>5, <1>6 DEF LatencyInv, Halted
<1>8. Cardinality(Accepted') = Cardinality(Accepted) + 1
  <2> DEFINE m == <<j, mails[j] + 1>>
  <2>1. mails[j] <= stalls[j] /\ stalls[j] <= MaxStalls
    BY <1>1 DEF MailInv, JobInv, MayStillSend, BookPc, FailPc, QueueState, SentInv
  <2>2. mails[j] + 1 \in 1..1 + MaxStalls
    BY <2>1, BoundsAssumption
  <2>3. m \notin Accepted
    BY DEF Accepted
  <2>4. ASSUME NEW x \in Jobs \X (1..1 + MaxStalls)
        PROVE  x[2] <= mails'[x[1]] <=> x[2] <= mails[x[1]] \/ x = m
    <3>1. PICK i \in Jobs, n \in 1..1 + MaxStalls : x = <<i, n>>
      OBVIOUS
    <3>2. i = j => (n <= mails[j] + 1 <=> n <= mails[j] \/ n = mails[j] + 1)
      BY <3>1, BoundsAssumption
    <3> QED BY <1>1, <3>1, <3>2
  <2>5. Accepted' = Accepted \cup {m}
    BY <2>2, <2>4 DEF Accepted
  <2> QED BY <2>3, <2>5, JobsFinite, FS_AddElement
<1>9. SentInv'
  BY <1>1, <1>4, <1>6, <1>8 DEF SentInv
<1> QED BY <1>7, <1>9

\* Any other step of a worker.
LEMMA QuieterCounts ==
  ASSUME TypeOK, MailInv, LatencyInv, SentInv, NEW j \in Jobs, Quieter(j), Alone(j), TypeOK', MailInv'
  PROVE  LatencyInv' /\ SentInv'
<1>1. \A i \in Jobs \ {j} : pc'[i] = pc[i] /\ queue'[i] = queue[i] /\ stalls'[i] = stalls[i]
  BY DEF Alone
<1>2. /\ Cardinality(Senders) \in Nat /\ Cardinality(Uncounted) \in Nat /\ Cardinality(HeldJobs) \in Nat
      /\ Cardinality(Senders') \in Nat /\ Cardinality(Uncounted') \in Nat /\ Cardinality(HeldJobs') \in Nat
      /\ Cardinality(Accepted) \in Nat /\ late \in Nat /\ camp.sent \in Nat /\ Concurrency \in Nat
  BY JobsFinite, BoundsAssumption DEF Senders, Uncounted, HeldJobs, TypeOK, CampaignDoc
<1>3. /\ j \in HeldJobs /\ j \notin HeldJobs' => Cardinality(HeldJobs') = Cardinality(HeldJobs) - 1
      /\ j \notin HeldJobs /\ j \in HeldJobs' => Cardinality(HeldJobs') = Cardinality(HeldJobs) + 1
      /\ (j \in HeldJobs <=> j \in HeldJobs') => Cardinality(HeldJobs') = Cardinality(HeldJobs)
  BY <1>1, OneJobMoves DEF HeldJobs
<1>4. j \in HeldJobs' => j \in HeldJobs \/ Cardinality(HeldJobs) < Concurrency
  BY DEF Quieter, HeldJobs
<1>5. Cardinality(HeldJobs') <= Concurrency
  BY <1>2, <1>3, <1>4 DEF LatencyInv
<1>6. Cardinality(Senders') <= Cardinality(HeldJobs')
  <2>1. Senders' \subseteq HeldJobs'
    BY DEF Senders, HeldJobs, MailInv, JobInv, TypeOK, QueueState, FailPc
  <2> QED BY <2>1, JobsFinite, FS_Subset DEF HeldJobs
<1>7. Halted => Cardinality(Senders') <= Cardinality(Senders)
  <2>1. /\ j \in Senders /\ j \notin Senders' => Cardinality(Senders') = Cardinality(Senders) - 1
        /\ (j \in Senders <=> j \in Senders') => Cardinality(Senders') = Cardinality(Senders)
    BY <1>1, OneJobMoves DEF Senders
  <2>2. Halted /\ j \in Senders' => j \in Senders
    BY DEF Quieter, Passes, Senders
  <2> QED BY <1>2, <2>1, <2>2
<1>8. LatencyInv'
  BY <1>2, <1>5, <1>6, <1>7 DEF LatencyInv, Quieter, Halted
<1>9. /\ j \in Uncounted /\ j \notin Uncounted' => Cardinality(Uncounted') = Cardinality(Uncounted) - 1
      /\ (j \in Uncounted <=> j \in Uncounted') => Cardinality(Uncounted') = Cardinality(Uncounted)
  BY <1>1, OneJobMoves DEF Uncounted
<1>10. /\ j \in Uncounted' => j \in Uncounted
       /\ \/ camp'.sent = camp.sent
          \/ j \in Uncounted /\ j \notin Uncounted' /\ camp'.sent = camp.sent + 1
  BY DEF Quieter, Uncounted
<1>11. Accepted' = Accepted
  BY DEF Quieter, Accepted
<1>12. SentInv'
  <2>1. \A i \in Jobs : stalls'[i] <= MaxStalls
    BY <1>1 DEF SentInv, Quieter
  <2>2. camp'.sent + Cardinality(Uncounted') <= camp.sent + Cardinality(Uncounted)
    BY <1>2, <1>9, <1>10
  <2>3. camp'.sent \in Nat
    BY DEF TypeOK, CampaignDoc
  <2> QED BY <1>2, <1>11, <2>1, <2>2, <2>3 DEF SentInv
<1> QED BY <1>8, <1>12

\* What the counts see of a request's step: a save may set the counter back, but not the
\* history of a pause, unless it ends the pause.
LEMMA ApiCounts ==
  ASSUME TypeOK, MailInv, NEW p \in Procs, ApiStep(p)
  PROVE  /\ UNCHANGED <<pc, stalls, mails>>
         /\ HeldJobs' \subseteq HeldJobs
         /\ camp'.sent \in {0, camp.sent}
         /\ \/ late' = 0
            \/ late' = late /\ camp'.status \in {camp.status, "paused", "gone"} /\ (Halted => Halted')
<1> USE DEF TypeOK, KeepOutside, KeepJobs, workVars, Halted
<1>0. camp \in CampaignDoc /\ Doc(p) \in CampaignDoc /\ camp.sent \in Nat
  BY DocTypes DEF WorkTypes, ApiTypes, CampaignDoc
<1>1. CASE Request(p) \/ CountAudience(p) \/ WipeLogs(p) \/ SaveStartFails(p) \/ DispatchInsert(p) \/ DispatchDuplicate(p)
           \/ DispatchDone(p) \/ DispatchFails(p) \/ ProcessDies(p) \/ ScheduleCancel(p) \/ ScheduleAdd(p)
           \/ UnscheduleCancel(p) \/ RemoveCancel(p) \/ RemoveWipe(p)
  BY <1>0, <1>1 DEF Request, CountAudience, WipeLogs, SaveStartFails, DispatchInsert, DispatchDuplicate, DispatchDone,
     DispatchFails, ProcessDies, ScheduleCancel, ScheduleAdd, UnscheduleCancel, RemoveCancel, RemoveWipe, HeldJobs
<1>2. CASE DispatchEnqueue(p) \/ RemoveDrain(p)
  BY <1>0, <1>2 DEF DispatchEnqueue, RemoveDrain, HeldJobs
<1>3. CASE Edit(p) \/ RemoveDelete(p)
  BY <1>0, <1>3 DEF Edit, RemoveDelete, SaveArrays, HeldJobs, CampaignDoc
<1>4. CASE DispatchCatch(p)
  <2> DEFINE halted == [Doc(p) EXCEPT !.status = "paused", !.total = proc[p].queued]
  <2>1. halted.sent = Doc(p).sent /\ halted.status = "paused"
    BY <1>0 DEF CampaignDoc
  <2>2. Written(p, halted).sent = camp.sent /\ Written(p, halted).status \in {"paused", camp.status}
    BY <2>1 DEF Written, Kept
  <2>3. camp' = Written(p, halted) \/ camp' = camp
    BY <1>4 DEF DispatchCatch, SaveScalars
  <2> HIDE DEF halted
  <2> QED BY <1>4, <2>2, <2>3 DEF DispatchCatch, HeldJobs
<1>5. ASSUME NEW o, NEW s \in CampaignStatus, SetStatus(p, o, s)
      PROVE  /\ UNCHANGED <<pc, stalls, mails, queue>> /\ camp'.sent = camp.sent
             /\ \/ late' = 0
                \/ late' = late /\ camp'.status \in {camp.status, "paused", "gone"} /\ (Halted => Halted')
  <2> DEFINE set == [Doc(p) EXCEPT !.status = s]
  <2>1. set.sent = Doc(p).sent /\ set.status = s
    BY <1>0 DEF CampaignDoc
  <2>2. Written(p, set).sent = camp.sent /\ Written(p, set).status \in {s, camp.status}
    BY <2>1 DEF Written, Kept
  <2>3. \/ Exists /\ camp' = Written(p, set)
        \/ ~Exists /\ camp' = camp
    BY <1>5 DEF SetStatus, SaveScalars
  <2>4. late' = IF Exists /\ s # "paused" THEN 0 ELSE late
    BY <1>5 DEF SetStatus
  <2>5. UNCHANGED <<pc, stalls, mails, queue>>
    BY <1>5 DEF SetStatus
  <2> HIDE DEF set
  <2> QED BY <2>2, <2>3, <2>4, <2>5 DEF Exists
<1>6. CASE Pause(p) \/ Resume(p) \/ ScheduleSave(p) \/ UnscheduleSave(p)
  <2>1. "paused" \in CampaignStatus /\ "sending" \in CampaignStatus /\ "scheduled" \in CampaignStatus /\ "draft" \in CampaignStatus
    BY DEF CampaignStatus
  <2>2. \E s \in CampaignStatus : \E o \in {"pause", "resume", "schedule", "unschedule"} : SetStatus(p, o, s)
    BY <1>6, <2>1 DEF Pause, Resume, ScheduleSave, UnscheduleSave
  <2>3. PICK s \in CampaignStatus, o \in {"pause", "resume", "schedule", "unschedule"} : SetStatus(p, o, s)
    BY <2>2
  <2> QED BY <1>5, <2>3 DEF HeldJobs
<1>7. CASE SaveStart(p)
  <2>1. StartedDoc(p).sent = 0
    BY <1>0 DEF StartedDoc, CampaignDoc
  <2>2. Written(p, StartedDoc(p)).sent \in {0, camp.sent} /\ Written(p, StartedDoc(p)) \in CampaignDoc
    BY <1>0, <2>1, DocTypes DEF Written, Kept, WorkTypes, ApiTypes
  <2>3. camp' = [Written(p, StartedDoc(p)) EXCEPT !.ver = @ + 1]
    BY <1>7 DEF SaveStart, SaveArrays
  <2>4. camp'.sent \in {0, camp.sent}
    BY <2>2, <2>3 DEF CampaignDoc
  <2> QED BY <1>7, <2>4 DEF SaveStart, HeldJobs
<1> QED BY <1>1, <1>2, <1>3, <1>4, <1>6, <1>7 DEF ApiStep, HandlerStep, StartStepOf

\* Any step keeps both counts.
LEMMA CountsStep ==
  ASSUME TypeOK, MailInv, LatencyInv, SentInv, [Next]_vars
  PROVE  LatencyInv' /\ SentInv'
<1>0. TypeOK' /\ MailInv'
  BY TypeStep, MailStep
<1>1. ASSUME NEW j \in Jobs, WorkerStep(j) PROVE LatencyInv' /\ SentInv'
  <2>1. Alone(j)
    BY <1>1, WorkerAlone DEF MailInv, TypeOK, WorkTypes
  <2> QED BY <1>0, <1>1, <2>1, WorkerCounts, AcceptCounts, QuieterCounts
<1>2. /\ Cardinality(Senders) \in Nat /\ Cardinality(Uncounted) \in Nat /\ Cardinality(HeldJobs) \in Nat
      /\ Cardinality(HeldJobs') \in Nat
      /\ Cardinality(Accepted) \in Nat /\ late \in Nat /\ camp.sent \in Nat /\ Concurrency \in Nat
      /\ Cardinality(Senders) <= Cardinality(HeldJobs)
  BY JobsFinite, SendersHeld, BoundsAssumption DEF Senders, Uncounted, HeldJobs, TypeOK, CampaignDoc
<1>3. ASSUME UNCHANGED <<pc, stalls, mails>> PROVE Senders' = Senders /\ Uncounted' = Uncounted /\ Accepted' = Accepted
  BY <1>3 DEF Senders, Uncounted, Accepted
<1>4. ASSUME NEW p \in Procs, ApiStep(p) PROVE LatencyInv' /\ SentInv'
  <2>1. /\ UNCHANGED <<pc, stalls, mails>>
        /\ HeldJobs' \subseteq HeldJobs
        /\ camp'.sent \in {0, camp.sent}
        /\ \/ late' = 0
           \/ late' = late /\ camp'.status \in {camp.status, "paused", "gone"} /\ (Halted => Halted')
    BY <1>4, ApiCounts
  <2>2. Senders' = Senders /\ Uncounted' = Uncounted /\ Accepted' = Accepted
    BY <1>3, <2>1
  <2>3. HeldJobs \in SUBSET Jobs /\ IsFiniteSet(HeldJobs)
    BY JobsFinite DEF HeldJobs
  <2>4. Cardinality(HeldJobs') <= Concurrency /\ Cardinality(Senders) <= Concurrency
    BY <1>2, <2>1, <2>3, FS_Subset DEF LatencyInv
  <2>5. LatencyInv'
    <3>1. Halted' => late' + Cardinality(Senders') <= Concurrency
      BY <1>2, <2>1, <2>2, <2>4 DEF LatencyInv
    <3>2. ~Halted' => late' = 0
      BY <2>1 DEF LatencyInv, Halted
    <3> QED BY <2>4, <3>1, <3>2 DEF LatencyInv
  <2>6. SentInv'
    BY <1>2, <2>1, <2>2 DEF SentInv
  <2> QED BY <2>5, <2>6
<1>5. ASSUME UNCHANGED <<pc, stalls, mails, queue, late>>, camp'.status = camp.status, camp'.sent = camp.sent
      PROVE  LatencyInv' /\ SentInv'
  BY <1>3, <1>5 DEF LatencyInv, SentInv, Halted, HeldJobs
<1>6. CASE SchedulerTakes \/ Outside \/ UNCHANGED vars
  BY <1>5, <1>6 DEF SchedulerTakes, Outside, AudienceChanges, EditSmtp, RevokePassword, RemoveSmtp, KeepAllBut, KeepOutside,
     KeepJobs, vars, workVars
<1>7. ASSUME NEW h \in Hooks, HookArrives(h) \/ HookStepOf(h) PROVE LatencyInv' /\ SentInv'
  <2>1. Increment("bounced").status = camp.status /\ Increment("bounced").sent = camp.sent
    BY DEF Increment, TypeOK, CampaignDoc
  <2> QED BY <1>5, <1>7, <2>1 DEF HookArrives, HookStepOf, HookFind, HookMark, HookCount, KeepApart, workVars
<1> QED BY <1>1, <1>4, <1>6, <1>7 DEF Next

\* Nothing is sent and no job is in hand.
LEMMA CountsInit == Init => LatencyInv /\ SentInv
<1> SUFFICES ASSUME Init PROVE LatencyInv /\ SentInv
  OBVIOUS
<1>1. Senders = {} /\ Uncounted = {} /\ HeldJobs = {}
  BY DEF Init, Senders, Uncounted, HeldJobs
<1>2. camp.sent = 0 /\ late = 0 /\ \A j \in Jobs : stalls[j] = 0
  BY DEF Init, NewDoc
<1> QED BY <1>1, <1>2, JobsFinite, FS_EmptySet, BoundsAssumption DEF LatencyInv, SentInv

\* Both counts hold always.
LEMMA CountsInvariant == Spec => [](TypeOK /\ MailInv /\ LatencyInv /\ SentInv)
<1>1. Init => LatencyInv /\ SentInv
  BY CountsInit
<1>2. TypeOK /\ MailInv /\ LatencyInv /\ SentInv /\ [Next]_vars => (LatencyInv /\ SentInv)'
  BY CountsStep
<1> QED BY <1>1, <1>2, MailInvariant, PTL DEF Spec

\* Once the campaign is paused (by a user, by too many errors, by a failed login, by a failed
\* dispatch) or deleted, no more messages follow than there are jobs in the workers' hands,
\* for any number of workers, handlers, crashes and faults.
THEOREM PauseTakesHold == Spec => []PauseLatency
<1>1. TypeOK /\ LatencyInv => PauseLatency
  <2> SUFFICES ASSUME TypeOK, LatencyInv PROVE late <= Concurrency
    BY DEF PauseLatency
  <2>1. Cardinality(Senders) \in Nat /\ late \in Nat /\ Concurrency \in Nat
    BY JobsFinite, BoundsAssumption DEF Senders, TypeOK
  <2> QED BY <2>1 DEF LatencyInv
<1> QED BY <1>1, CountsInvariant, PTL

\* The counter shown as "sent" never exceeds what the server accepted, over all the starts,
\* late jobs, retries and crashes: a message is counted once, by the job that sent it.
THEOREM SentIsAccepted == Spec => []SentNotOverstated
<1>1. TypeOK /\ SentInv => SentNotOverstated
  <2> SUFFICES ASSUME TypeOK, SentInv PROVE camp.sent <= Cardinality(Accepted)
    BY DEF SentNotOverstated
  <2>1. Cardinality(Uncounted) \in Nat /\ Cardinality(Accepted) \in Nat /\ camp.sent \in Nat
    BY JobsFinite DEF Uncounted, TypeOK, CampaignDoc
  <2> QED BY <2>1 DEF SentInv
<1> QED BY <1>1, CountsInvariant, PTL

-----------------------------------------------------------------------------
(* One run at a time.  The argument counts the jobs of the current run: an  *)
(* error or a message counted is a job of it that has ended, and those that *)
(* were queued and those the dispatch has still to queue are no more than   *)
(* the total.  So a campaign that is completed has ended all of them, and a *)
(* start that finds it so, and still finds its version, leaves none behind. *)
Orderly == /\ Environment \subseteq {"smtp"}
           /\ Operations \cap {"schedule", "unschedule"} = {}

RunJobs == {j \in Jobs : j[2] = camp.run /\ queue[j] # "none"}
EndedJobs == {j \in RunJobs : Ended(j)}
AllEnded == \A j \in Jobs : Ended(j)

\* A start before its save, and after it.
Preparing(p) == proc[p].op = "start" /\ proc[p].step \in {"count", "wipe", "save"}
Dispatching(p) == proc[p].step \in {"dispatch", "enqueue", "catch"}

\* How many recipients a dispatch may still queue; one that gives up sets the total.
ToCome(p) == IF proc[p].step = "catch" THEN 1
             ELSE Cardinality(proc[p].batch) + Cardinality(proc[p].todo \cap eligible)

Settled == AllEnded /\ \A p \in Procs : Dispatching(p) => ToCome(p) = 0

Reached == {"draft", "sending", "paused", "completed", "gone"}

StatusInv ==
    /\ camp.status \in Reached /\ camp.run <= MaxRuns
    /\ camp.status = "draft" => camp.run = 0
    /\ camp.status = "completed" => Settled

CountInv ==
    /\ Accounted(camp) <= Cardinality(EndedJobs)
    /\ Cardinality(RunJobs) <= camp.total
    /\ \A j \in Jobs : j[2] # camp.run => Ended(j)

DispatchOk(p) == Dispatching(p) =>
    /\ proc[p].run \in 1..camp.run
    /\ proc[p].run # camp.run => ToCome(p) = 0
    /\ proc[p].run = camp.run => /\ Cardinality(RunJobs) + ToCome(p) <= camp.total
                                 /\ proc[p].queued = Cardinality(RunJobs)

SameCounts(d, e) == d.sent = e.sent /\ d.failed = e.failed /\ d.bounced = e.bounced

PrepareOk(p) == Preparing(p) =>
    /\ proc[p].queued = 0 /\ proc[p].doc.status # "sending"
    /\ proc[p].doc.run < MaxRuns /\ proc[p].doc.ver <= camp.ver
    /\ proc[p].step # "count" => Cardinality(eligible) <= proc[p].total
    /\ proc[p].doc.ver = camp.ver => /\ Settled /\ SameCounts(proc[p].doc, camp)
                                     /\ proc[p].doc.total = camp.total /\ proc[p].doc.run = camp.run

RunInv ==
    /\ StatusInv /\ CountInv
    /\ \A p \in Procs : DispatchOk(p) /\ PrepareOk(p)
    /\ \A h \in Hooks : hook[h].step = "idle"

\* What the runs see of a worker's step on a job.
RunStep(j) ==
    /\ eligible' \subseteq eligible /\ hook' = hook
    /\ camp'.total = camp.total /\ camp'.ver = camp.ver
    /\ queue[j] # "none" /\ queue'[j] # "none"
    /\ Ended(j) => Ended(j)'
    /\ \/ SameCounts(camp', camp)
       \/ ~Ended(j) /\ Ended(j)' /\ Accounted(camp') = Accounted(camp) + 1
    /\ camp'.status \in {camp.status, "paused", "completed"}
    /\ camp'.status # camp.status => camp.status = "sending"
    /\ camp'.status = "completed"
         => camp.status = "completed" \/ (SameCounts(camp', camp) /\ camp.total <= Accounted(camp))

\* While nothing fails, a job that has ended stays so, and counts once, on its way there.
LEMMA WorkerRun ==
  ASSUME Orderly, TypeOK, MailInv, NEW j \in Jobs, WorkerStep(j)
  PROVE  RunStep(j)
<1> USE DEF TypeOK, RunStep, Ended, SameCounts, KeepOthers, KeepQueue, KeepJob, Goto, At, hookVars
<1>0. /\ queue[j] \in {"none", "waiting", "completed", "removed"} => pc[j] = "idle"
      /\ queue[j] = "failed" => pc[j] \in FailPc \cup {"idle"}
      /\ queue[j] = "active" => pc[j] # "idle"
      /\ queue[j] \in QueueState
      /\ camp \in CampaignDoc
  BY DEF MailInv, JobInv
<1>1. CASE Take(j)
  BY <1>1 DEF Take
<1>2. CASE ReadStep(j)
  BY <1>0, <1>2 DEF ReadStep, DiscardDeleted, WaitPaused, AbandonPaused, PassCampaign, Complete, Delay, Exists, QueueState, FailPc
<1>3. CASE PauseLimitPasses(j)
  BY <1>3 DEF PauseLimitPasses, Pending
<1>4. CASE NoCapacity(j) \/ LoadForSend(j) \/ CannotSend(j)
  BY <1>0, <1>4 DEF NoCapacity, LoadForSend, CannotSend, Delay, QueueState, FailPc
<1>5. CASE SendStep(j)
  BY <1>0, <1>5 DEF SendStep, Accept, RejectLogin, RejectRecipient, FailForNow, Throw, QueueState, FailPc
<1>8. /\ SameCounts(Finalized, camp) /\ Finalized.total = camp.total /\ Finalized.ver = camp.ver
      /\ \/ Finalized.status = camp.status
         \/ Finalized.status = "completed" /\ camp.status = "sending" /\ camp.total <= Accounted(camp)
      /\ SameCounts(AutoPaused, camp) /\ AutoPaused.total = camp.total /\ AutoPaused.ver = camp.ver
      /\ \/ AutoPaused.status = camp.status
         \/ AutoPaused.status = "paused" /\ camp.status = "sending"
  BY <1>0 DEF Finalized, AutoPaused, CampaignDoc, Accounted
<1>14. ASSUME NEW f \in {"sent", "failed", "bounced"}
       PROVE  /\ Increment(f).status = camp.status /\ Increment(f).total = camp.total /\ Increment(f).ver = camp.ver
              /\ SameCounts(Increment(f), camp) \/ Accounted(Increment(f)) = Accounted(camp) + 1
  BY <1>0, <1>14 DEF Increment, CampaignDoc, Accounted
<1>6. CASE BookStep(j)
  BY <1>0, <1>8, <1>14, <1>6 DEF BookStep, BookLog, BookStat, BookFinal, Complete, QueueState, FailPc
<1>7. CASE AuthStep(j)
  BY <1>0, <1>7 DEF AuthStep, CredentialsChanged, CredentialsSame, PauseForAuth, Delay, QueueState, FailPc, CampaignDoc
<1>9. CASE FailStep(j)
  BY <1>0, <1>8, <1>14, <1>9 DEF FailStep, FailLog, FailStat, FailFinal, FailPause, Return, Complete, QueueState, FailPc
<1>10. CASE BounceStep(j)
  BY <1>0, <1>8, <1>14, <1>10 DEF BounceStep, BounceFind, BounceMark, BounceMarkLost, BounceKnown, BounceCount, BounceFinal,
     BouncePause, Complete, Throw, QueueState, FailPc
<1>11. CASE RecoverStalled(j)
  BY <1>0, <1>11 DEF RecoverStalled, Delay, FailPc
<1>12. CASE MongoFault(j) \/ WorkerDies(j)
  BY <1>12 DEF MongoFault, WorkerDies, Orderly
<1> QED BY <1>1, <1>2, <1>3, <1>4, <1>5, <1>6, <1>7, <1>9, <1>10, <1>11, <1>12 DEF WorkerStep, WorkStep

\* Numbers that the counts compare.
LEMMA RunTypes ==
  ASSUME TypeOK
  PROVE  /\ camp \in CampaignDoc /\ Accounted(camp) \in Nat
         /\ Cardinality(RunJobs) \in Nat /\ Cardinality(EndedJobs) \in Nat
         /\ Cardinality(EndedJobs) <= Cardinality(RunJobs)
         /\ \A p \in Procs : proc[p] \in Proc /\ ToCome(p) \in Nat
<1>1. camp \in CampaignDoc /\ Accounted(camp) \in Nat
  BY DEF TypeOK, CampaignDoc, Accounted
<1>2. RunJobs \in SUBSET Jobs /\ EndedJobs \in SUBSET RunJobs /\ EndedJobs \in SUBSET Jobs
  BY DEF RunJobs, EndedJobs
<1>3. ASSUME NEW p \in Procs PROVE proc[p] \in Proc /\ ToCome(p) \in Nat
  <2>1. proc[p] \in Proc
    BY DEF TypeOK
  <2>2. Cardinality(proc[p].batch) \in Nat /\ Cardinality(proc[p].todo \cap eligible) \in Nat
    BY <2>1, AudienceSize DEF Proc
  <2> QED BY <2>1, <2>2 DEF ToCome
<1> QED BY <1>1, <1>2, <1>3, JobsFinite, FS_Subset

\* A campaign whose counters reach its total has ended its jobs and queues no more.
LEMMA FullyCounted ==
  ASSUME TypeOK, RunInv, camp.total <= Accounted(camp)
  PROVE  Settled
<1>1. /\ Accounted(camp) <= Cardinality(EndedJobs) /\ Cardinality(EndedJobs) <= Cardinality(RunJobs)
      /\ Cardinality(RunJobs) <= camp.total /\ camp.total \in Nat /\ Accounted(camp) \in Nat
      /\ Cardinality(RunJobs) \in Nat /\ Cardinality(EndedJobs) \in Nat
  BY RunTypes DEF RunInv, CountInv, CampaignDoc
<1>2. Cardinality(EndedJobs) = Cardinality(RunJobs) /\ Cardinality(RunJobs) = camp.total
  BY <1>1
<1>3. EndedJobs = RunJobs
  <2>1. RunJobs \in SUBSET Jobs /\ EndedJobs \in SUBSET RunJobs
    BY DEF RunJobs, EndedJobs
  <2> QED BY <1>2, <2>1, JobsFinite, FS_Subset
<1>4. AllEnded
  <2> SUFFICES ASSUME NEW j \in Jobs, j[2] = camp.run, queue[j] # "none" PROVE Ended(j)
    BY DEF AllEnded, RunInv, CountInv, Ended
  <2> QED BY <1>3 DEF RunJobs, EndedJobs
<1>5. ASSUME NEW p \in Procs, Dispatching(p) PROVE ToCome(p) = 0
  BY <1>1, <1>2, <1>5, RunTypes DEF RunInv, DispatchOk
<1> QED BY <1>4, <1>5 DEF Settled

\* A worker's step keeps the invariant.
LEMMA WorkerKeepsRun ==
  ASSUME TypeOK, RunInv, NEW j \in Jobs, RunStep(j), Alone(j), TypeOK'
  PROVE  RunInv'
<1>0. /\ camp \in CampaignDoc /\ camp' \in CampaignDoc /\ Accounted(camp) \in Nat /\ Accounted(camp') \in Nat
      /\ Cardinality(EndedJobs) \in Nat /\ Cardinality(EndedJobs') \in Nat /\ Cardinality(RunJobs) \in Nat
  <2>1. /\ EndedJobs \in SUBSET Jobs /\ EndedJobs' \in SUBSET Jobs /\ RunJobs \in SUBSET Jobs
    BY DEF EndedJobs, RunJobs
  <2>2. Accounted(camp') \in Nat
    BY DEF TypeOK, CampaignDoc, Accounted
  <2> QED BY <2>1, <2>2, RunTypes, JobsFinite DEF TypeOK
<1>1. \A i \in Jobs \ {j} : Ended(i)' <=> Ended(i)
  BY DEF Alone, Ended
<1>2. \A i \in Jobs : Ended(i) => Ended(i)'
  BY <1>1 DEF RunStep
<1>3. RunJobs' = RunJobs
  BY DEF RunJobs, Alone, RunStep
<1>4. /\ j \notin EndedJobs /\ j \in EndedJobs' => Cardinality(EndedJobs') = Cardinality(EndedJobs) + 1
      /\ (j \in EndedJobs <=> j \in EndedJobs') => Cardinality(EndedJobs') = Cardinality(EndedJobs)
  BY <1>1, <1>3, OneJobMoves DEF EndedJobs, RunJobs
<1>5. j \in EndedJobs => j \in EndedJobs'
  BY <1>2, <1>3 DEF EndedJobs
<1>6. /\ \A p \in Procs : ToCome(p) \in Nat /\ ToCome(p)' \in Nat /\ ToCome(p)' <= ToCome(p)
      /\ Cardinality(eligible') <= Cardinality(eligible) /\ Cardinality(eligible) \in Nat /\ Cardinality(eligible') \in Nat
  <2>1. eligible' \in SUBSET eligible /\ eligible \in SUBSET Contacts /\ proc' = proc
    BY DEF RunStep, Alone, TypeOK
  <2>2. ASSUME NEW S \in SUBSET Contacts, NEW T \in SUBSET S PROVE Cardinality(T) <= Cardinality(S)
    BY SizesAssumption, FS_Subset
  <2>3. ASSUME NEW p \in Procs PROVE ToCome(p) \in Nat /\ ToCome(p)' \in Nat /\ ToCome(p)' <= ToCome(p)
    <3>1. proc[p].todo \cap eligible' \in SUBSET (proc[p].todo \cap eligible)
      BY <2>1
    <3>2. proc[p].batch \in SUBSET Contacts /\ proc[p].todo \cap eligible \in SUBSET Contacts
          /\ proc[p].todo \cap eligible' \in SUBSET Contacts
      BY <2>1 DEF TypeOK, Proc
    <3>3. Cardinality(proc[p].todo \cap eligible') <= Cardinality(proc[p].todo \cap eligible)
      BY <2>2, <3>1, <3>2
    <3>4. /\ Cardinality(proc[p].batch) \in Nat /\ Cardinality(proc[p].todo \cap eligible) \in Nat
          /\ Cardinality(proc[p].todo \cap eligible') \in Nat
      BY <3>2, AudienceSize
    <3> QED BY <2>1, <3>3, <3>4 DEF ToCome
  <2> QED BY <2>1, <2>2, <2>3, AudienceSize
<1>7. Settled => Settled'
  BY <1>2, <1>6 DEF Settled, AllEnded, Dispatching, Alone
<1>8. Settled => SameCounts(camp', camp)
  BY DEF RunStep, Settled, AllEnded
<1>9. StatusInv'
  <2>1. camp'.status = "completed" => Settled'
    <3>1. CASE camp.status = "completed"
      BY <1>7, <3>1 DEF RunInv, StatusInv
    <3>2. CASE camp.status # "completed"
      BY <1>7, <3>2, FullyCounted DEF RunStep
    <3> QED BY <3>1, <3>2
  <2> QED BY <2>1 DEF RunInv, StatusInv, RunStep, Alone, Reached
<1>10. CountInv'
  <2>1. Accounted(camp') <= Cardinality(EndedJobs')
    <3>1. CASE SameCounts(camp', camp)
      <4>1. Accounted(camp') = Accounted(camp)
        BY <3>1 DEF SameCounts, Accounted
      <4>2. Cardinality(EndedJobs) <= Cardinality(EndedJobs')
        BY <1>0, <1>4, <1>5
      <4> QED BY <1>0, <4>1, <4>2 DEF RunInv, CountInv
    <3>2. CASE ~Ended(j) /\ Ended(j)' /\ Accounted(camp') = Accounted(camp) + 1
      <4>1. j \in RunJobs
        BY <3>2 DEF RunInv, CountInv, RunJobs, RunStep
      <4>2. j \notin EndedJobs /\ j \in EndedJobs'
        BY <1>3, <3>2, <4>1 DEF EndedJobs
      <4> QED BY <1>0, <1>4, <3>2, <4>2 DEF RunInv, CountInv
    <3> QED BY <3>1, <3>2 DEF RunStep
  <2> QED BY <1>2, <1>3, <2>1 DEF RunInv, CountInv, RunStep, Alone
<1>11. ASSUME NEW p \in Procs PROVE DispatchOk(p)'
  <2>1. /\ proc' = proc /\ camp'.run = camp.run /\ camp'.total = camp.total /\ camp.total \in Nat
        /\ ToCome(p) \in Nat /\ ToCome(p)' \in Nat /\ ToCome(p)' <= ToCome(p)
    BY <1>0, <1>6 DEF Alone, RunStep, CampaignDoc
  <2> QED BY <1>0, <1>3, <2>1 DEF RunInv, DispatchOk, Dispatching
<1>12. ASSUME NEW p \in Procs PROVE PrepareOk(p)'
  <2>1. proc' = proc /\ camp'.run = camp.run /\ camp'.total = camp.total /\ camp'.ver = camp.ver
    BY DEF Alone, RunStep
  <2>2. proc[p].total \in Nat
    BY DEF TypeOK, Proc
  <2> QED BY <1>6, <1>7, <1>8, <2>1, <2>2 DEF RunInv, PrepareOk, Preparing, SameCounts
<1>13. \A h \in Hooks : hook'[h].step = "idle"
  BY DEF RunStep, RunInv
<1> QED BY <1>9, <1>10, <1>11, <1>12, <1>13 DEF RunInv

\* What the runs see of a handler that queues nothing and starts nothing.
RunFrame(p) ==
    /\ UNCHANGED <<queue, pc, eligible, hook>>
    /\ \A q \in Procs \ {p} : proc'[q] = proc[q]
    /\ SameCounts(camp', camp) /\ camp'.run = camp.run /\ camp'.total = camp.total
    /\ camp'.ver \in {camp.ver, camp.ver + 1}
    /\ camp'.status \in Reached
    /\ camp'.status \in {"draft", "completed"} => camp.status = camp'.status
    /\ Settled /\ Dispatching(p)' => ToCome(p)' = 0

\* Such a step keeps what is not its own.
LEMMA FrameKeepsRun ==
  ASSUME TypeOK, RunInv, NEW p \in Procs, RunFrame(p), DispatchOk(p)', PrepareOk(p)'
  PROVE  RunInv'
<1>0. camp.ver \in Nat /\ \A q \in Procs : proc[q].doc.ver \in Nat
  BY DEF TypeOK, CampaignDoc, Proc
<1>1. /\ \A j \in Jobs : Ended(j)' <=> Ended(j)
      /\ RunJobs' = RunJobs
  BY DEF RunFrame, Ended, RunJobs
<1>2. EndedJobs' = EndedJobs /\ (AllEnded' <=> AllEnded)
  BY <1>1 DEF EndedJobs, AllEnded, Ended, RunFrame
<1>3. ASSUME NEW q \in Procs \ {p} PROVE (Dispatching(q)' <=> Dispatching(q)) /\ ToCome(q)' = ToCome(q)
  BY <1>3 DEF RunFrame, Dispatching, ToCome
<1>4. Settled => Settled'
  BY <1>2, <1>3 DEF RunFrame, Settled
<1>5. StatusInv'
  BY <1>4 DEF RunInv, StatusInv, RunFrame
<1>6. CountInv'
  BY <1>1, <1>2 DEF RunInv, CountInv, RunFrame, SameCounts, Accounted
<1>7. ASSUME NEW q \in Procs \ {p} PROVE DispatchOk(q)'
  BY <1>1, <1>3, <1>7 DEF RunInv, DispatchOk, RunFrame
<1>8. ASSUME NEW q \in Procs \ {p} PROVE PrepareOk(q)'
  <2>1. proc'[q] = proc[q]
    BY <1>8 DEF RunFrame
  <2>2. CASE ~Preparing(q)
    BY <2>1, <2>2 DEF PrepareOk, Preparing
  <2>3. CASE Preparing(q)
    <3>1. proc[q].doc.ver <= camp.ver /\ (proc[q].doc.ver = camp'.ver => proc[q].doc.ver = camp.ver) /\ proc[q].doc.ver <= camp'.ver
      BY <1>0, <2>3 DEF RunInv, PrepareOk, RunFrame
    <3> QED BY <1>4, <2>1, <2>3, <3>1 DEF RunInv, PrepareOk, Preparing, RunFrame, SameCounts
  <2> QED BY <2>2, <2>3
<1> QED BY <1>5, <1>6, <1>7, <1>8 DEF RunInv, RunFrame

\* What a save of a handler may do to the document.
SavedScalars ==
    /\ SameCounts(camp', camp) /\ camp'.run = camp.run /\ camp'.total = camp.total
    /\ camp'.ver \in {camp.ver, camp.ver + 1}
    /\ camp'.status \in Reached
    /\ camp'.status \in {"draft", "completed"} => camp.status = camp'.status

\* A handler that ends.
LEMMA EndKeepsRun ==
  ASSUME TypeOK, RunInv, NEW p \in Procs, EndOf(p), UNCHANGED <<queue, pc, eligible, hook>>, SavedScalars
  PROVE  RunInv'
<1>1. proc'[p] = Idle /\ \A q \in Procs \ {p} : proc'[q] = proc[q]
  BY DEF EndOf, TypeOK
<1>2. ~Dispatching(p)' /\ ~Preparing(p)'
  BY <1>1 DEF Dispatching, Preparing, Idle
<1> QED BY <1>1, <1>2, FrameKeepsRun DEF RunFrame, SavedScalars, DispatchOk, PrepareOk

\* A handler that goes on to a step before or apart from a dispatch.
LEMMA MoveKeepsRun ==
  ASSUME TypeOK, RunInv, NEW p \in Procs, NEW s \in {"drain", "wipe", "delete", "save"},
         proc' = [proc EXCEPT ![p].step = s], UNCHANGED <<camp, queue, pc, eligible, hook>>,
         proc[p].op = "start" => s = "save" /\ proc[p].step = "wipe"
  PROVE  RunInv'
<1>1. \A q \in Procs \ {p} : proc'[q] = proc[q]
  BY DEF TypeOK
<1>2. /\ proc'[p].op = proc[p].op /\ proc'[p].step = s /\ proc'[p].doc = proc[p].doc
      /\ proc'[p].total = proc[p].total /\ proc'[p].queued = proc[p].queued
  BY DEF TypeOK, Proc
<1>3. DispatchOk(p)' /\ ~Dispatching(p)'
  BY <1>2 DEF DispatchOk, Dispatching
<1>4. RunFrame(p)
  BY <1>1, <1>3 DEF RunFrame, SameCounts, RunInv, StatusInv
<1>5. PrepareOk(p)'
  <2>1. CASE proc[p].op # "start"
    BY <1>2, <2>1 DEF PrepareOk, Preparing
  <2>2. CASE proc[p].op = "start"
    <3>1. Preparing(p) /\ proc[p].step # "count"
      BY <2>2 DEF Preparing
    <3>2. proc[p].doc.ver = camp.ver => Settled'
      <4> SUFFICES ASSUME proc[p].doc.ver = camp.ver PROVE Settled'
        OBVIOUS
      <4>1. Settled
        BY <3>1 DEF RunInv, PrepareOk
      <4>2. \A q \in Procs \ {p} : (Dispatching(q)' <=> Dispatching(q)) /\ ToCome(q)' = ToCome(q)
        BY <1>1 DEF Dispatching, ToCome
      <4> QED BY <1>3, <4>1, <4>2 DEF Settled, AllEnded, Ended
    <3> QED BY <1>2, <3>1, <3>2 DEF RunInv, PrepareOk, SameCounts
  <2> QED BY <2>1, <2>2
<1> QED BY <1>3, <1>4, <1>5, FrameKeepsRun

\* A start that is let in finds a draft or a campaign whose sends have ended.
LEMMA BeginKeepsRun ==
  ASSUME TypeOK, RunInv, NEW p \in Procs, NEW o \in Operations \cup {"start"}, ~Refused(o), ~PastBound(o),
         proc' = Begin(p, o), UNCHANGED <<camp, queue, pc, eligible, hook>>
  PROVE  RunInv'
<1>0. camp \in CampaignDoc
  BY DEF TypeOK
<1>1. /\ \A q \in Procs \ {p} : proc'[q] = proc[q]
      /\ proc'[p].op = o /\ proc'[p].step = AfterLoad(o) /\ proc'[p].doc = camp /\ proc'[p].queued = 0
  BY DEF Begin, TypeOK, Idle
<1>2. ~Dispatching(p)'
  BY <1>1 DEF Dispatching, AfterLoad
<1>3. RunFrame(p)
  BY <1>1, <1>2 DEF RunFrame, SameCounts, RunInv, StatusInv
<1>4. PrepareOk(p)'
  <2>1. CASE o # "start"
    BY <1>1, <2>1 DEF PrepareOk, Preparing
  <2>2. CASE o = "start"
    <3>1. proc'[p].step = "count" /\ camp.run < MaxRuns /\ camp.status \in {"draft", "completed"}
      <4>1. ~(camp.run >= MaxRuns)
        BY <2>2 DEF PastBound
      <4>2. camp.status \in {"draft", "completed"}
        BY <2>2 DEF Refused, RunInv, StatusInv, Reached, Exists
      <4> QED BY <1>0, <1>1, <2>2, <4>1, <4>2, BoundsAssumption DEF AfterLoad, CampaignDoc
    <3>2. Settled
      <4>1. CASE camp.status = "completed"
        BY <4>1 DEF RunInv, StatusInv
      <4>2. CASE camp.status = "draft"
        <5>1. camp.run = 0
          BY <4>2 DEF RunInv, StatusInv
        <5>2. AllEnded
          <6> SUFFICES ASSUME NEW j \in Jobs PROVE j[2] # camp.run
            BY DEF AllEnded, RunInv, CountInv
          <6> QED BY <5>1, BoundsAssumption DEF Jobs, Runs
        <5>3. \A q \in Procs : ~Dispatching(q)
          BY <5>1 DEF RunInv, DispatchOk
        <5> QED BY <5>2, <5>3 DEF Settled
      <4> QED BY <3>1, <4>1, <4>2
    <3>3. Settled'
      <4>1. \A q \in Procs \ {p} : (Dispatching(q)' <=> Dispatching(q)) /\ ToCome(q)' = ToCome(q)
        BY <1>1 DEF Dispatching, ToCome
      <4> QED BY <1>2, <3>2, <4>1 DEF Settled, AllEnded, Ended
    <3> QED BY <1>0, <1>1, <3>1, <3>3 DEF PrepareOk, SameCounts, CampaignDoc
  <2> QED BY <2>1, <2>2
<1>5. DispatchOk(p)'
  BY <1>2 DEF DispatchOk
<1> QED BY <1>3, <1>4, <1>5, FrameKeepsRun

\* The audience is counted, or the start gives up.
LEMMA CountKeepsRun ==
  ASSUME TypeOK, RunInv, NEW p \in Procs, CountAudience(p)
  PROVE  RunInv'
<1>1. UNCHANGED <<camp, queue, pc, eligible, hook>>
  BY DEF CountAudience, KeepOutside, KeepJobs, workVars, hookVars
<1>2. CASE EndOf(p)
  BY <1>1, <1>2, EndKeepsRun DEF SavedScalars, SameCounts, RunInv, StatusInv
<1>3. CASE ~EndOf(p)
  <2>1. proc' = [proc EXCEPT ![p] = [@ EXCEPT !.total = Cardinality(eligible), !.step = "wipe"]]
        /\ proc[p].op = "start" /\ proc[p].step = "count"
    BY <1>3 DEF CountAudience, Step
  <2>2. /\ \A q \in Procs \ {p} : proc'[q] = proc[q]
        /\ proc'[p].op = proc[p].op /\ proc'[p].step = "wipe" /\ proc'[p].doc = proc[p].doc
        /\ proc'[p].total = Cardinality(eligible) /\ proc'[p].queued = proc[p].queued
    BY <2>1 DEF TypeOK, Proc
  <2>3. ~Dispatching(p)' /\ DispatchOk(p)'
    BY <2>2 DEF DispatchOk, Dispatching
  <2>4. RunFrame(p)
    BY <1>1, <2>2, <2>3 DEF RunFrame, SameCounts, RunInv, StatusInv
  <2>5. Settled => Settled'
    <3>1. \A q \in Procs \ {p} : (Dispatching(q)' <=> Dispatching(q)) /\ ToCome(q)' = ToCome(q)
      BY <1>1, <2>2 DEF Dispatching, ToCome
    <3> QED BY <1>1, <2>3, <3>1 DEF Settled, AllEnded, Ended
  <2>6. Cardinality(eligible) \in Nat
    BY AudienceSize DEF TypeOK
  <2>7. PrepareOk(p)'
    BY <1>1, <2>1, <2>2, <2>5, <2>6 DEF PrepareOk, Preparing, RunInv, SameCounts
  <2> QED BY <2>3, <2>4, <2>7, FrameKeepsRun
<1> QED BY <1>2, <1>3

\* The save of a start that wins finds every job ended, and sets the counters to zero.
LEMMA StartSaves ==
  ASSUME TypeOK, RunInv, NEW p \in Procs, SaveStart(p)
  PROVE  /\ Preparing(p) /\ proc[p].step # "count" /\ Settled /\ camp.run < MaxRuns /\ proc[p].queued = 0
         /\ Cardinality(eligible) <= proc[p].total
         /\ camp'.status = "sending" /\ camp'.sent = 0 /\ camp'.failed = 0 /\ camp'.bounced = 0
         /\ camp'.total = proc[p].total /\ camp'.run = camp.run + 1 /\ camp'.ver = camp.ver + 1
<1>0. Doc(p) \in CampaignDoc /\ StartedDoc(p) \in CampaignDoc /\ Written(p, StartedDoc(p)) \in CampaignDoc
  BY DocTypes DEF TypeOK, WorkTypes, ApiTypes
<1>1. /\ Preparing(p) /\ proc[p].step # "count" /\ camp.ver = Doc(p).ver
      /\ camp' = [Written(p, StartedDoc(p)) EXCEPT !.ver = @ + 1]
  BY DEF SaveStart, Preparing, Step, SaveArrays
<1>2. /\ Settled /\ SameCounts(Doc(p), camp) /\ Doc(p).total = camp.total /\ Doc(p).run = camp.run
      /\ Doc(p).status # "sending" /\ camp.run < MaxRuns /\ proc[p].queued = 0
      /\ Cardinality(eligible) <= proc[p].total
  BY <1>1 DEF RunInv, PrepareOk, Doc
<1>3. /\ StartedDoc(p).status = "sending" /\ StartedDoc(p).sent = 0 /\ StartedDoc(p).failed = 0 /\ StartedDoc(p).bounced = 0
      /\ StartedDoc(p).total = proc[p].total /\ StartedDoc(p).run = camp.run + 1
  BY <1>0 DEF StartedDoc, CampaignDoc
<1>4. /\ Written(p, StartedDoc(p)).status = "sending"
      /\ Written(p, StartedDoc(p)).sent = 0 /\ Written(p, StartedDoc(p)).failed = 0 /\ Written(p, StartedDoc(p)).bounced = 0
      /\ Written(p, StartedDoc(p)).total = proc[p].total
      /\ Written(p, StartedDoc(p)).run = camp.run + 1
      /\ Written(p, StartedDoc(p)).ver = camp.ver
  BY <1>2, <1>3 DEF Written, Kept, SameCounts
<1> QED BY <1>0, <1>1, <1>2, <1>4 DEF CampaignDoc

\* So its run begins with no jobs and as many to come as the total.
LEMMA SaveStartKeepsRun ==
  ASSUME TypeOK, MailInv, RunInv, NEW p \in Procs, SaveStart(p)
  PROVE  RunInv'
<1>0. camp \in CampaignDoc /\ proc[p] \in Proc
  BY DEF TypeOK
<1>1. UNCHANGED <<queue, pc, eligible, hook>>
  BY DEF SaveStart, KeepJobs, workVars, hookVars
<1>2. /\ Settled /\ camp.run < MaxRuns /\ proc[p].queued = 0 /\ Cardinality(eligible) <= proc[p].total
  BY StartSaves
<1>5. /\ camp'.status = "sending" /\ camp'.sent = 0 /\ camp'.failed = 0 /\ camp'.bounced = 0
      /\ camp'.total = proc[p].total /\ camp'.run = camp.run + 1 /\ camp'.ver = camp.ver + 1
  BY StartSaves
<1>6. /\ \A q \in Procs \ {p} : proc'[q] = proc[q]
      /\ proc'[p].step = "dispatch" /\ proc'[p].run = camp.run + 1 /\ proc'[p].todo = Contacts /\ proc'[p].batch = {}
      /\ proc'[p].queued = proc[p].queued
  BY <1>0 DEF SaveStart, TypeOK, Proc
<1>7. RunJobs' = {} /\ EndedJobs' = {}
  <2>1. ASSUME NEW j \in Jobs, j[2] = camp.run + 1 PROVE queue[j] = "none"
    <3>1. j[2] > camp.run
      BY <1>0, <2>1 DEF CampaignDoc
    <3> QED BY <3>1 DEF MailInv, DispatchInv
  <2>2. RunJobs' = {}
    BY <1>1, <1>5, <2>1 DEF RunJobs
  <2> QED BY <2>2 DEF EndedJobs
<1>8. Cardinality(RunJobs') = 0 /\ Cardinality(EndedJobs') = 0
  BY <1>7, FS_EmptySet
<1>9. camp.run \in Nat /\ proc[p].total \in Nat /\ camp.ver \in Nat /\ MaxRuns \in Nat
  BY <1>0, BoundsAssumption DEF CampaignDoc, Proc
<1>10. StatusInv'
  BY <1>2, <1>5, <1>9 DEF StatusInv, Reached
<1>11. CountInv'
  <2>1. \A j \in Jobs : Ended(j)'
    BY <1>1, <1>2 DEF Settled, AllEnded, Ended
  <2>2. Accounted(camp') = 0
    BY <1>5 DEF Accounted
  <2> QED BY <1>5, <1>8, <1>9, <2>1, <2>2 DEF CountInv
<1>12. DispatchOk(p)'
  <2>1. ToCome(p)' = Cardinality(eligible)
    <3>1. proc'[p].todo \cap eligible' = eligible
      BY <1>1, <1>6 DEF TypeOK
    <3>2. Cardinality(proc'[p].batch) = 0 /\ Cardinality(eligible) \in Nat
      BY <1>6, FS_EmptySet, AudienceSize DEF TypeOK
    <3>3. Cardinality(proc'[p].todo \cap eligible') = Cardinality(eligible)
      BY <3>1
    <3> QED BY <1>6, <3>2, <3>3 DEF ToCome
  <2>2. Cardinality(eligible) \in Nat
    BY AudienceSize DEF TypeOK
  <2> QED BY <1>2, <1>5, <1>6, <1>8, <1>9, <2>1, <2>2 DEF DispatchOk
<1>13. ASSUME NEW q \in Procs \ {p} PROVE DispatchOk(q)'
  <2>1. (Dispatching(q)' <=> Dispatching(q)) /\ ToCome(q)' = ToCome(q) /\ proc'[q] = proc[q]
    BY <1>1, <1>6, <1>13 DEF Dispatching, ToCome
  <2>2. Dispatching(q) => ToCome(q) = 0 /\ proc[q].run \in 1..camp.run
    BY <1>2, <1>13 DEF Settled, RunInv, DispatchOk
  <2> QED BY <1>5, <1>9, <2>1, <2>2 DEF DispatchOk
<1>14. ASSUME NEW q \in Procs PROVE PrepareOk(q)'
  <2>1. CASE q = p
    BY <1>6, <2>1 DEF PrepareOk, Preparing
  <2>2. CASE q # p
    <3>1. proc'[q] = proc[q] /\ proc[q].doc.ver \in Nat
      BY <1>6, <2>2 DEF TypeOK, Proc, CampaignDoc
    <3>2. CASE ~Preparing(q)
      BY <3>1, <3>2 DEF PrepareOk, Preparing
    <3>3. CASE Preparing(q)
      <4>1. proc[q].doc.ver <= camp'.ver /\ proc[q].doc.ver # camp'.ver
        BY <1>5, <1>9, <3>1, <3>3 DEF RunInv, PrepareOk
      <4>2. /\ proc[q].queued = 0 /\ proc[q].doc.status # "sending" /\ proc[q].doc.run < MaxRuns
            /\ proc[q].step # "count" => Cardinality(eligible) <= proc[q].total
        BY <3>3 DEF RunInv, PrepareOk
      <4>3. eligible' = eligible
        BY <1>1
      <4> QED BY <3>1, <4>1, <4>2, <4>3 DEF PrepareOk
    <3> QED BY <3>2, <3>3
  <2> QED BY <2>1, <2>2
<1> QED BY <1>1, <1>10, <1>11, <1>12, <1>13, <1>14 DEF RunInv

\* A batch goes from the cursor to the dispatch: as many are to come.
LEMMA InsertKeepsRun ==
  ASSUME TypeOK, RunInv, NEW p \in Procs, DispatchInsert(p)
  PROVE  RunInv'
<1>1. PICK B \in SUBSET Contacts :
        /\ B \subseteq proc[p].todo \cap eligible
        /\ proc' = [proc EXCEPT ![p] = [@ EXCEPT !.batch = B, !.todo = proc[p].todo \ B, !.step = "enqueue"]]
  BY DEF DispatchInsert, IsBatch, NextRows
<1>2. UNCHANGED <<camp, queue, pc, eligible, hook>> /\ proc[p].step = "dispatch"
  BY DEF DispatchInsert, KeepOutside, KeepJobs, workVars, hookVars, Step
<1>3. /\ \A q \in Procs \ {p} : proc'[q] = proc[q]
      /\ proc'[p].step = "enqueue" /\ proc'[p].run = proc[p].run /\ proc'[p].queued = proc[p].queued
      /\ proc'[p].batch = B /\ proc'[p].todo = proc[p].todo \ B
  BY <1>1 DEF TypeOK, Proc
<1>4. ToCome(p) \in Nat /\ ToCome(p)' \in Nat /\ ToCome(p)' <= ToCome(p)
  <2> DEFINE R == proc[p].todo \cap eligible
  <2>1. R \in SUBSET Contacts /\ IsFiniteSet(R) /\ Cardinality(R) \in Nat /\ R \cap B = B
    BY <1>1, SizesAssumption, FS_Subset, AudienceSize DEF TypeOK
  <2>2. Cardinality(R \ B) = Cardinality(R) - Cardinality(B)
    BY <2>1, FS_Difference
  <2>3. Cardinality(B) \in Nat /\ Cardinality(R \ B) \in Nat /\ Cardinality(proc[p].batch) \in Nat
    BY <2>1, AudienceSize DEF TypeOK, Proc
  <2>4. proc'[p].todo \cap eligible' = R \ B
    BY <1>2, <1>3
  <2>5. Cardinality(proc'[p].todo \cap eligible') = Cardinality(R \ B) /\ Cardinality(proc'[p].batch) = Cardinality(B)
    BY <1>3, <2>4
  <2>6. ToCome(p) = Cardinality(proc[p].batch) + Cardinality(R)
    BY <1>2 DEF ToCome
  <2>7. ToCome(p)' = Cardinality(B) + Cardinality(R \ B)
    BY <1>3, <2>5 DEF ToCome
  <2> HIDE DEF R
  <2> QED BY <2>1, <2>2, <2>3, <2>6, <2>7
<1>5. Dispatching(p) /\ Dispatching(p)' /\ ~Preparing(p)'
  BY <1>2, <1>3 DEF Dispatching, Preparing
<1>6. RunFrame(p)
  BY <1>2, <1>3, <1>4, <1>5 DEF RunFrame, SameCounts, RunInv, StatusInv, Settled
<1>7. DispatchOk(p)'
  <2>1. RunJobs' = RunJobs /\ Cardinality(RunJobs) \in Nat /\ camp.total \in Nat
    BY <1>2, RunTypes DEF RunJobs, CampaignDoc
  <2> QED BY <1>2, <1>3, <1>4, <1>5, <2>1 DEF DispatchOk, RunInv
<1> QED BY <1>5, <1>6, <1>7, FrameKeepsRun DEF PrepareOk

\* A duplicate ends the dispatch while something was to come.
LEMMA DuplicateKeepsRun ==
  ASSUME TypeOK, RunInv, NEW p \in Procs, DispatchDuplicate(p)
  PROVE  RunInv'
<1>1. proc' = [proc EXCEPT ![p].step = "catch"]
  BY DEF DispatchDuplicate, Advance
<1>2. UNCHANGED <<camp, queue, pc, eligible, hook>> /\ proc[p].step = "dispatch"
  BY DEF DispatchDuplicate, KeepOutside, KeepJobs, workVars, hookVars, Step
<1>3. /\ \A q \in Procs \ {p} : proc'[q] = proc[q]
      /\ proc'[p].step = "catch" /\ proc'[p].run = proc[p].run /\ proc'[p].queued = proc[p].queued
  BY <1>1 DEF TypeOK, Proc
<1>4. proc[p].todo \cap eligible # {}
  BY DEF DispatchDuplicate, IsBatch, NextRows
<1>5. ToCome(p) \in Nat /\ ToCome(p) >= 1 /\ ToCome(p)' = 1
  <2> DEFINE R == proc[p].todo \cap eligible
  <2>1. IsFiniteSet(R) /\ Cardinality(R) \in Nat
    BY SizesAssumption, FS_Subset, AudienceSize DEF TypeOK
  <2>2. Cardinality(R) # 0
    BY <1>4, <2>1, FS_EmptySet
  <2>3. Cardinality(proc[p].batch) \in Nat
    BY AudienceSize DEF TypeOK, Proc
  <2>4. ToCome(p) = Cardinality(proc[p].batch) + Cardinality(R)
    BY <1>2 DEF ToCome
  <2>5. ToCome(p)' = 1
    BY <1>3 DEF ToCome
  <2> HIDE DEF R
  <2> QED BY <2>1, <2>2, <2>3, <2>4, <2>5
<1>6. Dispatching(p) /\ Dispatching(p)' /\ ~Preparing(p)' /\ ToCome(p) # 0
  BY <1>2, <1>3, <1>5 DEF Dispatching, Preparing
<1>7. RunFrame(p)
  BY <1>2, <1>3, <1>6 DEF RunFrame, SameCounts, RunInv, StatusInv, Settled
<1>8. DispatchOk(p)'
  <2>1. RunJobs' = RunJobs /\ Cardinality(RunJobs) \in Nat /\ camp.total \in Nat
    BY <1>2, RunTypes DEF RunJobs, CampaignDoc
  <2> QED BY <1>2, <1>3, <1>5, <1>6, <2>1 DEF DispatchOk, RunInv
<1> QED BY <1>6, <1>7, <1>8, FrameKeepsRun DEF PrepareOk

\* What it saves when it gives up.
LEMMA CatchSaves ==
  ASSUME TypeOK, NEW p \in Procs, DispatchCatch(p)
  PROVE  /\ SameCounts(camp', camp) /\ camp'.run = camp.run /\ camp'.ver = camp.ver
         /\ camp'.total \in {camp.total, proc[p].queued} /\ camp'.status \in {camp.status, "paused"}
<1>0. Doc(p) \in CampaignDoc
  BY DocTypes DEF TypeOK, WorkTypes, ApiTypes
<1> DEFINE halted == [Doc(p) EXCEPT !.status = "paused", !.total = proc[p].queued]
<1>1. /\ halted.sent = Doc(p).sent /\ halted.failed = Doc(p).failed /\ halted.bounced = Doc(p).bounced
      /\ halted.run = Doc(p).run /\ halted.status = "paused" /\ halted.total = proc[p].queued
  BY <1>0 DEF CampaignDoc
<1>2. camp' = Written(p, halted) \/ camp' = camp
  BY DEF DispatchCatch, SaveScalars
<1> HIDE DEF halted
<1> QED BY <1>1, <1>2 DEF Written, Kept, SameCounts

\* A dispatch that gives up pauses the campaign with the jobs it queued as the total.
LEMMA CatchKeepsRun ==
  ASSUME TypeOK, MailInv, RunInv, NEW p \in Procs, DispatchCatch(p)
  PROVE  RunInv'
<1>0. camp \in CampaignDoc /\ proc[p] \in Proc /\ Doc(p) \in CampaignDoc
  BY DocTypes DEF TypeOK, WorkTypes, ApiTypes
<1>1. proc[p].step = "catch" /\ UNCHANGED <<queue, pc, eligible, hook>> /\ EndOf(p)
  BY DEF DispatchCatch, KeepOutside, KeepJobs, workVars, hookVars, Step
<1>2. CASE camp' = camp
  BY <1>1, <1>2, EndKeepsRun DEF SavedScalars, SameCounts, RunInv, StatusInv
<1>3. CASE camp' # camp
  <2>3. /\ SameCounts(camp', camp) /\ camp'.run = camp.run /\ camp'.ver = camp.ver
        /\ camp'.total \in {camp.total, proc[p].queued} /\ camp'.status \in {camp.status, "paused"}
    BY CatchSaves
  <2>4. Dispatching(p) /\ ToCome(p) = 1
    BY <1>1 DEF Dispatching, ToCome
  <2>5. ~Settled /\ proc[p].run = camp.run /\ proc[p].run \in 1..camp.run /\ proc[p].queued = Cardinality(RunJobs)
    BY <2>4 DEF Settled, RunInv, DispatchOk
  <2>6. proc'[p] = Idle /\ \A q \in Procs \ {p} : proc'[q] = proc[q]
    BY <1>1 DEF EndOf, TypeOK
  <2>7. RunJobs' = RunJobs /\ (\A j \in Jobs : Ended(j)' <=> Ended(j))
    BY <1>1, <2>3 DEF RunJobs, Ended
  <2>8. EndedJobs' = EndedJobs
    BY <1>1, <2>7 DEF EndedJobs, Ended
  <2>9. StatusInv'
    BY <2>3, <2>5 DEF RunInv, StatusInv, Reached
  <2>10. CountInv'
    <3>1. Cardinality(RunJobs) \in Nat
      BY RunTypes
    <3>2. Cardinality(RunJobs) <= camp'.total
      BY <2>3, <2>5, <3>1 DEF RunInv, CountInv
    <3>3. Accounted(camp') = Accounted(camp)
      BY <2>3 DEF SameCounts, Accounted
    <3> QED BY <2>3, <2>7, <2>8, <3>2, <3>3 DEF RunInv, CountInv
  <2>11. ASSUME NEW q \in Procs PROVE DispatchOk(q)'
    <3>1. CASE q = p
      BY <2>6, <3>1 DEF DispatchOk, Dispatching, Idle
    <3>2. CASE q # p
      <4>1. (Dispatching(q)' <=> Dispatching(q)) /\ ToCome(q)' = ToCome(q) /\ proc'[q] = proc[q]
        BY <1>1, <2>6, <3>2 DEF Dispatching, ToCome
      <4>2. proc[p].run # 0
        BY <2>5
      <4>3. proc[q].run # camp.run
        BY <2>5, <3>2, <4>2 DEF MailInv, DispatchInv
      <4> QED BY <2>3, <4>1, <4>3 DEF RunInv, DispatchOk
    <3> QED BY <3>1, <3>2
  <2>12. ASSUME NEW q \in Procs PROVE PrepareOk(q)'
    <3>1. CASE q = p
      BY <2>6, <3>1 DEF PrepareOk, Preparing, Idle
    <3>2. CASE q # p
      <4>1. (Preparing(q)' <=> Preparing(q)) /\ proc'[q] = proc[q] /\ eligible' = eligible
        BY <1>1, <2>6, <3>2 DEF Preparing
      <4>2. Preparing(q) => proc[q].doc.ver # camp.ver
        BY <2>5 DEF RunInv, PrepareOk
      <4> QED BY <2>3, <4>1, <4>2 DEF RunInv, PrepareOk
    <3> QED BY <3>1, <3>2
  <2> QED BY <1>1, <2>9, <2>10, <2>11, <2>12 DEF RunInv
<1> QED BY <1>2, <1>3

\* A batch is queued: its jobs join the run, and no more are to come for it.
LEMMA EnqueueKeepsRun ==
  ASSUME TypeOK, MailInv, RunInv, NEW p \in Procs, DispatchEnqueue(p)
  PROVE  RunInv'
<1> DEFINE B == proc[p].batch
           R == proc[p].todo \cap eligible
           N == B \X {camp.run}
<1>0. /\ B \in SUBSET Contacts /\ R \in SUBSET Contacts /\ IsFiniteSet(B)
      /\ Cardinality(B) \in Nat /\ Cardinality(R) \in Nat /\ proc[p].queued \in Nat /\ camp.total \in Nat
      /\ Cardinality(RunJobs) \in Nat /\ camp.run \in Nat
  <2>1. B \in SUBSET Contacts /\ R \in SUBSET Contacts /\ proc[p].queued \in Nat
    BY DEF TypeOK, Proc
  <2> QED BY <2>1, RunTypes, SizesAssumption, FS_Subset, AudienceSize DEF CampaignDoc
<1>1. /\ queue' = [j \in Jobs |-> IF j[1] \in B /\ j[2] = proc[p].run THEN "waiting" ELSE queue[j]]
      /\ UNCHANGED <<camp, pc, eligible, hook>> /\ proc[p].step = "enqueue"
  BY DEF DispatchEnqueue, hookVars, Step
<1>2. /\ \A q \in Procs \ {p} : proc'[q] = proc[q]
      /\ proc'[p].step = "dispatch" /\ proc'[p].run = proc[p].run /\ proc'[p].queued = proc[p].queued + Cardinality(B)
      /\ proc'[p].batch = {} /\ proc'[p].todo = proc[p].todo
  BY DEF DispatchEnqueue, TypeOK, Proc
<1>3. Dispatching(p) /\ Dispatching(p)' /\ ~Preparing(p)' /\ PrepareOk(p)'
  BY <1>1, <1>2 DEF Dispatching, Preparing, PrepareOk
<1>4. ToCome(p) = Cardinality(B) + Cardinality(R) /\ ToCome(p)' = Cardinality(R)
  <2>1. Cardinality(proc'[p].batch) = 0 /\ Cardinality(proc'[p].todo \cap eligible') = Cardinality(R)
    BY <1>1, <1>2, FS_EmptySet
  <2> QED BY <1>0, <1>1, <1>2, <2>1 DEF ToCome
<1>5. CASE B = {}
  <2>1. queue' = queue /\ Cardinality(B) = 0
    BY <1>1, <1>5, FS_EmptySet DEF TypeOK
  <2>2. RunJobs' = RunJobs
    BY <1>1, <2>1 DEF RunJobs
  <2>3. DispatchOk(p)'
    <3> HIDE DEF B, R
    <3> QED BY <1>0, <1>1, <1>2, <1>3, <1>4, <2>1, <2>2 DEF RunInv, DispatchOk
  <2>4. RunFrame(p)
    <3> HIDE DEF B, R
    <3> QED BY <1>0, <1>1, <1>2, <1>3, <1>4, <2>1 DEF RunFrame, SameCounts, RunInv, StatusInv, Settled
  <2> QED BY <1>3, <2>3, <2>4, FrameKeepsRun
<1>6. CASE B # {}
  <2>1. Cardinality(B) > 0 /\ ToCome(p) # 0
    <3>1. Cardinality(B) # 0
      BY <1>0, <1>6, FS_EmptySet
    <3> HIDE DEF B, R
    <3> QED BY <1>0, <1>4, <3>1
  <2>2. /\ proc[p].run = camp.run /\ proc[p].run \in 1..camp.run /\ ~Settled
        /\ Cardinality(RunJobs) + ToCome(p) <= camp.total /\ proc[p].queued = Cardinality(RunJobs)
    BY <1>3, <2>1 DEF Settled, RunInv, DispatchOk
  <2>3. camp.run \in Runs
    BY <1>0, <2>2, BoundsAssumption DEF RunInv, StatusInv, Runs
  <2>4. N \in SUBSET Jobs
    BY <1>0, <2>3 DEF Jobs
  <2>5. ASSUME NEW j \in Jobs PROVE j \in N <=> j[1] \in B /\ j[2] = camp.run
    BY DEF Jobs
  <2>6. ASSUME NEW j \in N PROVE queue[j] = "none" /\ queue'[j] = "waiting"
    <3>1. j \in Jobs /\ j[1] \in B /\ j[2] = proc[p].run
      BY <2>2, <2>4, <2>5
    <3> QED BY <1>1, <3>1 DEF MailInv, DispatchInv, Unqueued
  <2>7. ASSUME NEW j \in Jobs, j \notin N PROVE queue'[j] = queue[j]
    BY <1>1, <2>2, <2>5, <2>7
  <2> HIDE DEF N
  <2>8. RunJobs' = RunJobs \cup N /\ RunJobs \cap N = {}
    <3>1. \A j \in N : j[2] = camp.run
      BY <2>4, <2>5
    <3> QED BY <1>1, <2>4, <2>6, <2>7, <3>1 DEF RunJobs
  <2>9. EndedJobs' = EndedJobs
    <3>1. ASSUME NEW j \in N PROVE ~Ended(j)' /\ j \notin EndedJobs
      BY <2>6, <2>8, <3>1 DEF Ended, EndedJobs
    <3>2. ASSUME NEW j \in Jobs, j \notin N PROVE Ended(j)' <=> Ended(j)
      BY <1>1, <2>7, <3>2 DEF Ended
    <3>3. \A j \in RunJobs : j \in Jobs /\ j \notin N
      BY <2>8 DEF RunJobs
    <3>4. ASSUME NEW j PROVE j \in EndedJobs' <=> j \in EndedJobs
      BY <2>8, <3>1, <3>2, <3>3 DEF EndedJobs
    <3> QED BY <3>4
  <2>10. Cardinality(N) = Cardinality(B)
    <3>1. IsFiniteSet({camp.run}) /\ Cardinality({camp.run}) = 1
      BY FS_Singleton
    <3>2. Cardinality(N) = Cardinality(B) * Cardinality({camp.run})
      BY <1>0, <3>1, FS_Product DEF N
    <3> HIDE DEF B
    <3> QED BY <1>0, <3>1, <3>2
  <2>11. Cardinality(RunJobs') = Cardinality(RunJobs) + Cardinality(B)
    <3>1. IsFiniteSet(RunJobs) /\ IsFiniteSet(N)
      BY <2>4, JobsFinite DEF RunJobs
    <3>2. Cardinality(RunJobs \cap N) = 0
      BY <2>8, FS_EmptySet
    <3>3. Cardinality(RunJobs \cup N) = Cardinality(RunJobs) + Cardinality(N) - Cardinality(RunJobs \cap N)
      BY <3>1, FS_Union
    <3>4. Cardinality(RunJobs') = Cardinality(RunJobs \cup N)
      BY <2>8
    <3> HIDE DEF B
    <3> QED BY <1>0, <2>10, <3>2, <3>3, <3>4
  <2>12. StatusInv'
    BY <1>1, <2>2 DEF RunInv, StatusInv
  <2>13. CountInv'
    <3>1. \A j \in Jobs : j[2] # camp.run => Ended(j)'
      BY <1>1, <2>5, <2>7 DEF RunInv, CountInv, Ended
    <3>2. Cardinality(RunJobs') <= camp.total
      <4> HIDE DEF B, R
      <4> QED BY <1>0, <1>4, <2>2, <2>11
    <3> QED BY <1>1, <2>9, <3>1, <3>2 DEF RunInv, CountInv
  <2>14. DispatchOk(p)'
    <3> HIDE DEF B, R
    <3> QED BY <1>0, <1>1, <1>2, <1>4, <2>2, <2>11 DEF DispatchOk
  <2>15. ASSUME NEW q \in Procs \ {p} PROVE DispatchOk(q)'
    <3>1. (Dispatching(q)' <=> Dispatching(q)) /\ ToCome(q)' = ToCome(q) /\ proc'[q] = proc[q]
      BY <1>1, <1>2, <2>15 DEF Dispatching, ToCome
    <3>2. proc[p].run # 0
      BY <2>2
    <3>3. proc[q].run # camp.run
      BY <2>2, <2>15, <3>2 DEF MailInv, DispatchInv
    <3> QED BY <1>1, <3>1, <3>3 DEF RunInv, DispatchOk
  <2>16. ASSUME NEW q \in Procs \ {p} PROVE PrepareOk(q)'
    <3>1. (Preparing(q)' <=> Preparing(q)) /\ proc'[q] = proc[q]
      BY <1>2, <2>16 DEF Preparing
    <3>2. Preparing(q) => proc[q].doc.ver # camp.ver
      BY <2>2 DEF RunInv, PrepareOk
    <3> QED BY <1>1, <3>1, <3>2 DEF RunInv, PrepareOk
  <2> QED BY <1>1, <1>3, <2>12, <2>13, <2>14, <2>15, <2>16 DEF RunInv
<1> QED BY <1>5, <1>6

\* A deletion ends the jobs that wait.
LEMMA DrainKeepsRun ==
  ASSUME TypeOK, MailInv, RunInv, NEW p \in Procs, RemoveDrain(p)
  PROVE  RunInv'
<1>1. /\ queue' = [j \in Jobs |-> IF queue[j] = "waiting" THEN "removed" ELSE queue[j]]
      /\ UNCHANGED <<camp, pc, eligible, hook>> /\ proc[p].op = "remove" /\ proc[p].step = "drain"
      /\ proc' = [proc EXCEPT ![p].step = "wipe"]
  BY DEF RemoveDrain, Advance, Step, hookVars
<1>2. /\ \A q \in Procs \ {p} : proc'[q] = proc[q]
      /\ proc'[p].op = "remove" /\ proc'[p].step = "wipe"
  BY <1>1 DEF TypeOK, Proc
<1>3. /\ ~Dispatching(p)' /\ ~Preparing(p)' /\ ~Dispatching(p)
      /\ \A q \in Procs \ {p} : (Dispatching(q)' <=> Dispatching(q)) /\ (Preparing(q)' <=> Preparing(q)) /\ ToCome(q)' = ToCome(q)
  BY <1>1, <1>2 DEF Dispatching, Preparing, ToCome
<1>4. \A j \in Jobs : (queue'[j] = "none" <=> queue[j] = "none") /\ (Ended(j) => Ended(j)')
  BY <1>1 DEF Ended
<1>5. RunJobs' = RunJobs
  BY <1>1, <1>4 DEF RunJobs
<1>6. Cardinality(EndedJobs) <= Cardinality(EndedJobs') /\ Cardinality(EndedJobs) \in Nat /\ Cardinality(EndedJobs') \in Nat
  <2>1. EndedJobs' \in SUBSET Jobs /\ EndedJobs \in SUBSET Jobs
    BY <1>5 DEF EndedJobs, RunJobs
  <2>2. EndedJobs \in SUBSET EndedJobs'
    <3>1. \A j \in RunJobs : j \in Jobs
      BY DEF RunJobs
    <3> QED BY <1>1, <1>5, <3>1 DEF EndedJobs, Ended
  <2> QED BY <2>1, <2>2, JobsFinite, FS_Subset
<1>7. Settled => Settled'
  <2>1. AllEnded => AllEnded'
    BY <1>1 DEF AllEnded, Ended
  <2> QED BY <1>3, <2>1 DEF Settled
<1>8. StatusInv'
  BY <1>1, <1>7 DEF RunInv, StatusInv
<1>9. CountInv'
  <2>1. camp'.run = camp.run /\ Accounted(camp') = Accounted(camp) /\ Accounted(camp) \in Nat
    BY <1>1, RunTypes
  <2>2. \A j \in Jobs : j[2] # camp.run => Ended(j)'
    BY <1>1 DEF RunInv, CountInv, Ended
  <2> QED BY <1>1, <1>5, <1>6, <2>1, <2>2 DEF RunInv, CountInv
<1>10. ASSUME NEW q \in Procs PROVE DispatchOk(q)' /\ PrepareOk(q)'
  <2>1. CASE q = p
    BY <1>3, <2>1 DEF DispatchOk, PrepareOk
  <2>2. CASE q # p
    BY <1>1, <1>2, <1>3, <1>5, <1>7, <2>2 DEF RunInv, DispatchOk, PrepareOk, SameCounts
  <2> QED BY <2>1, <2>2
<1> QED BY <1>1, <1>8, <1>9, <1>10 DEF RunInv

\* What a handler that sets the status saves.
LEMMA StatusSaves ==
  ASSUME TypeOK, NEW p \in Procs, NEW o, NEW s, SetStatus(p, o, s)
  PROVE  /\ SameCounts(camp', camp) /\ camp'.run = camp.run /\ camp'.ver = camp.ver /\ camp'.total = camp.total
         /\ camp'.status \in {camp.status, s}
<1>0. Doc(p) \in CampaignDoc
  BY DocTypes DEF TypeOK, WorkTypes, ApiTypes
<1> DEFINE set == [Doc(p) EXCEPT !.status = s]
<1>1. /\ set.sent = Doc(p).sent /\ set.failed = Doc(p).failed /\ set.bounced = Doc(p).bounced
      /\ set.run = Doc(p).run /\ set.status = s /\ set.total = Doc(p).total
  BY <1>0 DEF CampaignDoc
<1>2. camp' = Written(p, set) \/ camp' = camp
  BY DEF SetStatus, SaveScalars
<1> HIDE DEF set
<1> QED BY <1>1, <1>2 DEF Written, Kept, SameCounts

\* A pause, a resume, an edit, a deletion: the counters, the total and the run stay.
LEMMA StatusKeepsRun ==
  ASSUME TypeOK, RunInv, NEW p \in Procs, Pause(p) \/ Resume(p) \/ Edit(p) \/ RemoveDelete(p)
  PROVE  RunInv'
<1>0. camp \in CampaignDoc /\ Doc(p) \in CampaignDoc
  BY DocTypes DEF TypeOK, WorkTypes, ApiTypes
<1>1. camp.status \in Reached
  BY DEF RunInv, StatusInv
<1>2. EndOf(p) /\ UNCHANGED <<queue, pc, eligible, hook>>
  BY DEF Pause, Resume, Edit, RemoveDelete, SetStatus, KeepOutside, KeepJobs, workVars, hookVars
<1>3. ASSUME NEW o, NEW s \in {"paused", "sending"}, SetStatus(p, o, s) PROVE SavedScalars
  BY <1>1, <1>3, StatusSaves DEF SavedScalars, Reached
<1>4. CASE Pause(p) \/ Resume(p)
  BY <1>2, <1>3, <1>4, EndKeepsRun DEF Pause, Resume
<1>5. CASE Edit(p) \/ RemoveDelete(p)
  <2>1. SavedScalars
    BY <1>0, <1>1, <1>5 DEF Edit, RemoveDelete, SaveArrays, SavedScalars, SameCounts, CampaignDoc, Reached
  <2> QED BY <1>2, <2>1, EndKeepsRun
<1> QED BY <1>4, <1>5

\* Every step of a handler keeps the invariant.
LEMMA ApiKeepsRun ==
  ASSUME Orderly, TypeOK, MailInv, RunInv, NEW p \in Procs, ApiStep(p)
  PROVE  RunInv'
<1>0. SameCounts(camp, camp) /\ camp.status \in Reached /\ proc[p].op \notin {"schedule", "unschedule"}
  <2>1. proc[p].op \in Operations \cup {"start", "none"}
    BY DEF TypeOK, Proc
  <2> QED BY <2>1 DEF SameCounts, RunInv, StatusInv, Orderly
<1>1. CASE Request(p)
  <2>1. UNCHANGED <<camp, queue, pc, eligible, hook>>
    BY <1>1 DEF Request, KeepOutside, KeepJobs, workVars, hookVars
  <2>2. PICK o \in Operations : proc' = IF Refused(o) \/ PastBound(o) THEN proc ELSE Begin(p, o)
    BY <1>1 DEF Request
  <2>3. CASE Refused(o) \/ PastBound(o)
    <3>1. proc' = proc
      BY <2>2, <2>3
    <3>2. RunFrame(p) /\ DispatchOk(p)' /\ PrepareOk(p)'
      <4>1. RunJobs' = RunJobs /\ ToCome(p)' = ToCome(p) /\ (Settled' <=> Settled)
        BY <2>1, <3>1 DEF RunJobs, ToCome, Settled, AllEnded, Ended, Dispatching
      <4> QED BY <1>0, <2>1, <3>1, <4>1 DEF RunFrame, DispatchOk, PrepareOk, RunInv, Dispatching, Preparing, Settled, SameCounts
    <3> QED BY <3>2, FrameKeepsRun
  <2>4. CASE ~(Refused(o) \/ PastBound(o))
    BY <2>1, <2>2, <2>4, BeginKeepsRun
  <2> QED BY <2>3, <2>4
<1>2. CASE SaveStartFails(p) \/ DispatchDone(p)
  BY <1>0, <1>2, EndKeepsRun DEF SaveStartFails, DispatchDone, KeepOutside, KeepJobs, workVars, hookVars, SavedScalars
<1>3. CASE WipeLogs(p) \/ RemoveWipe(p)
  BY <1>3, MoveKeepsRun DEF WipeLogs, RemoveWipe, Advance, Step, KeepOutside, KeepJobs, workVars, hookVars
<1>4. CASE RemoveCancel(p)
  <2>1. UNCHANGED <<camp, queue, pc, eligible, hook>> /\ proc[p].op = "remove"
    BY <1>4 DEF RemoveCancel, KeepOutside, KeepJobs, workVars, hookVars
  <2>2. EndOf(p) \/ proc' = [proc EXCEPT ![p].step = "drain"]
    BY <1>4 DEF RemoveCancel, CancelSchedule
  <2> QED BY <1>0, <2>1, <2>2, EndKeepsRun, MoveKeepsRun DEF SavedScalars
<1>5. CASE ScheduleCancel(p) \/ ScheduleAdd(p) \/ ScheduleSave(p) \/ UnscheduleCancel(p) \/ UnscheduleSave(p)
  BY <1>0, <1>5 DEF ScheduleCancel, ScheduleAdd, ScheduleSave, UnscheduleCancel, UnscheduleSave, SetStatus
<1>6. CASE DispatchFails(p) \/ ProcessDies(p)
  BY <1>6 DEF DispatchFails, ProcessDies, Orderly
<1> QED BY <1>1, <1>2, <1>3, <1>4, <1>5, <1>6, CountKeepsRun, SaveStartKeepsRun, InsertKeepsRun, DuplicateKeepsRun, CatchKeepsRun,
           EnqueueKeepsRun, DrainKeepsRun, StatusKeepsRun DEF ApiStep, HandlerStep, StartStepOf

\* Every step does.
LEMMA RunStepKeeps ==
  ASSUME Orderly, TypeOK, MailInv, RunInv, [Next]_vars
  PROVE  RunInv'
<1>0. TypeOK'
  BY TypeStep
<1>1. ASSUME NEW j \in Jobs, WorkerStep(j) PROVE RunInv'
  <2>1. Alone(j)
    BY <1>1, WorkerAlone DEF MailInv, TypeOK, WorkTypes
  <2> QED BY <1>0, <1>1, <2>1, WorkerRun, WorkerKeepsRun
<1>2. ASSUME NEW p \in Procs, ApiStep(p) PROVE RunInv'
  BY <1>2, ApiKeepsRun
<1>3. Scheduler \in Procs
  BY DEF Procs
<1>4. ASSUME UNCHANGED <<camp, queue, pc, eligible, hook, proc>> PROVE RunInv'
  <2>1. /\ RunJobs' = RunJobs /\ (Settled' <=> Settled)
        /\ \A p \in Procs : ToCome(p)' = ToCome(p) /\ (Dispatching(p)' <=> Dispatching(p)) /\ (Preparing(p)' <=> Preparing(p))
    BY <1>4 DEF RunJobs, ToCome, Settled, AllEnded, Ended, Dispatching, Preparing
  <2>2. DispatchOk(Scheduler)' /\ PrepareOk(Scheduler)'
    BY <1>3, <1>4, <2>1 DEF RunInv, DispatchOk, PrepareOk, SameCounts
  <2>3. RunFrame(Scheduler)
    BY <1>3, <1>4, <2>1 DEF RunFrame, SameCounts, Settled, RunInv, StatusInv
  <2> QED BY <1>3, <2>2, <2>3, FrameKeepsRun
<1>5. CASE UNCHANGED vars
  BY <1>4, <1>5 DEF vars, workVars, apiVars, hookVars
<1>6. CASE SchedulerTakes
  <2>1. UNCHANGED <<camp, queue, pc, eligible, hook>>
    BY <1>6 DEF SchedulerTakes, KeepOutside, KeepJobs, workVars, hookVars
  <2>2. CASE proc' = proc
    BY <1>4, <2>1, <2>2
  <2>3. CASE proc' # proc
    BY <1>3, <1>6, <2>1, <2>3, BeginKeepsRun DEF SchedulerTakes
  <2> QED BY <2>2, <2>3
<1>7. ASSUME NEW h \in Hooks, HookArrives(h) \/ HookStepOf(h) PROVE RunInv'
  <2>1. ~HookArrives(h)
    BY DEF HookArrives, Orderly
  <2>2. ~HookStepOf(h)
    BY DEF HookStepOf, HookFind, HookMark, HookCount, RunInv
  <2> QED BY <1>7, <2>1, <2>2
<1>8. CASE Outside
  BY <1>4, <1>8 DEF Outside, AudienceChanges, EditSmtp, RevokePassword, RemoveSmtp, KeepAllBut, workVars, apiVars, hookVars, Orderly
<1> QED BY <1>1, <1>2, <1>5, <1>6, <1>7, <1>8 DEF Next

\* A draft has no jobs.
LEMMA RunInit ==
  ASSUME Orderly, Init
  PROVE  RunInv
<1>1. RunJobs = {} /\ EndedJobs = {}
  BY DEF RunJobs, EndedJobs, Init
<1>2. Cardinality(RunJobs) = 0 /\ Cardinality(EndedJobs) = 0
  BY <1>1, FS_EmptySet
<1>3. camp.status = "draft" /\ camp.run = 0 /\ camp.total = 0 /\ Accounted(camp) = 0
  BY DEF Init, NewDoc, Accounted
<1>4. CountInv
  BY <1>2, <1>3 DEF CountInv, Ended, Init
<1>5. \A p \in Procs : ~Dispatching(p) /\ ~Preparing(p)
  BY DEF Init, Idle, Dispatching, Preparing
<1> QED BY <1>3, <1>4, <1>5, BoundsAssumption DEF RunInv, StatusInv, Reached, DispatchOk, PrepareOk, Init, IdleHook

\* The invariant holds.
LEMMA RunInvariant ==
  ASSUME Orderly
  PROVE  Spec => [](TypeOK /\ MailInv /\ RunInv)
<1>1. Init => RunInv
  BY RunInit
<1>2. TypeOK /\ MailInv /\ RunInv /\ [Next]_vars => RunInv'
  BY RunStepKeeps
<1> QED BY <1>1, <1>2, MailInvariant, PTL DEF Spec

\* Whoever starts the campaign, and however often the button is pressed, the jobs that can still
\* send are those of one dispatch, while nothing fails and nobody schedules.
THEOREM OneDispatchAtATime == Orderly => (Spec => []OneRunAtATime)
<1> SUFFICES ASSUME Orderly PROVE Spec => []OneRunAtATime
  OBVIOUS
<1>1. RunInv => OneRunAtATime
  BY DEF RunInv, CountInv, OneRunAtATime
<1> QED BY <1>1, RunInvariant, PTL

\* "Marca a campanha como concluida quando todos os envios terminaram": it is so.
THEOREM CompletedIsOver == Orderly => (Spec => []CompletedMeansAllEnded)
<1> SUFFICES ASSUME Orderly PROVE Spec => []CompletedMeansAllEnded
  OBVIOUS
<1>1. RunInv => CompletedMeansAllEnded
  BY DEF RunInv, StatusInv, Settled, AllEnded, CompletedMeansAllEnded
<1> QED BY <1>1, RunInvariant, PTL

\* Only the save of a start gives the campaign a new run.
LEMMA RunBySaveStart ==
  ASSUME TypeOK, MailInv, [Next]_vars, camp'.run # camp.run
  PROVE  \E p \in Procs : SaveStart(p)
<1>1. WorkTypes /\ ApiTypes
  BY DEF TypeOK, WorkTypes, ApiTypes
<1>2. ASSUME NEW j \in Jobs, WorkerStep(j) PROVE FALSE
  BY <1>1, <1>2, WorkerAlone DEF MailInv, Alone
<1>3. ASSUME NEW p \in Procs, ApiStep(p) PROVE SaveStart(p)
  <2>1. ~Quiet(p)
    BY DEF Quiet
  <2>2. SaveStart(p) \/ DispatchInsert(p) \/ DispatchEnqueue(p) \/ RemoveDrain(p)
    BY <1>1, <1>3, <2>1, EditQuiet, StartQuiet DEF ApiStep, HandlerStep, StartStepOf
  <2> QED BY <2>2 DEF DispatchInsert, DispatchEnqueue, RemoveDrain
<1>4. ASSUME NEW h \in Hooks, HookArrives(h) \/ HookStepOf(h) PROVE FALSE
  BY <1>1, <1>4 DEF HookArrives, HookStepOf, HookFind, HookMark, HookCount, Increment, WorkTypes, CampaignDoc
<1>5. ~SchedulerTakes /\ ~Outside /\ ~UNCHANGED vars
  BY DEF SchedulerTakes, Outside, AudienceChanges, EditSmtp, RevokePassword, RemoveSmtp, KeepAllBut, vars
<1> QED BY <1>2, <1>3, <1>4, <1>5 DEF Next

\* "Campanha ja esta em envio": a start takes effect only when every send of the earlier ones has
\* ended, although it looks at the status several steps earlier.
THEOREM StartsFollowSends == Orderly => (Spec => StartsAfterSends)
<1> SUFFICES ASSUME Orderly PROVE Spec => StartsAfterSends
  OBVIOUS
<1>1. TypeOK /\ MailInv /\ RunInv /\ [Next]_vars => (camp'.run # camp.run => \A j \in Jobs : Ended(j))
  <2> SUFFICES ASSUME TypeOK, MailInv, RunInv, [Next]_vars, camp'.run # camp.run PROVE AllEnded
    BY DEF AllEnded
  <2>1. PICK p \in Procs : SaveStart(p)
    BY RunBySaveStart
  <2>2. Preparing(p) /\ proc[p].doc.ver = camp.ver
    BY <2>1 DEF SaveStart, Preparing, Step, SaveArrays, Doc
  <2> QED BY <2>2 DEF RunInv, PrepareOk, Settled
<1> QED BY <1>1, RunInvariant, PTL DEF Spec, StartsAfterSends

-----------------------------------------------------------------------------
(* The limit of errors.  As long as nobody resumes a campaign that was      *)
(* paused, the property is inductive once a start is known to begin with no *)
(* errors and without late jobs of an earlier run.                          *)

\* Where a worker is about to look at the number of errors.
LimitPc == {"failFinal", "failPause", "bounceFinal", "bouncePause"}

\* The job that counts an error is on its way to the limit, and pauses when it gets there.
LEMMA WorkerArms ==
  ASSUME Orderly, TypeOK, MailInv, NEW j \in Jobs, WorkerStep(j), camp'.status = "sending"
  PROVE  /\ camp.status = "sending"
         /\ \/ camp'.failed = camp.failed /\ camp'.bounced = camp.bounced
            \/ pc'[j] \in LimitPc
         /\ pc[j] \in LimitPc => \/ pc'[j] \in LimitPc
                                 \/ camp.failed + camp.bounced < MaxErrors
<1> USE DEF TypeOK, LimitPc, KeepOthers, KeepQueue, KeepJob, Goto, At
<1>0. camp \in CampaignDoc /\ camp.failed \in Nat /\ camp.bounced \in Nat /\ MaxErrors \in Nat
  BY BoundsAssumption DEF CampaignDoc
<1>1. CASE Take(j) \/ PauseLimitPasses(j) \/ NoCapacity(j) \/ LoadForSend(j) \/ CannotSend(j) \/ RecoverStalled(j)
  BY <1>1 DEF Take, PauseLimitPasses, NoCapacity, LoadForSend, CannotSend, RecoverStalled, Delay, MailInv, JobInv
<1>2. CASE ReadStep(j)
  BY <1>2 DEF ReadStep, DiscardDeleted, WaitPaused, AbandonPaused, PassCampaign, Complete, Delay
<1>3. CASE SendStep(j)
  BY <1>3 DEF SendStep, Accept, RejectLogin, RejectRecipient, FailForNow, Throw
<1>4. CASE AuthStep(j)
  BY <1>0, <1>4 DEF AuthStep, CredentialsChanged, CredentialsSame, PauseForAuth, Delay, CampaignDoc
<1>5. /\ Finalized.status = "sending" => Finalized = camp
      /\ AutoPaused.status = "sending"
           => AutoPaused = camp /\ (camp.status = "sending" => camp.failed + camp.bounced < MaxErrors)
      /\ Increment("sent").failed = camp.failed /\ Increment("sent").bounced = camp.bounced
      /\ \A f \in {"sent", "failed", "bounced"} : Increment(f).status = camp.status
  BY <1>0 DEF Finalized, AutoPaused, Increment, CampaignDoc
<1>6. CASE BookStep(j)
  BY <1>5, <1>6 DEF BookStep, BookLog, BookStat, BookFinal, Complete
<1>7. CASE FailStep(j)
  BY <1>5, <1>7 DEF FailStep, FailLog, FailStat, FailFinal, FailPause, Return, Complete
<1>8. CASE BounceStep(j)
  BY <1>5, <1>8 DEF BounceStep, BounceFind, BounceMark, BounceMarkLost, BounceKnown, BounceCount, BounceFinal,
     BouncePause, Complete, Throw
<1>9. CASE MongoFault(j) \/ WorkerDies(j)
  BY <1>9 DEF MongoFault, WorkerDies, Orderly
<1> QED BY <1>1, <1>2, <1>3, <1>4, <1>6, <1>7, <1>8, <1>9 DEF WorkerStep, WorkStep

\* Handlers leave the workers and the counters alone, but for a start, which begins with none.
LEMMA ApiArms ==
  ASSUME Orderly, "resume" \notin Operations, TypeOK, RunInv, NEW p \in Procs, ApiStep(p), camp'.status = "sending"
  PROVE  /\ pc' = pc
         /\ \/ camp.status = "sending" /\ camp'.failed = camp.failed /\ camp'.bounced = camp.bounced
            \/ camp'.failed = 0 /\ camp'.bounced = 0
<1> USE DEF KeepOutside, KeepJobs, workVars
<1>0. proc[p].op \notin {"resume", "schedule", "unschedule"} /\ camp \in CampaignDoc
  <2>1. proc[p].op \in Operations \cup {"start", "none"}
    BY DEF TypeOK, Proc
  <2> QED BY <2>1 DEF Orderly, TypeOK
<1>1. CASE Request(p) \/ CountAudience(p) \/ WipeLogs(p) \/ SaveStartFails(p) \/ DispatchInsert(p) \/ DispatchDuplicate(p)
           \/ DispatchDone(p) \/ DispatchFails(p) \/ ProcessDies(p) \/ RemoveCancel(p) \/ RemoveWipe(p)
           \/ DispatchEnqueue(p) \/ RemoveDrain(p)
  BY <1>1 DEF Request, CountAudience, WipeLogs, SaveStartFails, DispatchInsert, DispatchDuplicate, DispatchDone,
     DispatchFails, ProcessDies, RemoveCancel, RemoveWipe, DispatchEnqueue, RemoveDrain
<1>2. CASE SaveStart(p)
  <2>1. pc' = pc
    BY <1>2 DEF SaveStart
  <2> QED BY <1>2, <2>1, StartSaves
<1>3. CASE DispatchCatch(p)
  <2>1. pc' = pc
    BY <1>3 DEF DispatchCatch
  <2> QED BY <1>3, <2>1, CatchSaves DEF SameCounts
<1>4. CASE Pause(p)
  <2>1. pc' = pc
    BY <1>4 DEF Pause, SetStatus
  <2> QED BY <1>4, <2>1, StatusSaves DEF Pause, SameCounts
<1>5. CASE Edit(p) \/ RemoveDelete(p)
  BY <1>0, <1>5 DEF Edit, RemoveDelete, SaveArrays, CampaignDoc
<1>6. CASE Resume(p) \/ ScheduleCancel(p) \/ ScheduleAdd(p) \/ ScheduleSave(p) \/ UnscheduleCancel(p) \/ UnscheduleSave(p)
  BY <1>0, <1>6 DEF Resume, ScheduleCancel, ScheduleAdd, ScheduleSave, UnscheduleCancel, UnscheduleSave, SetStatus
<1> QED BY <1>1, <1>2, <1>3, <1>4, <1>5, <1>6 DEF ApiStep, HandlerStep, StartStepOf

\* Any step leaves a campaign that counts too many errors with a worker that will pause it.
LEMMA ArmedStep ==
  ASSUME Orderly, "resume" \notin Operations, TypeOK, MailInv, RunInv, AutoPauseArmed, [Next]_vars
  PROVE  AutoPauseArmed'
<1> SUFFICES ASSUME camp'.status = "sending", camp'.failed + camp'.bounced >= MaxErrors
             PROVE  \E j \in Jobs : pc'[j] \in LimitPc
  BY DEF AutoPauseArmed, LimitPc
<1>0. /\ camp \in CampaignDoc /\ camp.failed \in Nat /\ camp.bounced \in Nat /\ MaxErrors \in Nat \ {0}
  BY BoundsAssumption DEF TypeOK, CampaignDoc
<1>1. camp.status = "sending" /\ camp.failed + camp.bounced >= MaxErrors => \E j \in Jobs : pc[j] \in LimitPc
  BY DEF AutoPauseArmed, LimitPc
<1>2. ASSUME NEW j \in Jobs, WorkerStep(j) PROVE \E i \in Jobs : pc'[i] \in LimitPc
  <2>1. /\ camp.status = "sending"
        /\ \/ camp'.failed = camp.failed /\ camp'.bounced = camp.bounced
           \/ pc'[j] \in LimitPc
        /\ pc[j] \in LimitPc => pc'[j] \in LimitPc \/ camp.failed + camp.bounced < MaxErrors
    BY <1>2, WorkerArms
  <2>2. CASE pc'[j] \in LimitPc
    BY <2>2
  <2>3. CASE pc'[j] \notin LimitPc
    <3>1. PICK i \in Jobs : pc[i] \in LimitPc
      BY <1>1, <2>1, <2>3
    <3>2. i # j
      BY <1>0, <2>1, <2>3, <3>1
    <3>3. Alone(j)
      BY <1>2, WorkerAlone DEF MailInv, TypeOK, WorkTypes
    <3> QED BY <3>1, <3>2, <3>3 DEF Alone
  <2> QED BY <2>2, <2>3
<1>3. ASSUME NEW p \in Procs, ApiStep(p) PROVE \E i \in Jobs : pc'[i] \in LimitPc
  BY <1>0, <1>1, <1>3, ApiArms
<1>4. ASSUME NEW h \in Hooks, HookArrives(h) \/ HookStepOf(h) PROVE FALSE
  BY <1>4 DEF HookArrives, HookStepOf, HookFind, HookMark, HookCount, RunInv, Orderly
<1>5. CASE SchedulerTakes \/ Outside \/ UNCHANGED vars
  BY <1>1, <1>5 DEF SchedulerTakes, Outside, AudienceChanges, EditSmtp, RevokePassword, RemoveSmtp, KeepAllBut, KeepOutside,
     KeepJobs, vars, workVars
<1> QED BY <1>2, <1>3, <1>4, <1>5 DEF Next

\* A campaign that counts MaxErrors errors and goes on sending has a worker about to pause it, however
\* many workers count at once, while nothing fails, nobody schedules and nobody resumes.
THEOREM LimitIsArmed == Orderly /\ "resume" \notin Operations => (Spec => []AutoPauseArmed)
<1> SUFFICES ASSUME Orderly, "resume" \notin Operations PROVE Spec => []AutoPauseArmed
  OBVIOUS
<1>1. Init => AutoPauseArmed
  BY BoundsAssumption DEF Init, NewDoc, AutoPauseArmed
<1>2. TypeOK /\ MailInv /\ RunInv /\ AutoPauseArmed /\ [Next]_vars => AutoPauseArmed'
  BY ArmedStep
<1> QED BY <1>1, <1>2, RunInvariant, PTL DEF Spec

-----------------------------------------------------------------------------
(* What a SendLog says.  Neither a worker nor MongoDB breaks down; all else *)
(* may happen: schedules, webhooks, a changing audience.  A log names a run *)
(* of the campaign, because versions let no start go past the bound.        *)
Unbroken == Environment \cap {"crash", "fault"} = {}

BoundInv ==
    /\ camp.run <= MaxRuns
    /\ \A p \in Procs :
          /\ Preparing(p) => /\ proc[p].doc.run < MaxRuns /\ proc[p].doc.ver <= camp.ver
                             /\ proc[p].doc.ver = camp.ver => proc[p].doc.run = camp.run
          /\ Dispatching(p) => proc[p].run \in Runs

\* Workers and webhooks write counters and statuses, not versions.
LEMMA WorkerVersion ==
  ASSUME TypeOK, NEW j \in Jobs, WorkerStep(j)
  PROVE  camp'.ver = camp.ver
<1>1. /\ Finalized.ver = camp.ver /\ AutoPaused.ver = camp.ver
      /\ \A f \in {"sent", "failed", "bounced"} : Increment(f).ver = camp.ver
  BY DEF TypeOK, CampaignDoc, Finalized, AutoPaused, Increment
<1>2. CASE BookStep(j) \/ FailStep(j) \/ BounceStep(j)
  BY <1>1, <1>2 DEF BookStep, BookLog, BookStat, BookFinal, FailStep, FailLog, FailStat, FailFinal, FailPause,
     BounceStep, BounceFind, BounceMark, BounceMarkLost, BounceKnown, BounceCount, BounceFinal, BouncePause
<1>3. CASE AuthStep(j)
  BY <1>3 DEF AuthStep, CredentialsChanged, CredentialsSame, PauseForAuth, TypeOK, CampaignDoc
<1>4. CASE Take(j) \/ ReadStep(j) \/ LoadForSend(j) \/ CannotSend(j) \/ SendStep(j) \/ RecoverStalled(j)
           \/ NoCapacity(j) \/ PauseLimitPasses(j) \/ MongoFault(j) \/ WorkerDies(j)
  BY <1>4 DEF Take, ReadStep, DiscardDeleted, WaitPaused, AbandonPaused, PassCampaign, LoadForSend, CannotSend, SendStep,
     Accept, RejectLogin, RejectRecipient, FailForNow, RecoverStalled, NoCapacity, PauseLimitPasses, MongoFault, WorkerDies
<1> QED BY <1>2, <1>3, <1>4 DEF WorkerStep, WorkStep

\* A start that saves takes the run after the one it loaded, which is the current one.
LEMMA StartTakesRun ==
  ASSUME TypeOK, BoundInv, NEW p \in Procs, SaveStart(p)
  PROVE  /\ camp'.run = camp.run + 1 /\ camp'.ver = camp.ver + 1 /\ camp.run + 1 \in Runs
         /\ proc'[p].step = "dispatch" /\ proc'[p].run = camp.run + 1
         /\ \A q \in Procs \ {p} : proc'[q] = proc[q]
<1>1. /\ Doc(p) \in CampaignDoc /\ StartedDoc(p) \in CampaignDoc /\ Written(p, StartedDoc(p)) \in CampaignDoc
      /\ camp.run \in Nat /\ camp.ver \in Nat /\ proc[p] \in Proc
  BY DocTypes DEF TypeOK, WorkTypes, ApiTypes, CampaignDoc
<1>2. /\ Preparing(p) /\ camp.ver = Doc(p).ver
      /\ camp' = [Written(p, StartedDoc(p)) EXCEPT !.ver = @ + 1]
  BY DEF SaveStart, Preparing, Step, SaveArrays
<1>3. Doc(p).run = camp.run /\ camp.run < MaxRuns
  BY <1>2 DEF BoundInv, Doc
<1>4. StartedDoc(p).run = camp.run + 1
  BY <1>1 DEF StartedDoc, CampaignDoc
<1>5. Written(p, StartedDoc(p)).run = camp.run + 1 /\ Written(p, StartedDoc(p)).ver = camp.ver
  BY <1>1, <1>3, <1>4 DEF Written, Kept
<1>6. camp'.run = camp.run + 1 /\ camp'.ver = camp.ver + 1
  BY <1>1, <1>2, <1>5 DEF CampaignDoc
<1>7. camp.run + 1 \in Runs
  BY <1>1, <1>3, BoundsAssumption DEF Runs
<1>8. /\ proc'[p].step = "dispatch" /\ proc'[p].run = camp.run + 1
      /\ \A q \in Procs \ {p} : proc'[q] = proc[q]
  BY <1>1 DEF SaveStart, TypeOK, Proc
<1> QED BY <1>6, <1>7, <1>8

\* What any other step of a handler does to versions, and to itself.
LEMMA ApiVersion ==
  ASSUME TypeOK, NEW p \in Procs, ApiStep(p)
  PROVE  \/ SaveStart(p)
         \/ /\ camp'.run = camp.run /\ camp'.ver \in {camp.ver, camp.ver + 1}
            /\ \A q \in Procs \ {p} : proc'[q] = proc[q]
            /\ Preparing(p)' => \/ Preparing(p) /\ proc'[p].doc = proc[p].doc
                                \/ proc'[p].doc = camp /\ camp.run < MaxRuns
            /\ Dispatching(p)' => Dispatching(p) /\ proc'[p].run = proc[p].run
<1> USE DEF Preparing, Dispatching
<1>0. proc \in [Procs -> Proc] /\ camp \in CampaignDoc
  BY DEF TypeOK
<1>1. EndOf(p) => ~Preparing(p)' /\ ~Dispatching(p)' /\ \A q \in Procs \ {p} : proc'[q] = proc[q]
  BY <1>0 DEF EndOf, Idle
<1>2. CASE SaveStartFails(p) \/ DispatchDone(p)
  BY <1>1, <1>2 DEF SaveStartFails, DispatchDone
<1>3. CASE DispatchCatch(p)
  BY <1>1, <1>3, CatchSaves DEF DispatchCatch
<1>4. ASSUME NEW o, NEW s, SetStatus(p, o, s)
      PROVE camp'.run = camp.run /\ camp'.ver = camp.ver /\ EndOf(p)
  BY <1>4, StatusSaves DEF SetStatus
<1>5. CASE Pause(p) \/ Resume(p) \/ ScheduleSave(p) \/ UnscheduleSave(p)
  BY <1>1, <1>4, <1>5 DEF Pause, Resume, ScheduleSave, UnscheduleSave
<1>6. CASE Edit(p) \/ RemoveDelete(p)
  BY <1>0, <1>1, <1>6 DEF Edit, RemoveDelete, SaveArrays, CampaignDoc
<1>7. CASE ProcessDies(p)
  BY <1>0, <1>7 DEF ProcessDies, Idle
<1>8. CASE ScheduleCancel(p) \/ ScheduleAdd(p) \/ UnscheduleCancel(p) \/ RemoveCancel(p) \/ RemoveDrain(p) \/ RemoveWipe(p)
  BY <1>0, <1>1, <1>8 DEF ScheduleCancel, ScheduleAdd, UnscheduleCancel, RemoveCancel, CancelSchedule, RemoveDrain, RemoveWipe,
     Advance, Proc, Step
<1>9. CASE WipeLogs(p) \/ DispatchDuplicate(p) \/ DispatchFails(p)
  BY <1>0, <1>9 DEF WipeLogs, DispatchDuplicate, DispatchFails, Advance, Proc, Step
<1>10. CASE CountAudience(p)
  BY <1>0, <1>1, <1>10 DEF CountAudience, Proc, Step
<1>11. CASE DispatchInsert(p)
  <2>1. PICK B : proc' = [proc EXCEPT ![p] = [@ EXCEPT !.batch = B, !.todo = proc[p].todo \ B, !.step = "enqueue"]]
    BY <1>11 DEF DispatchInsert
  <2>2. proc'[p].step = "enqueue" /\ proc'[p].run = proc[p].run /\ \A q \in Procs \ {p} : proc'[q] = proc[q]
    BY <1>0, <2>1 DEF Proc
  <2> QED BY <1>11, <2>2 DEF DispatchInsert, Step
<1>13. CASE DispatchEnqueue(p)
  <2>1. proc'[p].step = "dispatch" /\ proc'[p].run = proc[p].run /\ \A q \in Procs \ {p} : proc'[q] = proc[q]
    BY <1>0, <1>13 DEF DispatchEnqueue, Proc
  <2> QED BY <1>13, <2>1 DEF DispatchEnqueue, Step
<1>12. CASE Request(p)
  <2>1. PICK o \in Operations : proc' = IF Refused(o) \/ PastBound(o) THEN proc ELSE Begin(p, o)
    BY <1>12 DEF Request
  <2>2. camp' = camp
    BY <1>12 DEF Request
  <2>3. CASE Refused(o) \/ PastBound(o)
    BY <2>1, <2>2, <2>3
  <2>4. CASE ~(Refused(o) \/ PastBound(o))
    <3>1. proc'[p].op = o /\ proc'[p].doc = camp /\ proc'[p].step = AfterLoad(o)
          /\ \A q \in Procs \ {p} : proc'[q] = proc[q]
      BY <1>0, <2>1, <2>4 DEF Begin, Idle
    <3>2. o = "start" => camp.run < MaxRuns
      BY <1>0, <2>4, BoundsAssumption DEF PastBound, CampaignDoc
    <3>3. ~Dispatching(p)'
      BY <3>1 DEF AfterLoad
    <3> QED BY <2>2, <3>1, <3>2, <3>3
  <2> QED BY <2>3, <2>4
<1> QED BY <1>2, <1>3, <1>5, <1>6, <1>7, <1>8, <1>9, <1>10, <1>11, <1>12, <1>13 DEF ApiStep, HandlerStep, StartStepOf

\* Runs stay within the bound.
LEMMA BoundStep ==
  ASSUME TypeOK, MailInv, BoundInv, [Next]_vars
  PROVE  BoundInv'
<1>0. /\ camp.run \in Nat /\ camp.ver \in Nat /\ MaxRuns \in Nat
      /\ \A p \in Procs : proc[p].doc.ver \in Nat /\ proc[p].doc.run \in Nat /\ proc[p].run \in Nat
  BY BoundsAssumption DEF TypeOK, CampaignDoc, Proc
<1>1. ASSUME camp'.run = camp.run, camp'.ver = camp.ver, proc' = proc PROVE BoundInv'
  BY <1>1 DEF BoundInv, Preparing, Dispatching
<1>2. ASSUME NEW j \in Jobs, WorkerStep(j) PROVE BoundInv'
  BY <1>1, <1>2, WorkerVersion, WorkerAlone DEF Alone, MailInv, TypeOK, WorkTypes
<1>3. ASSUME NEW p \in Procs, SaveStart(p) PROVE BoundInv'
  <2>1. /\ camp'.run = camp.run + 1 /\ camp'.ver = camp.ver + 1 /\ camp.run + 1 \in Runs
        /\ proc'[p].step = "dispatch" /\ proc'[p].run = camp.run + 1
        /\ \A q \in Procs \ {p} : proc'[q] = proc[q]
    BY <1>3, StartTakesRun
  <2>2. camp'.run <= MaxRuns
    BY <1>0, <2>1 DEF Runs
  <2>3. ~Preparing(p)' /\ (Dispatching(p)' => proc'[p].run \in Runs)
    BY <2>1 DEF Preparing
  <2>4. ASSUME NEW q \in Procs \ {p}
        PROVE  /\ Preparing(q)' => /\ proc'[q].doc.run < MaxRuns /\ proc'[q].doc.ver <= camp'.ver
                                   /\ proc'[q].doc.ver = camp'.ver => proc'[q].doc.run = camp'.run
               /\ Dispatching(q)' => proc'[q].run \in Runs
    BY <1>0, <2>1, <2>4 DEF BoundInv, Preparing, Dispatching
  <2> QED BY <2>2, <2>3, <2>4 DEF BoundInv
<1>4. ASSUME NEW p \in Procs, ApiStep(p), ~SaveStart(p) PROVE BoundInv'
  <2>1. /\ camp'.run = camp.run /\ camp'.ver \in {camp.ver, camp.ver + 1}
        /\ \A q \in Procs \ {p} : proc'[q] = proc[q]
        /\ Preparing(p)' => \/ Preparing(p) /\ proc'[p].doc = proc[p].doc
                            \/ proc'[p].doc = camp /\ camp.run < MaxRuns
        /\ Dispatching(p)' => Dispatching(p) /\ proc'[p].run = proc[p].run
    BY <1>4, ApiVersion
  <2>2. /\ Preparing(p)' => /\ proc'[p].doc.run < MaxRuns /\ proc'[p].doc.ver <= camp'.ver
                            /\ proc'[p].doc.ver = camp'.ver => proc'[p].doc.run = camp'.run
        /\ Dispatching(p)' => proc'[p].run \in Runs
    BY <1>0, <2>1 DEF BoundInv
  <2>3. ASSUME NEW q \in Procs \ {p}
        PROVE  /\ Preparing(q)' => /\ proc'[q].doc.run < MaxRuns /\ proc'[q].doc.ver <= camp'.ver
                                   /\ proc'[q].doc.ver = camp'.ver => proc'[q].doc.run = camp'.run
               /\ Dispatching(q)' => proc'[q].run \in Runs
    BY <1>0, <2>1, <2>3 DEF BoundInv, Preparing, Dispatching
  <2> QED BY <2>1, <2>2, <2>3 DEF BoundInv
<1>5. CASE SchedulerTakes
  <2>1. camp' = camp /\ Scheduler \in Procs
    BY <1>5 DEF SchedulerTakes, Procs
  <2>2. CASE proc' = proc
    BY <1>1, <2>1, <2>2
  <2>3. CASE proc' # proc
    <3>1. proc' = Begin(Scheduler, "start") /\ camp.run < MaxRuns
      BY <1>0, <1>5, <2>3 DEF SchedulerTakes, PastBound
    <3>2. /\ proc'[Scheduler].doc = camp /\ proc'[Scheduler].step = "count"
          /\ \A q \in Procs \ {Scheduler} : proc'[q] = proc[q]
      BY <2>1, <3>1 DEF Begin, Idle, TypeOK, AfterLoad
    <3> QED BY <1>0, <2>1, <3>1, <3>2 DEF BoundInv, Preparing, Dispatching
  <2> QED BY <2>2, <2>3
<1>6. ASSUME NEW h \in Hooks, HookArrives(h) \/ HookStepOf(h) PROVE BoundInv'
  <2>1. Increment("bounced").run = camp.run /\ Increment("bounced").ver = camp.ver
    BY DEF TypeOK, CampaignDoc, Increment
  <2> QED BY <1>1, <1>6, <2>1 DEF HookArrives, HookStepOf, HookFind, HookMark, HookCount, KeepApart, apiVars
<1>7. CASE Outside \/ UNCHANGED vars
  BY <1>1, <1>7 DEF Outside, AudienceChanges, EditSmtp, RevokePassword, RemoveSmtp, KeepAllBut, vars, apiVars
<1> QED BY <1>2, <1>3, <1>4, <1>5, <1>6, <1>7 DEF Next

\* The SendLog of this very job has the status.
Logged(j, s) == log[j[1]].run = j[2] /\ log[j[1]].status = s

LogOk == \A c \in Contacts : log[c] = NoLog \/ log[c].run \in Runs

JobTruth(j) ==
    /\ stalls[j] = 0 /\ (seen[j].status = "none" \/ seen[j].run \in Runs)
    /\ pc[j] \in BookPc => mails[j] > 0
    /\ pc[j] \in FailPc => mails[j] = 0
    /\ Logged(j, "sent") => mails[j] > 0
    /\ Logged(j, "failed") => /\ mails[j] = 0
                              /\ pc[j] \in FailPc \ {"failLog"} \/ queue[j] \in {"completed", "failed"}

TruthInv ==
    /\ LogOk /\ \A j \in Jobs : JobTruth(j)
    /\ \A h \in Hooks : hook[h].step = "mark" => hook[h].seen.run \in Runs

\* No log tells more of a sent or failed message than it did.
LogsTell(i) == \A s \in {"sent", "failed"} : Logged(i, s)' => Logged(i, s)

\* updateOne addresses the log of one job, by its _id.
LEMMA LogSetTells ==
  ASSUME TypeOK, LogOk, NEW j \in Jobs, NEW s \in LogStatus \ {"none"}, log' = LogSet(j, s)
  PROVE  /\ LogOk' /\ (\A i \in Jobs \ {j} : LogsTell(i))
         /\ \A t \in {"sent", "failed"} : Logged(j, t)' => t = s
<1>1. j[1] \in Contacts /\ j[2] \in Runs /\ j = <<j[1], j[2]>> /\ log \in [Contacts -> Log]
  BY DEF Jobs, TypeOK
<1>2. CASE log[j[1]].run # j[2]
  BY <1>2 DEF LogSet, LogOk, LogsTell, Logged
<1>3. CASE log[j[1]].run = j[2]
  <2> DEFINE entry == [log[j[1]] EXCEPT !.status = s]
  <2>1. log' = [log EXCEPT ![j[1]] = entry] /\ entry.run = j[2] /\ entry.status = s
    BY <1>1, <1>3 DEF LogSet, Log
  <2> HIDE DEF entry
  <2>2. LogOk'
    BY <1>1, <2>1 DEF LogOk
  <2>3. ASSUME NEW i \in Jobs \ {j} PROVE LogsTell(i)
    <3>1. i = <<i[1], i[2]>> /\ i[1] \in Contacts
      BY DEF Jobs
    <3> QED BY <1>1, <2>1, <3>1 DEF LogsTell, Logged
  <2>4. \A t \in {"sent", "failed"} : Logged(j, t)' => t = s
    BY <1>1, <2>1 DEF Logged
  <2> QED BY <2>2, <2>3, <2>4
<1> QED BY <1>2, <1>3

\* A bounce takes the place of what the log said.
LEMMA BounceTells ==
  ASSUME TypeOK, LogOk, NEW c \in Contacts, log[c].run \in Runs, log' = [log EXCEPT ![c].status = "bounced"]
  PROVE  LogOk' /\ \A i \in Jobs : LogsTell(i)
<1>1. log \in [Contacts -> Log]
  BY DEF TypeOK
<1> DEFINE entry == [log[c] EXCEPT !.status = "bounced"]
<1>2. log' = [log EXCEPT ![c] = entry] /\ entry.run = log[c].run /\ entry.status = "bounced"
  BY <1>1 DEF Log
<1> HIDE DEF entry
<1>3. LogOk'
  BY <1>1, <1>2 DEF LogOk
<1>4. ASSUME NEW i \in Jobs PROVE LogsTell(i)
  <2>1. i[1] \in Contacts
    BY DEF Jobs
  <2> QED BY <1>1, <1>2, <2>1 DEF LogsTell, Logged
<1> QED BY <1>3, <1>4

\* A job that gives up has no message, and one that books has one.
LEMMA WorkerTruth ==
  ASSUME Unbroken, TypeOK, MailInv, TruthInv, NEW j \in Jobs, WorkerStep(j)
  PROVE  /\ LogOk' /\ JobTruth(j)' /\ hook' = hook
         /\ \A i \in Jobs \ {j} : LogsTell(i) /\ seen'[i] = seen[i]
<1> USE DEF TypeOK, KeepOthers, KeepQueue, KeepJob, Goto, At, hookVars
<1>0. /\ queue[j] \in {"none", "waiting", "completed", "removed"} => pc[j] = "idle"
      /\ queue[j] = "failed" => pc[j] \in FailPc \cup {"idle"}
      /\ queue[j] = "active" => pc[j] # "idle"
      /\ queue[j] \in QueueState /\ stalls[j] = 0 /\ mails[j] \in Nat
      /\ MayStillSend(j) => mails[j] = 0
      /\ JobTruth(j) /\ LogOk
  BY DEF MailInv, JobInv, TruthInv, JobTruth
<1>1. ASSUME log' = log PROVE LogOk' /\ \A i \in Jobs : LogsTell(i)
  BY <1>0, <1>1 DEF LogOk, LogsTell, Logged
<1>2. CASE Take(j) \/ PauseLimitPasses(j)
  <2>1. log' = log /\ hook' = hook /\ seen' = seen
    BY <1>2 DEF Take, PauseLimitPasses
  <2>2. JobTruth(j)'
    BY <1>0, <1>2, <2>1 DEF Take, PauseLimitPasses, JobTruth, Logged, BookPc, FailPc
  <2> QED BY <1>1, <2>1, <2>2
<1>3. CASE ReadStep(j) \/ NoCapacity(j) \/ LoadForSend(j) \/ CannotSend(j)
  <2>1. log' = log /\ hook' = hook /\ seen' = seen
    BY <1>3 DEF ReadStep, DiscardDeleted, WaitPaused, AbandonPaused, PassCampaign, NoCapacity, LoadForSend, CannotSend,
       Complete, Delay
  <2>2. JobTruth(j)'
    BY <1>0, <1>3, <2>1 DEF ReadStep, DiscardDeleted, WaitPaused, AbandonPaused, PassCampaign, NoCapacity, LoadForSend,
       CannotSend, Complete, Delay, JobTruth, Logged, BookPc, FailPc, QueueState, MayStillSend
  <2> QED BY <1>1, <2>1, <2>2
<1>4. CASE SendStep(j)
  <2>1. log' = log /\ hook' = hook /\ seen' = seen
    BY <1>4 DEF SendStep, Accept, RejectLogin, RejectRecipient, FailForNow, Throw
  <2>2. JobTruth(j)'
    BY <1>0, <1>4, <2>1 DEF SendStep, Accept, RejectLogin, RejectRecipient, FailForNow, Throw,
       JobTruth, Logged, BookPc, FailPc, QueueState, MayStillSend
  <2> QED BY <1>1, <2>1, <2>2
<1>5. CASE AuthStep(j) \/ RecoverStalled(j)
  <2>1. log' = log /\ hook' = hook /\ seen' = seen
    BY <1>5 DEF AuthStep, CredentialsChanged, CredentialsSame, PauseForAuth, RecoverStalled, Delay
  <2>2. JobTruth(j)'
    BY <1>0, <1>5, <2>1, BoundsAssumption DEF AuthStep, CredentialsChanged, CredentialsSame, PauseForAuth, RecoverStalled, Delay,
       JobTruth, Logged, BookPc, FailPc, QueueState, MayStillSend
  <2> QED BY <1>1, <2>1, <2>2
<1>6. CASE BookStat(j) \/ BookFinal(j) \/ FailStat(j) \/ FailFinal(j) \/ FailPause(j)
  <2>1. log' = log /\ hook' = hook /\ seen' = seen
    BY <1>6 DEF BookStat, BookFinal, FailStat, FailFinal, FailPause, Return, Complete
  <2>2. JobTruth(j)'
    BY <1>0, <1>6, <2>1 DEF BookStat, BookFinal, FailStat, FailFinal, FailPause, Return, Complete,
       JobTruth, Logged, BookPc, FailPc, QueueState
  <2> QED BY <1>1, <2>1, <2>2
<1>7. CASE BookLog(j) \/ FailLog(j)
  <2>1. hook' = hook /\ seen' = seen
    BY <1>7 DEF BookLog, FailLog
  <2>2. CASE BookLog(j)
    <3>1. LogOk' /\ (\A i \in Jobs \ {j} : LogsTell(i)) /\ \A t \in {"sent", "failed"} : Logged(j, t)' => t = "sent"
      BY <1>0, <2>2, LogSetTells DEF BookLog, LogStatus
    <3>2. JobTruth(j)'
      BY <1>0, <2>1, <2>2, <3>1 DEF BookLog, JobTruth, BookPc, FailPc
    <3> QED BY <2>1, <3>1, <3>2
  <2>3. CASE FailLog(j)
    <3>1. LogOk' /\ (\A i \in Jobs \ {j} : LogsTell(i)) /\ \A t \in {"sent", "failed"} : Logged(j, t)' => t = "failed"
      BY <1>0, <2>3, LogSetTells DEF FailLog, LogStatus
    <3>2. JobTruth(j)'
      BY <1>0, <2>1, <2>3, <3>1 DEF FailLog, JobTruth, BookPc, FailPc
    <3> QED BY <2>1, <3>1, <3>2
  <2> QED BY <1>7, <2>2, <2>3
<1>8. CASE BounceFind(j)
  <2>1. log' = log /\ hook' = hook /\ seen' = [seen EXCEPT ![j] = log[j[1]]]
    BY <1>8 DEF BounceFind
  <2>2. log[j[1]].status = "none" \/ log[j[1]].run \in Runs
    <3>1. j[1] \in Contacts
      BY DEF Jobs
    <3> QED BY <1>0, <3>1 DEF LogOk, NoLog
  <2>3. JobTruth(j)'
    BY <1>0, <1>8, <2>1, <2>2 DEF BounceFind, JobTruth, Logged, BookPc, FailPc
  <2> QED BY <1>1, <2>1, <2>3
<1>9. CASE BounceMark(j)
  <2>1. /\ log' = [log EXCEPT ![j[1]].status = "bounced"] /\ log[j[1]].run \in Runs /\ j[1] \in Contacts
        /\ hook' = hook /\ seen' = seen
    BY <1>0, <1>9 DEF BounceMark, JobTruth, Jobs
  <2>2. LogOk' /\ \A i \in Jobs : LogsTell(i)
    BY <1>0, <2>1, BounceTells
  <2>3. JobTruth(j)'
    BY <1>0, <1>9, <2>1, <2>2 DEF BounceMark, JobTruth, LogsTell, BookPc, FailPc
  <2> QED BY <2>1, <2>2, <2>3
<1>10. CASE BounceMarkLost(j) \/ BounceKnown(j) \/ BounceCount(j) \/ BounceFinal(j) \/ BouncePause(j)
  <2>1. log' = log /\ hook' = hook /\ seen' = seen
    BY <1>10 DEF BounceMarkLost, BounceKnown, BounceCount, BounceFinal, BouncePause, Complete, Throw
  <2>2. JobTruth(j)'
    BY <1>0, <1>10, <2>1 DEF BounceMarkLost, BounceKnown, BounceCount, BounceFinal, BouncePause, Complete, Throw,
       JobTruth, Logged, BookPc, FailPc, QueueState, MayStillSend
  <2> QED BY <1>1, <2>1, <2>2
<1>11. CASE MongoFault(j) \/ WorkerDies(j)
  BY <1>11 DEF MongoFault, WorkerDies, Unbroken
<1> QED BY <1>2, <1>3, <1>4, <1>5, <1>6, <1>7, <1>8, <1>9, <1>10, <1>11 DEF WorkerStep, WorkStep, BookStep, FailStep, BounceStep

\* Handlers write pending logs or delete all of them, and queue jobs that nothing was said of.
LEMMA ApiTruth ==
  ASSUME TypeOK, MailInv, BoundInv, TruthInv, NEW p \in Procs, ApiStep(p)
  PROVE  TruthInv'
<1> USE DEF KeepOutside, KeepJobs, workVars, hookVars
<1>0. log \in [Contacts -> Log] /\ LogOk /\ (\A j \in Jobs : JobTruth(j) /\ j[1] \in Contacts /\ j[2] \in Nat \ {0})
  BY BoundsAssumption DEF TypeOK, TruthInv, Jobs, Runs
<1>1. UNCHANGED <<pc, stalls, mails, seen, hook>>
  BY DEF ApiStep, HandlerStep, StartStepOf, Request, CountAudience, WipeLogs, SaveStart, SaveStartFails, DispatchInsert,
     DispatchDuplicate, DispatchEnqueue, DispatchDone, DispatchCatch, DispatchFails, ProcessDies, Pause, Resume, Edit,
     ScheduleCancel, ScheduleAdd, ScheduleSave, UnscheduleCancel, UnscheduleSave, RemoveCancel, RemoveDrain, RemoveWipe,
     RemoveDelete, SetStatus
<1>2. ASSUME LogOk', \A j \in Jobs : LogsTell(j),
             \A j \in Jobs : queue[j] \in {"completed", "failed"} => queue'[j] = queue[j]
      PROVE  TruthInv'
  <2>1. ASSUME NEW j \in Jobs PROVE JobTruth(j)'
    BY <1>0, <1>1, <1>2, <2>1 DEF JobTruth, LogsTell
  <2> QED BY <1>1, <1>2, <2>1 DEF TruthInv
<1>3. ASSUME log' = log PROVE LogOk' /\ \A j \in Jobs : LogsTell(j)
  BY <1>0, <1>3 DEF LogOk, LogsTell, Logged
<1>4. CASE WipeLogs(p) \/ RemoveWipe(p)
  <2>1. log' = [c \in Contacts |-> NoLog] /\ queue' = queue
    BY <1>4 DEF WipeLogs, RemoveWipe
  <2>2. LogOk' /\ \A j \in Jobs : LogsTell(j)
    BY <1>0, <2>1 DEF LogOk, LogsTell, Logged, NoLog
  <2> QED BY <1>2, <2>1, <2>2
<1>5. ASSUME NEW B \in SUBSET Contacts, InsertLogs(p, B), Dispatching(p), queue' = queue PROVE TruthInv'
  <2>1. proc[p].run \in Runs
    BY <1>5 DEF BoundInv
  <2>2. LogOk' /\ \A j \in Jobs : LogsTell(j)
    BY <1>0, <1>5, <2>1 DEF InsertLogs, LogOk, LogsTell, Logged
  <2> QED BY <1>2, <1>5, <2>2
<1>6. CASE DispatchInsert(p) \/ DispatchDuplicate(p)
  <2>1. Dispatching(p) /\ queue' = queue /\ \E B \in SUBSET Contacts : InsertLogs(p, B)
    BY <1>6 DEF DispatchInsert, DispatchDuplicate, Dispatching, Step, Insertable
  <2> QED BY <1>5, <2>1
<1>7. CASE DispatchEnqueue(p)
  <2>1. /\ log' = log /\ proc[p].step = "enqueue"
        /\ queue' = [j \in Jobs |-> IF j[1] \in proc[p].batch /\ j[2] = proc[p].run THEN "waiting" ELSE queue[j]]
    BY <1>7 DEF DispatchEnqueue, Step
  <2>2. ASSUME NEW j \in Jobs, queue[j] \in {"completed", "failed"} PROVE queue'[j] = queue[j]
    BY <2>1, <2>2 DEF MailInv, DispatchInv, Unqueued
  <2> QED BY <1>2, <1>3, <2>1, <2>2
<1>8. CASE RemoveDrain(p)
  BY <1>2, <1>3, <1>8 DEF RemoveDrain
<1>9. CASE ~(WipeLogs(p) \/ RemoveWipe(p) \/ DispatchInsert(p) \/ DispatchDuplicate(p) \/ DispatchEnqueue(p) \/ RemoveDrain(p))
  <2>1. log' = log /\ queue' = queue
    BY <1>9 DEF ApiStep, HandlerStep, StartStepOf, Request, CountAudience, SaveStart, SaveStartFails,
       DispatchDone, DispatchCatch, DispatchFails, ProcessDies, Pause, Resume, Edit, ScheduleCancel, ScheduleAdd, ScheduleSave,
       UnscheduleCancel, UnscheduleSave, RemoveCancel, RemoveDelete, SetStatus
  <2> QED BY <1>2, <1>3, <2>1
<1> QED BY <1>4, <1>6, <1>7, <1>8, <1>9

\* A webhook says "bounced" of a log it has found.
LEMMA HookTruth ==
  ASSUME TypeOK, TruthInv, NEW h \in Hooks, HookArrives(h) \/ HookStepOf(h)
  PROVE  TruthInv'
<1> USE DEF KeepApart, workVars
<1>0. LogOk /\ hook \in [Hooks -> Hook] /\ UNCHANGED <<pc, stalls, mails, seen, queue>>
  BY DEF TypeOK, TruthInv, HookArrives, HookStepOf, HookFind, HookMark, HookCount
<1>1. ASSUME LogOk', \A j \in Jobs : LogsTell(j), \A i \in Hooks : hook'[i].step = "mark" => hook'[i].seen.run \in Runs
      PROVE  TruthInv'
  <2>1. ASSUME NEW j \in Jobs PROVE JobTruth(j)'
    BY <1>0, <1>1, <2>1 DEF JobTruth, LogsTell, TruthInv
  <2> QED BY <1>1, <2>1 DEF TruthInv
<1>2. ASSUME log' = log PROVE LogOk' /\ \A j \in Jobs : LogsTell(j)
  BY <1>0, <1>2 DEF LogOk, LogsTell, Logged
<1>3. hook[h].step # "idle" => hook[h] \in [step: {"find", "mark", "count"}, contact: Contacts, seen: Log]
  BY <1>0 DEF Hook, IdleHook
<1>4. CASE HookArrives(h) \/ HookCount(h)
  <2>1. \A i \in Hooks : hook'[i].step = "mark" => hook'[i].seen.run \in Runs
    BY <1>0, <1>4 DEF HookArrives, HookCount, IdleHook, TruthInv
  <2> QED BY <1>1, <1>2, <1>4, <2>1 DEF HookArrives, HookCount
<1>5. CASE HookFind(h)
  <2> DEFINE found == [hook[h] EXCEPT !.seen = log[hook[h].contact], !.step = "mark"]
  <2>1. hook[h].contact \in Contacts /\ found.seen = log[hook[h].contact]
    BY <1>3, <1>5 DEF HookFind
  <2>2. \/ hook' = [hook EXCEPT ![h] = IdleHook]
        \/ hook' = [hook EXCEPT ![h] = found] /\ log[hook[h].contact] # NoLog
    BY <1>0, <1>5 DEF HookFind
  <2> HIDE DEF found
  <2>3. \A i \in Hooks : hook'[i].step = "mark" => hook'[i].seen.run \in Runs
    BY <1>0, <2>1, <2>2 DEF IdleHook, TruthInv, LogOk
  <2> QED BY <1>1, <1>2, <1>5, <2>3 DEF HookFind
<1>6. CASE HookMark(h)
  <2>1. hook[h].contact \in Contacts /\ hook[h].seen.run \in Runs
    BY <1>3, <1>6 DEF HookMark, TruthInv
  <2>2. LogOk' /\ \A j \in Jobs : LogsTell(j)
    BY <1>0, <1>2, <1>6, <2>1, BounceTells DEF HookMark
  <2> DEFINE marked == [hook[h] EXCEPT !.step = "count"]
  <2>3. marked.step = "count"
    BY <1>3, <1>6 DEF HookMark
  <2>4. hook' = [hook EXCEPT ![h] = IdleHook] \/ hook' = [hook EXCEPT ![h] = marked]
    BY <1>6 DEF HookMark, HookGoto
  <2> HIDE DEF marked
  <2>5. \A i \in Hooks : hook'[i].step = "mark" => hook'[i].seen.run \in Runs
    BY <1>0, <2>3, <2>4 DEF IdleHook, TruthInv
  <2> QED BY <1>1, <2>2, <2>5
<1> QED BY <1>4, <1>5, <1>6 DEF HookStepOf

\* Any step keeps the logs true.
LEMMA TruthStep ==
  ASSUME Unbroken, TypeOK, MailInv, BoundInv, TruthInv, [Next]_vars
  PROVE  TruthInv'
<1>1. ASSUME UNCHANGED <<log, queue, pc, stalls, mails, seen, hook>> PROVE TruthInv'
  BY <1>1 DEF TruthInv, LogOk, JobTruth, Logged
<1>2. ASSUME NEW j \in Jobs, WorkerStep(j) PROVE TruthInv'
  <2>1. /\ LogOk' /\ JobTruth(j)' /\ hook' = hook
        /\ \A i \in Jobs \ {j} : LogsTell(i) /\ seen'[i] = seen[i]
    BY <1>2, WorkerTruth
  <2>2. Alone(j)
    BY <1>2, WorkerAlone DEF MailInv, TypeOK, WorkTypes
  <2>3. ASSUME NEW i \in Jobs \ {j} PROVE JobTruth(i)'
    BY <2>1, <2>2, <2>3 DEF Alone, JobTruth, LogsTell, TruthInv
  <2> QED BY <2>1, <2>3 DEF TruthInv
<1>3. ASSUME NEW p \in Procs, ApiStep(p) PROVE TruthInv'
  BY <1>3, ApiTruth
<1>4. ASSUME NEW h \in Hooks, HookArrives(h) \/ HookStepOf(h) PROVE TruthInv'
  BY <1>4, HookTruth
<1>5. CASE SchedulerTakes \/ Outside \/ UNCHANGED vars
  BY <1>1, <1>5 DEF SchedulerTakes, Outside, AudienceChanges, EditSmtp, RevokePassword, RemoveSmtp, KeepAllBut, KeepOutside,
     KeepJobs, vars, workVars, hookVars
<1> QED BY <1>2, <1>3, <1>4, <1>5 DEF Next

\* A campaign begins without a log.
LEMMA TruthInit == Init => BoundInv /\ TruthInv
<1> SUFFICES ASSUME Init PROVE BoundInv /\ TruthInv
  OBVIOUS
<1>1. BoundInv
  BY BoundsAssumption DEF Init, NewDoc, Idle, BoundInv, Preparing, Dispatching, Step
<1>2. LogOk
  BY DEF Init, LogOk
<1>3. ASSUME NEW j \in Jobs PROVE JobTruth(j)
  <2>1. j[1] \in Contacts /\ log[j[1]] = NoLog
    BY DEF Init, Jobs
  <2>2. pc[j] = "idle" /\ stalls[j] = 0 /\ seen[j] = NoLog
    BY DEF Init
  <2> QED BY <2>1, <2>2 DEF JobTruth, Logged, NoLog, BookPc, FailPc
<1>4. \A h \in Hooks : hook[h].step # "mark"
  BY DEF Init, IdleHook
<1> QED BY <1>1, <1>2, <1>3, <1>4 DEF TruthInv

\* A SendLog tells the truth about the message: "sent" only if the server took it, "failed" only
\* if it did not, over all the retries, pauses, schedules, restarts, webhooks and credential changes.
THEOREM LogsAreTrue == Unbroken => (Spec => []LogTellsTruth)
<1> SUFFICES ASSUME Unbroken PROVE Spec => []LogTellsTruth
  OBVIOUS
<1>1. Init => BoundInv /\ TruthInv
  BY TruthInit
<1>2. TypeOK /\ MailInv /\ BoundInv /\ TruthInv /\ [Next]_vars => BoundInv' /\ TruthInv'
  BY BoundStep, TruthStep
<1>3. TypeOK /\ TruthInv => LogTellsTruth
  <2> SUFFICES ASSUME TruthInv, NEW c \in Contacts, log[c] # NoLog
               PROVE  /\ log[c].status = "sent" => mails[<<c, log[c].run>>] > 0
                      /\ log[c].status = "failed" => mails[<<c, log[c].run>>] = 0
    BY DEF LogTellsTruth
  <2>1. <<c, log[c].run>> \in Jobs
    BY DEF TruthInv, LogOk, Jobs
  <2> QED BY <2>1 DEF TruthInv, JobTruth, Logged
<1> QED BY <1>1, <1>2, <1>3, MailInvariant, PTL DEF Spec

-----------------------------------------------------------------------------
(* Counters and logs.  One request at a time works on the campaign: a start *)
(* that loses its save to another one, or to an edit, has deleted the logs  *)
(* for nothing.  Workers and the server's owner are free.  A log that says  *)
(* "pending" has an open job, and an open job has such a log; so a job that *)
(* writes its log moves one log and itself, and counts once.                *)
OneRequest == \A p, q \in Requests : p = q

\* The logs are the campaign's: it exists, and nobody is about to write it anew.
Whole == Exists /\ LogsComplete

\* The job has not written its outcome yet.
OpenPc == BeforeMail \cup AuthPc \cup {"sentLog", "failLog", "bounceFind", "bounceMark"}
Open(j) == queue[j] = "waiting" \/ pc[j] \in OpenPc

Outcomes == {"sent", "failed", "bounced"}
Counter(d, s) == IF s = "sent" THEN d.sent ELSE IF s = "failed" THEN d.failed ELSE d.bounced
CountPc(s) == IF s = "sent" THEN "sentStat" ELSE IF s = "failed" THEN "failStat" ELSE "bounceCount"
JobsToCount(s) == {j \in Jobs : pc[j] = CountPc(s)}
ContactsWith(s) == {c \in Contacts : log[c].status = s}
Books(s) == Counter(camp, s) + Cardinality(JobsToCount(s)) = Cardinality(ContactsWith(s))

JobLogged(j) == /\ Open(j) => Logged(j, "pending")
                /\ pc[j] = "bounceMark" => seen[j] = log[j[1]]

Awaited(c) == \/ Open(<<c, log[c].run>>)
              \/ AboutToQueue(<<c, log[c].run>>)
              \/ \E p \in Procs : proc[p].op = "remove" /\ proc[p].step = "wipe"

LedgerInv ==
    /\ ~Whole => \A c \in Contacts : log[c] = NoLog
    /\ Whole => /\ \A s \in Outcomes : Books(s)
                /\ \A j \in Jobs : JobLogged(j)
                /\ \A c \in Contacts : log[c].status = "pending" => Awaited(c)

HandlerOk(p) ==
    /\ proc[p].step # "idle" => Exists
    /\ Preparing(p) => proc[p].doc.ver = camp.ver
    /\ Dispatching(p) => /\ proc[p].op = "start" /\ proc[p].step # "catch"
                         /\ \A c \in proc[p].todo : log[c] = NoLog
    /\ proc[p].step = "enqueue"
         => \A c \in proc[p].batch : log[c] = [run |-> proc[p].run, status |-> "pending"]

SoloInv ==
    /\ sched = "none" /\ proc[Scheduler].step = "idle"
    /\ \A p \in Procs : HandlerOk(p)
    /\ \A j \in Jobs : pc[j] # "dead"

\* What a step on the logs of one contact does to the number of those with some status.
LEMMA OneLogMoves ==
  ASSUME NEW S \in SUBSET Contacts, NEW T \in SUBSET Contacts, NEW c \in Contacts,
         \A d \in Contacts \ {c} : d \in T <=> d \in S
  PROVE  /\ c \notin S /\ c \in T => Cardinality(T) = Cardinality(S) + 1
         /\ (c \in S <=> c \in T) => Cardinality(T) = Cardinality(S)
<1>1. IsFiniteSet(S)
  BY SizesAssumption, FS_Subset
<1>3. CASE c \notin S /\ c \in T
  <2>1. T = S \cup {c}
    BY <1>3
  <2> QED BY <1>1, <1>3, <2>1, FS_AddElement
<1>4. CASE c \in S <=> c \in T
  <2>1. T = S
    BY <1>4
  <2> QED BY <1>4, <2>1
<1> QED BY <1>3, <1>4

\* One request at a time: while one handler is at work, all others are idle.
LEMMA Solo ==
  ASSUME OneRequest, SoloInv, NEW p \in Procs, p # Scheduler
  PROVE  \A q \in Procs \ {p} : proc[q].step = "idle"
  BY DEF OneRequest, SoloInv, Procs

\* A job that has ended is not open, nor about to be counted.
LEMMA EndedIsClosed ==
  ASSUME TypeOK, MailInv, NEW j \in Jobs, Ended(j)
  PROVE  ~Open(j) /\ \A s \in Outcomes : pc[j] # CountPc(s)
<1>1. /\ queue[j] \in {"none", "waiting", "completed", "removed"} => pc[j] = "idle"
  BY DEF MailInv, JobInv
<1> QED BY <1>1 DEF Ended, Open, OpenPc, CountPc, BeforeMail, AuthPc

\* Moves of a job j among its places: it stays open, writes its log, counts, or moves on.
Moves(j) ==
    \/ /\ log' = log /\ SameCounts(camp', camp) /\ (Open(j)' => Open(j)) /\ (Open(j) => Open(j)')
       /\ \A s \in Outcomes : pc[j] = CountPc(s) <=> pc'[j] = CountPc(s)
       /\ pc'[j] = "bounceMark" => seen'[j] = log[j[1]]
    \/ \E s \in Outcomes : /\ Open(j) /\ ~Open(j)' /\ pc'[j] = CountPc(s) /\ SameCounts(camp', camp)
                           /\ \A t \in Outcomes : pc[j] # CountPc(t)
                           /\ log' = [log EXCEPT ![j[1]].status = s]
    \/ \E s \in Outcomes : /\ ~Open(j) /\ ~Open(j)' /\ pc[j] = CountPc(s)
                           /\ \A t \in Outcomes : pc'[j] # CountPc(t)
                           /\ log' = log /\ Counter(camp', s) = Counter(camp, s) + 1
                           /\ \A t \in Outcomes \ {s} : Counter(camp', t) = Counter(camp, t)
\* What a worker does to its job, as long as the logs are those of the campaign.
LEMMA WorkerMoves ==
  ASSUME Orderly, TypeOK, MailInv, SoloInv, Exists, NEW j \in Jobs, JobLogged(j), WorkerStep(j)
  PROVE  Moves(j)
<1> USE DEF TypeOK, KeepOthers, KeepQueue, KeepJob, Goto, At, Moves, Outcomes, CountPc, Open, OpenPc, BeforeMail, AuthPc, SameCounts
<1>0. /\ queue[j] \in {"none", "waiting", "completed", "removed"} => pc[j] = "idle"
      /\ queue[j] = "failed" => pc[j] \in FailPc \cup {"idle"}
      /\ queue[j] = "active" => pc[j] # "idle"
      /\ queue[j] \in QueueState /\ pc[j] # "dead"
      /\ camp \in CampaignDoc /\ log \in [Contacts -> Log] /\ j[1] \in Contacts
  BY DEF MailInv, JobInv, SoloInv, Jobs
<1>1. SameCounts(Finalized, camp) /\ SameCounts(AutoPaused, camp)
  BY <1>0 DEF Finalized, AutoPaused, CampaignDoc
<1>2. ASSUME NEW f \in Outcomes
      PROVE  /\ Increment(f) \in CampaignDoc
             /\ Counter(Increment(f), f) = Counter(camp, f) + 1
             /\ \A t \in Outcomes \ {f} : Counter(Increment(f), t) = Counter(camp, t)
  BY <1>0, <1>2 DEF Increment, CampaignDoc, Counter
<1>3. CASE Take(j) \/ PauseLimitPasses(j)
  BY <1>0, <1>3 DEF Take, PauseLimitPasses, JobLogged
<1>4. CASE ReadStep(j) \/ NoCapacity(j) \/ LoadForSend(j) \/ CannotSend(j)
  BY <1>0, <1>4 DEF ReadStep, DiscardDeleted, WaitPaused, AbandonPaused, PassCampaign, NoCapacity, LoadForSend, CannotSend,
     Delay
<1>5. CASE SendStep(j)
  BY <1>0, <1>5 DEF SendStep, Accept, RejectLogin, RejectRecipient, FailForNow, Throw
<1>6. CASE AuthStep(j)
  BY <1>0, <1>6 DEF AuthStep, CredentialsChanged, CredentialsSame, PauseForAuth, Delay, CampaignDoc
<1>7. CASE BookLog(j)
  BY <1>0, <1>7 DEF BookLog, JobLogged, Logged, LogSet
<1>8. CASE FailLog(j)
  BY <1>0, <1>8 DEF FailLog, JobLogged, Logged, LogSet
<1>9. CASE BookStat(j)
  BY <1>0, <1>2, <1>9 DEF BookStat
<1>10. CASE FailStat(j)
  BY <1>0, <1>2, <1>10 DEF FailStat
<1>11. CASE BounceCount(j)
  BY <1>0, <1>2, <1>11 DEF BounceCount
<1>12. CASE BookFinal(j) \/ FailFinal(j) \/ FailPause(j) \/ BounceFinal(j) \/ BouncePause(j)
  BY <1>0, <1>1, <1>12 DEF BookFinal, FailFinal, FailPause, BounceFinal, BouncePause, Complete, Return, FailPc
<1>13. CASE BounceFind(j)
  BY <1>0, <1>13 DEF BounceFind
<1>14. CASE BounceMark(j)
  BY <1>0, <1>14 DEF BounceMark
<1>15. CASE BounceMarkLost(j) \/ BounceKnown(j)
  BY <1>0, <1>15 DEF BounceMarkLost, BounceKnown, JobLogged, Logged
<1>16. CASE RecoverStalled(j) \/ MongoFault(j) \/ WorkerDies(j)
  BY <1>0, <1>16 DEF RecoverStalled, MongoFault, WorkerDies, Orderly
<1> QED BY <1>3, <1>4, <1>5, <1>6, <1>7, <1>8, <1>9, <1>10, <1>11, <1>12, <1>13, <1>14, <1>15, <1>16
    DEF WorkerStep, WorkStep, BookStep, FailStep, BounceStep

\* A job whose log is gone writes none.
LEMMA WorkerEmpty ==
  ASSUME Orderly, TypeOK, TruthInv, NEW j \in Jobs, WorkerStep(j), \A c \in Contacts : log[c] = NoLog
  PROVE  log' = log
<1>1. j[1] \in Contacts /\ j[2] \in Nat \ {0} /\ log[j[1]].run = 0
  BY BoundsAssumption DEF Jobs, Runs, NoLog
<1>2. \A s : LogSet(j, s) = log
  BY <1>1 DEF LogSet
<1>3. ~BounceMark(j)
  BY <1>1, BoundsAssumption DEF BounceMark, TruthInv, JobTruth, Runs
<1> QED BY <1>2, <1>3 DEF WorkerStep, WorkStep, Take, ReadStep, DiscardDeleted, WaitPaused, AbandonPaused, PassCampaign,
    NoCapacity, LoadForSend, CannotSend, SendStep, Accept, RejectLogin, RejectRecipient, FailForNow, BookStep, BookLog,
    BookStat, BookFinal, AuthStep, CredentialsChanged, CredentialsSame, PauseForAuth, FailStep, FailLog, FailStat, FailFinal,
    FailPause, BounceStep, BounceFind, BounceMarkLost, BounceKnown, BounceCount, BounceFinal, BouncePause, RecoverStalled,
    MongoFault, WorkerDies, PauseLimitPasses

\* So the books stay balanced.
LEMMA MovesBalance ==
  ASSUME TypeOK, TypeOK', NEW j \in Jobs, Alone(j), Moves(j), JobLogged(j), NEW s \in Outcomes, Books(s)
  PROVE  Books(s)'
<1>0. /\ camp \in CampaignDoc /\ camp' \in CampaignDoc /\ log \in [Contacts -> Log] /\ j[1] \in Contacts
      /\ Counter(camp, s) \in Nat /\ Counter(camp', s) \in Nat
  BY DEF TypeOK, Jobs, CampaignDoc, Counter
<1>1. /\ JobsToCount(s) \in SUBSET Jobs /\ JobsToCount(s)' \in SUBSET Jobs
      /\ ContactsWith(s) \in SUBSET Contacts /\ ContactsWith(s)' \in SUBSET Contacts
  BY DEF JobsToCount, ContactsWith
<1>2. /\ Cardinality(JobsToCount(s)) \in Nat /\ Cardinality(JobsToCount(s)') \in Nat
      /\ Cardinality(ContactsWith(s)) \in Nat /\ Cardinality(ContactsWith(s)') \in Nat
  BY <1>1, JobsFinite, AudienceSize
<1>3. \A i \in Jobs \ {j} : i \in JobsToCount(s)' <=> i \in JobsToCount(s)
  BY DEF JobsToCount, Alone
<1>4. /\ j \in JobsToCount(s) <=> pc[j] = CountPc(s)
      /\ j \in JobsToCount(s)' <=> pc'[j] = CountPc(s)
  BY DEF JobsToCount
<1>5. /\ j \in JobsToCount(s) /\ j \notin JobsToCount(s)'
            => Cardinality(JobsToCount(s)') = Cardinality(JobsToCount(s)) - 1
      /\ j \notin JobsToCount(s) /\ j \in JobsToCount(s)'
            => Cardinality(JobsToCount(s)') = Cardinality(JobsToCount(s)) + 1
      /\ (j \in JobsToCount(s) <=> j \in JobsToCount(s)')
            => Cardinality(JobsToCount(s)') = Cardinality(JobsToCount(s))
  BY <1>1, <1>3, OneJobMoves
<1>6. SameCounts(camp', camp) => Counter(camp', s) = Counter(camp, s)
  BY DEF SameCounts, Counter
<1>7. log' = log => ContactsWith(s)' = ContactsWith(s)
  BY DEF ContactsWith
<1>8. CASE log' = log /\ SameCounts(camp', camp) /\ \A t \in Outcomes : pc[j] = CountPc(t) <=> pc'[j] = CountPc(t)
  BY <1>4, <1>5, <1>6, <1>7, <1>8 DEF Books
<1>9. ASSUME NEW o \in Outcomes, Open(j), pc'[j] = CountPc(o), SameCounts(camp', camp),
             \A t \in Outcomes : pc[j] # CountPc(t), log' = [log EXCEPT ![j[1]].status = o]
      PROVE  Books(s)'
  <2>1. log[j[1]].status = "pending"
    BY <1>9 DEF JobLogged, Logged
  <2> DEFINE entry == [log[j[1]] EXCEPT !.status = o]
  <2>2. log' = [log EXCEPT ![j[1]] = entry] /\ entry.status = o
    BY <1>0, <1>9 DEF Log
  <2> HIDE DEF entry
  <2>3. /\ \A d \in Contacts \ {j[1]} : d \in ContactsWith(s)' <=> d \in ContactsWith(s)
        /\ j[1] \notin ContactsWith(s) /\ (j[1] \in ContactsWith(s)' <=> s = o)
    BY <1>0, <2>1, <2>2 DEF ContactsWith, Outcomes
  <2>4. /\ s = o => Cardinality(ContactsWith(s)') = Cardinality(ContactsWith(s)) + 1
        /\ s # o => Cardinality(ContactsWith(s)') = Cardinality(ContactsWith(s))
    BY <1>0, <1>1, <2>3, OneLogMoves
  <2>5. j \notin JobsToCount(s) /\ (j \in JobsToCount(s)' <=> s = o)
    BY <1>4, <1>9 DEF CountPc, Outcomes
  <2> QED BY <1>0, <1>2, <1>5, <1>6, <1>9, <2>4, <2>5 DEF Books
<1>10. ASSUME NEW o \in Outcomes, pc[j] = CountPc(o), \A t \in Outcomes : pc'[j] # CountPc(t), log' = log,
              Counter(camp', o) = Counter(camp, o) + 1, \A t \in Outcomes \ {o} : Counter(camp', t) = Counter(camp, t)
       PROVE  Books(s)'
  <2>1. j \notin JobsToCount(s)' /\ (j \in JobsToCount(s) <=> s = o)
    BY <1>4, <1>10 DEF CountPc, Outcomes
  <2>2. /\ s = o => Counter(camp', s) = Counter(camp, s) + 1
        /\ s # o => Counter(camp', s) = Counter(camp, s)
    BY <1>10
  <2> QED BY <1>0, <1>2, <1>5, <1>7, <1>10, <2>1, <2>2 DEF Books
<1> QED BY <1>8, <1>9, <1>10 DEF Moves
\* Workers leave the schedule alone, and do not die.
LEMMA WorkerUnscheduled ==
  ASSUME Orderly, TypeOK, NEW j \in Jobs, pc[j] # "dead", WorkerStep(j)
  PROVE  sched' = sched /\ pc'[j] # "dead"
<1> USE DEF KeepOthers, KeepJob, KeepQueue, Goto, Complete, Delay, Throw, Return, At, TypeOK, Orderly, apiVars
<1>1. CASE Take(j) \/ NoCapacity(j) \/ PauseLimitPasses(j) \/ MongoFault(j) \/ WorkerDies(j)
  BY <1>1 DEF Take, NoCapacity, PauseLimitPasses, MongoFault, WorkerDies
<1>2. CASE ReadStep(j) \/ LoadForSend(j) \/ CannotSend(j) \/ SendStep(j) \/ BookStep(j)
  BY <1>2 DEF ReadStep, DiscardDeleted, WaitPaused, AbandonPaused, PassCampaign, LoadForSend, CannotSend, SendStep, Accept,
     RejectLogin, RejectRecipient, FailForNow, BookStep, BookLog, BookStat, BookFinal
<1>3. CASE AuthStep(j) \/ FailStep(j) \/ BounceStep(j) \/ RecoverStalled(j)
  BY <1>3 DEF AuthStep, CredentialsChanged, CredentialsSame, PauseForAuth, FailStep, FailLog, FailStat, FailFinal,
    FailPause, BounceStep, BounceFind, BounceMark, BounceMarkLost, BounceKnown, BounceCount, BounceFinal, BouncePause,
    RecoverStalled
<1> QED BY <1>1, <1>2, <1>3 DEF WorkerStep, WorkStep

\* And the other jobs keep the logs they will write.
LEMMA WorkerKeepsLedger ==
  ASSUME Orderly, TypeOK, TypeOK', MailInv, TruthInv, SoloInv, LedgerInv, NEW j \in Jobs, WorkerStep(j)
  PROVE  LedgerInv' /\ SoloInv'
<1>0. Alone(j) /\ sched' = sched /\ pc'[j] # "dead" /\ RunStep(j) /\ camp \in CampaignDoc /\ (\A i \in Jobs \ {j} : seen'[i] = seen[i])
  BY WorkerAlone, WorkerUnscheduled, WorkerRun, WorkerTruth DEF MailInv, SoloInv, TypeOK, WorkTypes, Orderly, Unbroken
<1>1. /\ proc' = proc /\ camp'.run = camp.run /\ camp'.ver = camp.ver
      /\ Exists' <=> Exists
      /\ Whole' <=> Whole
  BY <1>0 DEF Alone, RunStep, Exists, Whole, LogsComplete, Step
<1>2. \A i \in Jobs \ {j} : queue'[i] = queue[i] /\ pc'[i] = pc[i] /\ (Open(i)' <=> Open(i))
  BY <1>0 DEF Alone, Open
<1>3. CASE ~Whole
  <2>1. log' = log /\ \A c \in Contacts : log[c] = NoLog
    BY <1>3, WorkerEmpty DEF LedgerInv
  <2>2. LedgerInv'
    BY <1>1, <1>3, <2>1 DEF LedgerInv
  <2>3. \A p \in Procs : HandlerOk(p)'
    BY <1>1, <2>1 DEF SoloInv, HandlerOk, Preparing, Dispatching
  <2> QED BY <1>0, <1>1, <1>2, <2>2, <2>3 DEF SoloInv
<1>4. CASE Whole
  <2>0. /\ \A s \in Outcomes : Books(s)
        /\ \A i \in Jobs : JobLogged(i)
        /\ \A c \in Contacts : log[c].status = "pending" => Awaited(c)
        /\ Exists
    BY <1>4 DEF LedgerInv, Whole
  <2>1. Moves(j)
    BY <2>0, WorkerMoves
  <2>2. \A s \in Outcomes : Books(s)'
    BY <1>0, <2>0, <2>1, MovesBalance
  <2>3. /\ log' # log => Open(j) /\ ~Open(j)'
        /\ \A c \in Contacts \ {j[1]} : log'[c] = log[c]
        /\ log' # log => log'[j[1]].status # "pending"
    <3>1. log \in [Contacts -> Log] /\ j[1] \in Contacts
      BY DEF TypeOK, Jobs
    <3>2. CASE log' = log
      BY <3>2
    <3>3. CASE log' # log
      <4>1. PICK s \in Outcomes : Open(j) /\ ~Open(j)' /\ log' = [log EXCEPT ![j[1]].status = s]
        BY <2>1, <3>3 DEF Moves
      <4>2. log'[j[1]].status = s
        BY <3>1, <4>1 DEF Log
      <4> QED BY <3>1, <4>1, <4>2 DEF Outcomes
    <3> QED BY <3>2, <3>3
  <2>4. ASSUME NEW i \in Jobs \ {j}, Open(i) PROVE log'[i[1]] = log[i[1]]
    <3>1. i = <<i[1], i[2]>> /\ j = <<j[1], j[2]>> /\ i[1] \in Contacts
      BY DEF Jobs
    <3>2. log[i[1]].run = i[2] /\ (Open(j) => log[j[1]].run = j[2])
      BY <2>0, <2>4 DEF JobLogged, Logged
    <3> QED BY <2>3, <3>1, <3>2
  <2>5. ASSUME NEW i \in Jobs PROVE JobLogged(i)'
    <3>1. CASE i = j
      <4>1. Open(j)' => log' = log /\ Open(j)
        BY <2>1 DEF Moves
      <4>2. pc'[j] = "bounceMark" => Open(j)'
        BY DEF Open, OpenPc
      <4>3. pc'[j] = "bounceMark" => seen'[j] = log[j[1]]
        BY <2>1, <4>2 DEF Moves, Outcomes, CountPc
      <4> QED BY <2>0, <3>1, <4>1, <4>2, <4>3 DEF JobLogged, Logged
    <3>2. CASE i # j
      <4>1. pc[i] = "bounceMark" => Open(i)
        BY DEF Open, OpenPc
      <4> QED BY <1>0, <1>2, <2>0, <2>4, <3>2, <4>1 DEF JobLogged, Logged
    <3> QED BY <3>1, <3>2
  <2>6. ASSUME NEW c \in Contacts, log'[c].status = "pending" PROVE Awaited(c)'
    <3>1. log'[c] = log[c] /\ Awaited(c)
      BY <2>0, <2>3, <2>6
    <3>2. <<c, log[c].run>> \in Jobs
      BY <2>6, <3>1 DEF TruthInv, LogOk, Jobs, NoLog
    <3>3. <<c, log[c].run>> = j => ~Open(j) \/ Open(j)'
      <4> SUFFICES ASSUME <<c, log[c].run>> = j, Open(j), ~Open(j)' PROVE FALSE
        OBVIOUS
      <4>1. PICK s \in Outcomes : log' = [log EXCEPT ![j[1]].status = s]
        BY <2>1 DEF Moves
      <4>2. log'[j[1]].status = s /\ c = j[1]
        BY <4>1 DEF TypeOK, Log
      <4> QED BY <2>6, <4>2 DEF Outcomes
    <3> QED BY <1>1, <1>2, <3>1, <3>2, <3>3 DEF Awaited, AboutToQueue, Step
  <2>7. ASSUME NEW p \in Procs PROVE HandlerOk(p)'
    <3>1. Dispatching(p) => \A c \in proc[p].todo : log'[c] = NoLog
      <4> SUFFICES ASSUME Dispatching(p), NEW c \in proc[p].todo PROVE log'[c] = NoLog
        OBVIOUS
      <4>1. c \in Contacts /\ log[c] = NoLog
        BY DEF TypeOK, Proc, SoloInv, HandlerOk
      <4>2. Open(j) => log[j[1]] # NoLog
        BY <2>0 DEF JobLogged, Logged, NoLog
      <4> QED BY <2>3, <4>1, <4>2
    <3>2. proc[p].step = "enqueue" => \A c \in proc[p].batch : log'[c] = [run |-> proc[p].run, status |-> "pending"]
      <4> SUFFICES ASSUME proc[p].step = "enqueue", NEW c \in proc[p].batch
                   PROVE  log'[c] = [run |-> proc[p].run, status |-> "pending"]
        OBVIOUS
      <4>1. c \in Contacts /\ log[c] = [run |-> proc[p].run, status |-> "pending"]
        BY DEF TypeOK, Proc, SoloInv, HandlerOk
      <4>2. Open(j) => j[1] # c
        <5> SUFFICES ASSUME Open(j), j[1] = c PROVE FALSE
          OBVIOUS
        <5>1. j[2] = proc[p].run
          BY <2>0, <4>1 DEF JobLogged, Logged
        <5>2. queue[j] = "none"
          BY <5>1 DEF MailInv, DispatchInv, Unqueued
        <5> QED BY <1>0, <5>2 DEF Alone
      <4> QED BY <2>3, <4>1, <4>2
    <3> QED BY <1>1, <3>1, <3>2 DEF SoloInv, HandlerOk, Preparing, Dispatching
  <2>8. LedgerInv'
    BY <1>1, <1>4, <2>2, <2>5, <2>6 DEF LedgerInv
  <2> QED BY <1>0, <1>1, <1>2, <2>7, <2>8 DEF SoloInv
<1> QED BY <1>3, <1>4
\* Handler p is the one at work before and after its step.
Lonely(p) ==
    /\ \A q \in Procs \ {p} : proc[q].step = "idle" /\ proc'[q] = proc[q]
    /\ p # Scheduler /\ pc' = pc /\ sched' = sched

\* Deleted logs have not been written anew.
Rewriting(p) == \/ proc[p].op = "start" /\ proc[p].step = "save"
                \/ proc[p].op = "remove" /\ proc[p].step = "delete"

\* The handler will see to a pending log itself.
Minds(p, c) == \/ /\ proc[p].op = "start" /\ proc[p].step = "enqueue"
                  /\ c \in proc[p].batch /\ log[c].run = proc[p].run
               \/ proc[p].op = "remove" /\ proc[p].step = "wipe"

\* Then the others say nothing of the logs.
LEMMA LonelyLogs ==
  ASSUME NEW p \in Procs, Lonely(p)
  PROVE  /\ LogsComplete <=> ~Rewriting(p)
         /\ LogsComplete' <=> ~Rewriting(p)'
         /\ \A c \in Contacts : Awaited(c) => Open(<<c, log[c].run>>) \/ Minds(p, c)
         /\ \A c \in Contacts : Open(<<c, log[c].run>>)' \/ Minds(p, c)' => Awaited(c)'
<1>1. \A q \in Procs \ {p} : proc[q].step = "idle" /\ proc'[q].step = "idle"
  BY DEF Lonely
<1>2. (LogsComplete <=> ~Rewriting(p)) /\ (LogsComplete' <=> ~Rewriting(p)')
  BY <1>1 DEF LogsComplete, Rewriting, Step
<1>3. ASSUME NEW c \in Contacts, Awaited(c), ~Open(<<c, log[c].run>>) PROVE Minds(p, c)
  <2>1. CASE AboutToQueue(<<c, log[c].run>>)
    BY <1>1, <2>1 DEF AboutToQueue, Step, Minds
  <2>2. CASE \E q \in Procs : proc[q].op = "remove" /\ proc[q].step = "wipe"
    BY <1>1, <2>2 DEF Minds
  <2> QED BY <1>3, <2>1, <2>2 DEF Awaited
<1>4. ASSUME NEW c \in Contacts, Minds(p, c)' PROVE Awaited(c)'
  BY <1>4 DEF Awaited, AboutToQueue, Step, Minds
<1>5. ASSUME NEW c \in Contacts, Open(<<c, log[c].run>>)' PROVE Awaited(c)'
  BY <1>5 DEF Awaited
<1> QED BY <1>2, <1>3, <1>4, <1>5

\* What remains to be shown of the handlers is what the one at work does.
LEMMA LonelySolo ==
  ASSUME SoloInv, NEW p \in Procs, Lonely(p), HandlerOk(p)'
  PROVE  SoloInv'
<1>1. Scheduler \in Procs
  BY DEF Procs
<1>2. ASSUME NEW q \in Procs \ {p} PROVE HandlerOk(q)'
  BY <1>2 DEF Lonely, HandlerOk, Preparing, Dispatching
<1> QED BY <1>1, <1>2 DEF Lonely, SoloInv

\* A handler that does not touch logs, jobs and counters.
LEMMA QuietLedger ==
  ASSUME TypeOK, LedgerInv, NEW p \in Procs, Lonely(p), UNCHANGED <<log, queue, seen>>, SameCounts(camp', camp),
         Exists' <=> Exists, ~Rewriting(p), ~Rewriting(p)',
         proc[p].step # "enqueue", ~(proc[p].op = "remove" /\ proc[p].step = "wipe")
  PROVE  LedgerInv'
<1>1. Whole' <=> Whole
  BY LonelyLogs DEF Whole
<1>2. CASE ~Whole
  BY <1>1, <1>2 DEF LedgerInv
<1>3. CASE Whole
  <2>1. ASSUME NEW s \in Outcomes PROVE Books(s)'
    <3>1. ContactsWith(s)' = ContactsWith(s) /\ JobsToCount(s)' = JobsToCount(s)
      BY DEF ContactsWith, JobsToCount, Lonely
    <3>2. Counter(camp', s) = Counter(camp, s)
      BY DEF SameCounts, Counter
    <3> QED BY <1>3, <3>1, <3>2 DEF LedgerInv, Books
  <2>2. ASSUME NEW j \in Jobs PROVE JobLogged(j)'
    BY <1>3 DEF LedgerInv, JobLogged, Open, Logged, Lonely
  <2>3. ASSUME NEW c \in Contacts, log'[c].status = "pending" PROVE Awaited(c)'
    <3>1. Open(<<c, log[c].run>>)
      BY <1>3, <2>3, LonelyLogs DEF LedgerInv, Minds
    <3>2. Open(<<c, log[c].run>>)'
      BY <3>1 DEF Open, Lonely
    <3> QED BY <3>2, LonelyLogs
  <2> QED BY <1>1, <1>3, <2>1, <2>2, <2>3 DEF LedgerInv
<1> QED BY <1>2, <1>3

\* The handler that makes a step is the only one at work.
LEMMA ApiLonely ==
  ASSUME Orderly, OneRequest, TypeOK, SoloInv, NEW p \in Procs, ApiStep(p)
  PROVE  /\ Lonely(p) /\ seen' = seen /\ p \in Requests /\ ~DispatchFails(p) /\ ~ProcessDies(p) /\ ~DispatchCatch(p)
         /\ (proc[p].step # "idle" => Exists) /\ (Preparing(p) => proc[p].doc.ver = camp.ver)
         /\ proc[p].op \notin {"schedule", "unschedule"}
<1>1. ~DispatchFails(p) /\ ~ProcessDies(p) /\ (proc[p].step # "idle" => Exists) /\ (Preparing(p) => proc[p].doc.ver = camp.ver)
  BY DEF DispatchFails, ProcessDies, Orderly, SoloInv, HandlerOk
<1>2. p # Scheduler
  BY <1>1, SizesAssumption DEF ApiStep, SoloInv, Request, HandlerStep, StartStepOf, CountAudience, WipeLogs, SaveStart, SaveStartFails,
     DispatchInsert, DispatchDuplicate, DispatchEnqueue, DispatchDone, DispatchCatch, Pause, Resume, Edit,
     ScheduleCancel, ScheduleAdd, ScheduleSave, UnscheduleCancel, UnscheduleSave, RemoveCancel, RemoveDrain, RemoveWipe,
     RemoveDelete, SetStatus, Step
<1>3. ~DispatchCatch(p)
  BY DEF DispatchCatch, Step, SoloInv, HandlerOk, Dispatching
<1>4. proc[p].op \notin {"schedule", "unschedule"}
  BY DEF TypeOK, Proc, Orderly
<1>5. \A q \in Procs \ {p} : proc[q].step = "idle"
  BY <1>2, Solo
<1>6. pc' = pc /\ seen' = seen
  BY DEF ApiStep, HandlerStep, StartStepOf, Request, CountAudience, WipeLogs, SaveStart, SaveStartFails, DispatchInsert,
     DispatchDuplicate, DispatchEnqueue, DispatchDone, DispatchCatch, DispatchFails, ProcessDies, Pause, Resume, Edit,
     ScheduleCancel, ScheduleAdd, ScheduleSave, UnscheduleCancel, UnscheduleSave, RemoveCancel, RemoveDrain, RemoveWipe,
     RemoveDelete, SetStatus, KeepOutside, KeepJobs, workVars
<1>7. (\A q \in Procs \ {p} : proc'[q] = proc[q]) /\ sched' = sched
  <2>0. sched = "none" /\ proc \in [Procs -> Proc]
    BY DEF SoloInv, TypeOK
  <2>1. EndOf(p) => (\A q \in Procs \ {p} : proc'[q] = proc[q]) /\ sched' = sched
    BY <1>2, <2>0 DEF EndOf
  <2>2. ASSUME NEW s, CancelSchedule(p, s) PROVE (\A q \in Procs \ {p} : proc'[q] = proc[q]) /\ sched' = sched
    BY <2>0, <2>2 DEF CancelSchedule
  <2>3. CASE Request(p)
    BY <2>0, <2>3 DEF Request, Begin
  <2>4. CASE CountAudience(p) \/ SaveStartFails(p) \/ DispatchDone(p) \/ Edit(p) \/ RemoveDelete(p)
    BY <2>0, <2>1, <2>4 DEF CountAudience, SaveStartFails, DispatchDone, Edit, RemoveDelete
  <2>5. CASE Pause(p) \/ Resume(p) \/ ScheduleSave(p) \/ UnscheduleSave(p)
    BY <2>1, <2>5 DEF Pause, Resume, ScheduleSave, UnscheduleSave, SetStatus
  <2>6. CASE WipeLogs(p) \/ SaveStart(p) \/ DispatchInsert(p) \/ DispatchDuplicate(p) \/ DispatchEnqueue(p)
             \/ RemoveDrain(p) \/ RemoveWipe(p)
    BY <2>0, <2>6 DEF WipeLogs, SaveStart, DispatchInsert, DispatchDuplicate, DispatchEnqueue, RemoveDrain, RemoveWipe, Advance
  <2>7. CASE RemoveCancel(p)
    BY <2>2, <2>7 DEF RemoveCancel
  <2>8. ~ScheduleCancel(p) /\ ~ScheduleAdd(p) /\ ~UnscheduleCancel(p)
    BY <1>4 DEF ScheduleCancel, ScheduleAdd, UnscheduleCancel
  <2> QED BY <1>1, <1>3, <2>3, <2>4, <2>5, <2>6, <2>7, <2>8 DEF ApiStep, HandlerStep, StartStepOf
<1>8. p \in Requests
  BY <1>2 DEF Procs
<1> QED BY <1>1, <1>2, <1>3, <1>4, <1>5, <1>6, <1>7, <1>8 DEF Lonely
\* Handlers that answer.
LEMMA EndKeepsLedger ==
  ASSUME TypeOK, LedgerInv, SoloInv, NEW p \in Procs, Lonely(p), EndOf(p), UNCHANGED <<log, queue, seen>>,
         SameCounts(camp', camp), Exists' <=> Exists, ~Rewriting(p), proc[p].step # "enqueue",
         ~(proc[p].op = "remove" /\ proc[p].step = "wipe")
  PROVE  LedgerInv' /\ SoloInv'
<1>1. proc'[p].step = "idle"
  BY DEF EndOf, Idle, TypeOK
<1>2. HandlerOk(p)' /\ ~Rewriting(p)'
  BY <1>1 DEF HandlerOk, Preparing, Dispatching, Rewriting
<1> QED BY <1>2, QuietLedger, LonelySolo

\* Handlers that begin, count the audience or cancel the schedule.
LEMMA MoveKeepsLedger ==
  ASSUME Orderly, OneRequest, TypeOK, MailInv, RunInv, LedgerInv, SoloInv, NEW p \in Procs, ApiStep(p),
         Request(p) \/ CountAudience(p) \/ RemoveCancel(p)
  PROVE  LedgerInv' /\ SoloInv'
<1>0. Lonely(p) /\ seen' = seen /\ proc[p].op \notin {"schedule", "unschedule"} /\ proc[p] \in Proc
      /\ (proc[p].step # "idle" => Exists) /\ (Preparing(p) => proc[p].doc.ver = camp.ver)
  BY ApiLonely DEF TypeOK
<1>1. UNCHANGED <<camp, log, queue>>
  BY DEF Request, CountAudience, RemoveCancel, KeepOutside, KeepJobs, workVars
<1>2. SameCounts(camp', camp) /\ (Exists' <=> Exists)
  BY <1>1 DEF SameCounts, Exists
<1>3. proc[p].step \in {"idle", "count", "cancel"}
  BY DEF Request, CountAudience, RemoveCancel, Step
<1>4. ~Rewriting(p) /\ proc[p].step # "enqueue" /\ proc[p].step # "wipe"
  BY <1>3 DEF Rewriting
<1>5. CASE EndOf(p)
  BY <1>0, <1>1, <1>2, <1>4, <1>5, EndKeepsLedger
<1>6. ASSUME HandlerOk(p)', ~Rewriting(p)' PROVE LedgerInv' /\ SoloInv'
  BY <1>0, <1>1, <1>2, <1>4, <1>6, QuietLedger, LonelySolo
<1>7. CASE Request(p)
  <2>1. PICK o \in Operations : proc' = IF Refused(o) \/ PastBound(o) THEN proc ELSE Begin(p, o)
    BY <1>7 DEF Request
  <2>2. CASE proc' = proc
    <3>1. proc'[p].step = "idle"
      BY <1>7, <2>2 DEF Request, Step
    <3>2. HandlerOk(p)' /\ ~Rewriting(p)'
      BY <3>1 DEF HandlerOk, Preparing, Dispatching, Rewriting
    <3> QED BY <1>6, <3>2
  <2>3. CASE proc' = Begin(p, o) /\ ~Refused(o)
    <3>1. proc'[p].op = o /\ proc'[p].doc = camp /\ proc'[p].step = AfterLoad(o)
      BY <2>3 DEF Begin, Idle, TypeOK
    <3>2. HandlerOk(p)' /\ ~Rewriting(p)'
      BY <1>1, <2>3, <3>1 DEF HandlerOk, Preparing, Dispatching, Rewriting, AfterLoad, Refused, Exists
    <3> QED BY <1>6, <3>2
  <2> QED BY <2>1, <2>2, <2>3
<1>8. CASE CountAudience(p) /\ ~EndOf(p)
  <2>1. proc' = [proc EXCEPT ![p] = [@ EXCEPT !.total = Cardinality(eligible), !.step = "wipe"]]
        /\ proc[p].op = "start" /\ proc[p].step = "count"
    BY <1>8 DEF CountAudience, Step
  <2>2. proc'[p].op = "start" /\ proc'[p].step = "wipe" /\ proc'[p].doc = proc[p].doc
    BY <1>0, <2>1 DEF TypeOK, Proc
  <2>3. HandlerOk(p)' /\ ~Rewriting(p)'
    BY <1>0, <1>1, <1>2, <2>1, <2>2 DEF HandlerOk, Preparing, Dispatching, Rewriting
  <2> QED BY <1>6, <2>3
<1>9. CASE RemoveCancel(p) /\ ~EndOf(p)
  <2>1. proc' = [proc EXCEPT ![p].step = "drain"] /\ proc[p].op = "remove" /\ proc[p].step = "cancel"
    BY <1>9 DEF RemoveCancel, CancelSchedule, Step
  <2>2. proc'[p].op = "remove" /\ proc'[p].step = "drain"
    BY <1>0, <2>1 DEF TypeOK, Proc
  <2>3. HandlerOk(p)' /\ ~Rewriting(p)'
    BY <1>0, <1>2, <2>1, <2>2 DEF HandlerOk, Preparing, Dispatching, Rewriting
  <2> QED BY <1>6, <2>3
<1> QED BY <1>5, <1>7, <1>8, <1>9

\* Handlers that save a status, an edit, or give up.
LEMMA SaveKeepsLedger ==
  ASSUME Orderly, OneRequest, TypeOK, MailInv, RunInv, LedgerInv, SoloInv, NEW p \in Procs, ApiStep(p),
         Pause(p) \/ Resume(p) \/ Edit(p) \/ DispatchDone(p) \/ ScheduleSave(p) \/ UnscheduleSave(p) \/ SaveStartFails(p)
  PROVE  LedgerInv' /\ SoloInv'
<1>0. Lonely(p) /\ seen' = seen /\ proc[p].op \notin {"schedule", "unschedule"}
      /\ (proc[p].step # "idle" => Exists) /\ (Preparing(p) => proc[p].doc.ver = camp.ver)
  BY ApiLonely
<1>1. ~ScheduleSave(p) /\ ~UnscheduleSave(p)
  BY <1>0 DEF ScheduleSave, UnscheduleSave, SetStatus
<1>2. ~SaveStartFails(p)
  BY <1>0 DEF SaveStartFails, Step, Preparing, Doc
<1>3. EndOf(p) /\ UNCHANGED <<log, queue>>
  BY <1>1, <1>2 DEF Pause, Resume, Edit, DispatchDone, SetStatus, KeepOutside, KeepJobs, workVars
<1>4. ~Rewriting(p) /\ proc[p].step # "enqueue" /\ proc[p].step # "wipe"
  BY <1>1, <1>2 DEF Pause, Resume, Edit, DispatchDone, SetStatus, Rewriting, Step
<1>5. SameCounts(camp', camp) /\ (Exists' <=> Exists)
  <2>0. camp \in CampaignDoc
    BY DEF TypeOK
  <2>1. CASE Pause(p) \/ Resume(p)
    <3>1. ASSUME NEW o, NEW s \in {"paused", "sending"}, SetStatus(p, o, s) PROVE SameCounts(camp', camp) /\ (Exists' <=> Exists)
      <4>1. /\ SameCounts(Written(p, [Doc(p) EXCEPT !.status = s]), camp)
            /\ Written(p, [Doc(p) EXCEPT !.status = s]).status \in {s, camp.status}
        <5>1. Doc(p) \in CampaignDoc
          BY DocTypes DEF TypeOK, WorkTypes, ApiTypes
        <5> QED BY <5>1 DEF Written, Kept, SameCounts, CampaignDoc
      <4> QED BY <3>1, <4>1 DEF SetStatus, SaveScalars, SameCounts, Exists
    <3> QED BY <2>1, <3>1 DEF Pause, Resume
  <2>2. CASE Edit(p) \/ DispatchDone(p)
    BY <2>0, <2>2 DEF Edit, DispatchDone, SaveArrays, SameCounts, Exists, CampaignDoc
  <2> QED BY <1>1, <1>2, <2>1, <2>2
<1> QED BY <1>0, <1>3, <1>4, <1>5, EndKeepsLedger

\* Logs deleted, by a start or for good.
LEMMA WipeKeepsLedger ==
  ASSUME Orderly, OneRequest, TypeOK, MailInv, RunInv, LedgerInv, SoloInv, NEW p \in Procs, ApiStep(p),
         WipeLogs(p) \/ RemoveWipe(p) \/ RemoveDelete(p)
  PROVE  LedgerInv' /\ SoloInv'
<1>0. Lonely(p) /\ seen' = seen /\ proc[p] \in Proc
      /\ (proc[p].step # "idle" => Exists) /\ (Preparing(p) => proc[p].doc.ver = camp.ver)
  BY ApiLonely DEF TypeOK
<1>1. ASSUME ~Whole', \A c \in Contacts : log'[c] = NoLog PROVE LedgerInv'
  BY <1>1 DEF LedgerInv
<1>2. CASE WipeLogs(p) \/ RemoveWipe(p)
  <2>1. (\A c \in Contacts : log'[c] = NoLog) /\ camp' = camp
    BY <1>2 DEF WipeLogs, RemoveWipe
  <2>2. \/ proc'[p].op = "start" /\ proc'[p].step = "save" /\ proc'[p].doc = proc[p].doc /\ Preparing(p)
        \/ proc'[p].op = "remove" /\ proc'[p].step = "delete"
    BY <1>0, <1>2 DEF WipeLogs, RemoveWipe, Advance, Step, TypeOK, Proc, Preparing
  <2>3. Rewriting(p)' /\ proc[p].step # "idle"
    BY <1>2, <2>2 DEF Rewriting, WipeLogs, RemoveWipe, Step
  <2>4. ~Whole'
    BY <1>0, <2>3, LonelyLogs DEF Whole
  <2>5. HandlerOk(p)'
    BY <1>0, <2>1, <2>2, <2>3 DEF HandlerOk, Preparing, Dispatching, Exists
  <2> QED BY <1>0, <1>1, <2>1, <2>4, <2>5, LonelySolo
<1>3. CASE RemoveDelete(p)
  <2>1. proc'[p].step = "idle" /\ log' = log /\ camp' = [camp EXCEPT !.status = "gone"] /\ Rewriting(p)
    BY <1>3 DEF RemoveDelete, EndOf, Idle, TypeOK, Rewriting, Step
  <2>2. ~Whole
    BY <1>0, <2>1, LonelyLogs DEF Whole
  <2>3. ~Whole'
    BY <2>1 DEF Whole, Exists, TypeOK, CampaignDoc
  <2>4. HandlerOk(p)'
    BY <2>1 DEF HandlerOk, Preparing, Dispatching
  <2> QED BY <1>0, <1>1, <2>1, <2>2, <2>3, <2>4, LonelySolo DEF LedgerInv
<1> QED BY <1>2, <1>3
\* A start that saves finds no logs and no open job, and begins to count from zero.
LEMMA StartKeepsLedger ==
  ASSUME Orderly, OneRequest, TypeOK, MailInv, RunInv, LedgerInv, SoloInv, NEW p \in Procs, ApiStep(p), SaveStart(p)
  PROVE  LedgerInv' /\ SoloInv'
<1>0. Lonely(p) /\ seen' = seen /\ proc[p] \in Proc
  BY ApiLonely DEF TypeOK
<1>1. /\ AllEnded /\ camp'.status = "sending" /\ camp'.sent = 0 /\ camp'.failed = 0 /\ camp'.bounced = 0
  BY StartSaves DEF Settled
<1>2. /\ log' = log /\ queue' = queue /\ proc[p].op = "start" /\ proc[p].step = "save"
      /\ proc'[p].op = "start" /\ proc'[p].step = "dispatch" /\ proc'[p].todo = Contacts
  BY <1>0 DEF SaveStart, KeepJobs, workVars, Step, TypeOK, Proc
<1>3. \A c \in Contacts : log'[c] = NoLog
  <2>1. ~Whole
    BY <1>0, <1>2, LonelyLogs DEF Whole, Rewriting
  <2> QED BY <1>2, <2>1 DEF LedgerInv
<1>4. \A j \in Jobs : ~Open(j)' /\ \A s \in Outcomes : pc'[j] # CountPc(s)
  BY <1>0, <1>1, <1>2, EndedIsClosed DEF AllEnded, Open, Lonely
<1>5. ASSUME NEW s \in Outcomes PROVE Books(s)'
  <2>1. JobsToCount(s)' = {}
    BY <1>4 DEF JobsToCount
  <2>2. ContactsWith(s)' = {}
    BY <1>3 DEF ContactsWith, NoLog, Outcomes
  <2>3. Counter(camp', s) = 0
    BY <1>1 DEF Counter
  <2>4. Cardinality(JobsToCount(s)') = 0 /\ Cardinality(ContactsWith(s)') = 0
    BY <2>1, <2>2, FS_EmptySet
  <2> QED BY <2>3, <2>4 DEF Books
<1>6. ASSUME NEW j \in Jobs PROVE JobLogged(j)'
  BY <1>4 DEF JobLogged, Open, OpenPc
<1>7. Whole'
  <2>1. ~Rewriting(p)'
    BY <1>2 DEF Rewriting
  <2>2. LogsComplete'
    BY <1>0, <2>1, LonelyLogs
  <2> QED BY <1>1, <2>2 DEF Whole, Exists
<1>8. LedgerInv'
  BY <1>3, <1>5, <1>6, <1>7 DEF LedgerInv, NoLog
<1>9. HandlerOk(p)'
  BY <1>1, <1>2, <1>3 DEF HandlerOk, Preparing, Dispatching, Exists
<1> QED BY <1>0, <1>8, <1>9, LonelySolo

\* A batch of logs, none of which was there before.
LEMMA InsertKeepsLedger ==
  ASSUME Orderly, OneRequest, TypeOK, MailInv, RunInv, LedgerInv, SoloInv, NEW p \in Procs, ApiStep(p), DispatchInsert(p)
  PROVE  LedgerInv' /\ SoloInv'
<1>0. Lonely(p) /\ seen' = seen /\ proc[p] \in Proc /\ log \in [Contacts -> Log]
  BY ApiLonely DEF TypeOK
<1>1. /\ proc[p].step = "dispatch" /\ proc[p].op = "start" /\ Exists
      /\ \A c \in proc[p].todo : log[c] = NoLog
      /\ camp' = camp /\ queue' = queue
  BY DEF DispatchInsert, Step, SoloInv, HandlerOk, Dispatching, KeepOutside, KeepJobs, workVars
<1>2. PICK B \in SUBSET Contacts :
         /\ IsBatch(p, B) /\ Insertable(p, B) = B
         /\ InsertLogs(p, B)
         /\ proc' = [proc EXCEPT ![p] = [@ EXCEPT !.batch = B, !.todo = proc[p].todo \ B, !.step = "enqueue"]]
  BY DEF DispatchInsert
<1>3. /\ proc'[p].op = "start" /\ proc'[p].step = "enqueue" /\ proc'[p].run = proc[p].run
      /\ proc'[p].batch = B /\ proc'[p].todo = proc[p].todo \ B
  BY <1>0, <1>1, <1>2 DEF TypeOK, Proc
<1>4. /\ \A c \in B : log[c] = NoLog /\ log'[c] = [run |-> proc[p].run, status |-> "pending"]
      /\ \A c \in Contacts \ B : log'[c] = log[c]
  BY <1>1, <1>2 DEF InsertLogs, Insertable
<1>5. /\ ~Rewriting(p) /\ ~Rewriting(p)'
      /\ Exists' /\ Whole /\ Whole'
  BY <1>0, <1>1, <1>3, LonelyLogs DEF Rewriting, Whole, Exists
<1>6. ASSUME NEW s \in Outcomes PROVE Books(s)'
  <2>1. JobsToCount(s)' = JobsToCount(s)
    BY <1>0 DEF JobsToCount, Lonely
  <2>2. ContactsWith(s)' = ContactsWith(s)
    BY <1>4 DEF ContactsWith, NoLog, Outcomes
  <2> QED BY <1>1, <1>5, <2>1, <2>2 DEF Books, LedgerInv
<1>7. ASSUME NEW j \in Jobs PROVE JobLogged(j)'
  <2>1. j[1] \in Contacts /\ JobLogged(j)
    BY <1>5 DEF Jobs, LedgerInv
  <2>2. Open(j)' <=> Open(j)
    BY <1>0, <1>1 DEF Open, Lonely
  <2>3. Open(j) => log'[j[1]] = log[j[1]]
    BY <1>4, <2>1 DEF JobLogged, Logged, NoLog
  <2>4. pc'[j] = "bounceMark" => Open(j) /\ pc[j] = "bounceMark"
    BY <1>0 DEF Open, OpenPc, Lonely
  <2> QED BY <1>0, <2>1, <2>2, <2>3, <2>4 DEF JobLogged, Logged
<1>8. ASSUME NEW c \in Contacts, log'[c].status = "pending" PROVE Awaited(c)'
  <2>1. CASE c \in B
    <3>1. Minds(p, c)'
      BY <1>3, <1>4, <2>1 DEF Minds
    <3> QED BY <1>0, <3>1, LonelyLogs
  <2>2. CASE c \notin B
    <3>1. Open(<<c, log[c].run>>)
      BY <1>0, <1>1, <1>4, <1>5, <1>8, <2>2, LonelyLogs DEF LedgerInv, Minds
    <3>2. Open(<<c, log[c].run>>)'
      BY <1>0, <1>1, <1>4, <2>2, <3>1 DEF Open, Lonely
    <3> QED BY <1>0, <3>2, LonelyLogs
  <2> QED BY <2>1, <2>2
<1>9. LedgerInv'
  BY <1>5, <1>6, <1>7, <1>8 DEF LedgerInv
<1>10. HandlerOk(p)'
  <2>1. \A c \in proc[p].todo : c \in Contacts
    BY <1>0 DEF Proc
  <2> QED BY <1>1, <1>3, <1>4, <1>5, <2>1 DEF HandlerOk, Preparing, Dispatching
<1> QED BY <1>0, <1>9, <1>10, LonelySolo

\* The batch is queued: its logs have open jobs.
LEMMA EnqueueKeepsLedger ==
  ASSUME Orderly, OneRequest, TypeOK, MailInv, TruthInv, LedgerInv, SoloInv, NEW p \in Procs, ApiStep(p), DispatchEnqueue(p)
  PROVE  LedgerInv' /\ SoloInv'
<1>0. Lonely(p) /\ seen' = seen /\ proc[p] \in Proc /\ queue \in [Jobs -> QueueState]
  BY ApiLonely DEF TypeOK
<1>1. /\ proc[p].step = "enqueue" /\ proc[p].op = "start" /\ Exists
      /\ \A c \in proc[p].todo : log[c] = NoLog
      /\ \A c \in proc[p].batch : log[c] = [run |-> proc[p].run, status |-> "pending"]
      /\ camp' = camp /\ log' = log
      /\ queue' = [j \in Jobs |-> IF j[1] \in proc[p].batch /\ j[2] = proc[p].run THEN "waiting" ELSE queue[j]]
  BY DEF DispatchEnqueue, Step, SoloInv, HandlerOk, Dispatching
<1>2. /\ proc'[p].op = "start" /\ proc'[p].step = "dispatch" /\ proc'[p].todo = proc[p].todo
  BY <1>0, <1>1 DEF DispatchEnqueue, TypeOK, Proc
<1>3. /\ ~Rewriting(p) /\ ~Rewriting(p)'
      /\ Exists' /\ Whole /\ Whole'
  BY <1>0, <1>1, <1>2, LonelyLogs DEF Rewriting, Whole, Exists
<1>4. ASSUME NEW s \in Outcomes PROVE Books(s)'
  <2>1. JobsToCount(s)' = JobsToCount(s) /\ ContactsWith(s)' = ContactsWith(s)
    BY <1>0, <1>1 DEF JobsToCount, ContactsWith, Lonely
  <2> QED BY <1>1, <1>3, <2>1 DEF Books, LedgerInv
<1>5. ASSUME NEW j \in Jobs PROVE JobLogged(j)' /\ (Open(j) => Open(j)')
  <2>0. JobLogged(j) /\ pc' = pc
    BY <1>0, <1>3 DEF LedgerInv, Lonely
  <2>1. CASE j[1] \in proc[p].batch /\ j[2] = proc[p].run
    <3>1. queue[j] = "none"
      BY <1>1, <2>1 DEF MailInv, DispatchInv, Unqueued
    <3>2. pc[j] = "idle"
      BY <3>1 DEF MailInv, JobInv
    <3>3. Logged(j, "pending")' /\ Open(j)'
      BY <1>1, <2>1 DEF Logged, Open
    <3> QED BY <2>0, <3>2, <3>3 DEF JobLogged
  <2>2. CASE ~(j[1] \in proc[p].batch /\ j[2] = proc[p].run)
    BY <1>0, <1>1, <2>0, <2>2 DEF JobLogged, Logged, Open
  <2> QED BY <2>1, <2>2
<1>6. ASSUME NEW c \in Contacts, log'[c].status = "pending" PROVE Awaited(c)'
  <2>0. <<c, log[c].run>> \in Jobs
    BY <1>1, <1>6 DEF TruthInv, LogOk, Jobs, NoLog
  <2>1. Open(<<c, log[c].run>>) \/ (c \in proc[p].batch /\ log[c].run = proc[p].run)
    BY <1>0, <1>1, <1>3, <1>6, LonelyLogs DEF LedgerInv, Minds
  <2>2. Open(<<c, log[c].run>>)'
    BY <1>1, <1>5, <2>0, <2>1 DEF Open
  <2> QED BY <1>0, <2>2, LonelyLogs
<1>7. LedgerInv'
  BY <1>3, <1>4, <1>5, <1>6 DEF LedgerInv
<1>8. HandlerOk(p)'
  BY <1>1, <1>2, <1>3 DEF HandlerOk, Preparing, Dispatching
<1> QED BY <1>0, <1>7, <1>8, LonelySolo

\* Jobs are removed: the handler deletes their logs next.
LEMMA DrainKeepsLedger ==
  ASSUME Orderly, OneRequest, TypeOK, LedgerInv, SoloInv, NEW p \in Procs, ApiStep(p), RemoveDrain(p)
  PROVE  LedgerInv' /\ SoloInv'
<1>0. Lonely(p) /\ seen' = seen /\ proc[p] \in Proc /\ (proc[p].step # "idle" => Exists)
  BY ApiLonely DEF TypeOK
<1>1. /\ proc[p].step = "drain" /\ proc[p].op = "remove" /\ Exists /\ camp' = camp /\ log' = log
      /\ queue' = [j \in Jobs |-> IF queue[j] = "waiting" THEN "removed" ELSE queue[j]]
  BY <1>0 DEF RemoveDrain, Step
<1>2. proc'[p].op = "remove" /\ proc'[p].step = "wipe"
  BY <1>0, <1>1 DEF RemoveDrain, Advance, TypeOK, Proc
<1>3. Exists' /\ Whole /\ Whole'
  BY <1>0, <1>1, <1>2, LonelyLogs DEF Rewriting, Whole, Exists
<1>4. ASSUME NEW s \in Outcomes PROVE Books(s)'
  <2>1. JobsToCount(s)' = JobsToCount(s) /\ ContactsWith(s)' = ContactsWith(s)
    BY <1>0, <1>1 DEF JobsToCount, ContactsWith, Lonely
  <2> QED BY <1>1, <1>3, <2>1 DEF Books, LedgerInv
<1>5. ASSUME NEW j \in Jobs PROVE JobLogged(j)'
  BY <1>0, <1>1, <1>3 DEF LedgerInv, JobLogged, Logged, Open, Lonely
<1>6. ASSUME NEW c \in Contacts PROVE Awaited(c)'
  BY <1>0, <1>2, LonelyLogs DEF Minds
<1>7. HandlerOk(p)'
  BY <1>2, <1>3 DEF HandlerOk, Preparing, Dispatching
<1> QED BY <1>0, <1>3, <1>4, <1>5, <1>6, <1>7, LonelySolo DEF LedgerInv

\* Every step of a handler.
LEMMA ApiKeepsLedger ==
  ASSUME Orderly, OneRequest, TypeOK, MailInv, RunInv, TruthInv, LedgerInv, SoloInv, NEW p \in Procs, ApiStep(p)
  PROVE  LedgerInv' /\ SoloInv'
<1>1. /\ ~DispatchFails(p) /\ ~ProcessDies(p) /\ ~DispatchCatch(p) /\ proc[p].op \notin {"schedule", "unschedule"}
  BY ApiLonely
<1>2. ~ScheduleCancel(p) /\ ~ScheduleAdd(p) /\ ~UnscheduleCancel(p)
  BY <1>1 DEF ScheduleCancel, ScheduleAdd, UnscheduleCancel
<1>3. ~DispatchDuplicate(p)
  <2> SUFFICES ASSUME DispatchDuplicate(p) PROVE FALSE
    OBVIOUS
  <2>1. \A c \in proc[p].todo : log[c] = NoLog
    BY DEF DispatchDuplicate, Step, SoloInv, HandlerOk, Dispatching
  <2> QED BY <2>1 DEF DispatchDuplicate, IsBatch, NextRows, Insertable
<1> QED BY <1>1, <1>2, <1>3, MoveKeepsLedger, SaveKeepsLedger, WipeKeepsLedger, StartKeepsLedger, InsertKeepsLedger,
    EnqueueKeepsLedger, DrainKeepsLedger DEF ApiStep, HandlerStep, StartStepOf

\* Any step keeps the books.
LEMMA LedgerStep ==
  ASSUME Orderly, OneRequest, TypeOK, TypeOK', MailInv, RunInv, TruthInv, LedgerInv, SoloInv, [Next]_vars
  PROVE  LedgerInv' /\ SoloInv'
<1>1. ASSUME NEW j \in Jobs, WorkerStep(j) PROVE LedgerInv' /\ SoloInv'
  BY <1>1, WorkerKeepsLedger
<1>2. ASSUME NEW p \in Procs, ApiStep(p) PROVE LedgerInv' /\ SoloInv'
  BY <1>2, ApiKeepsLedger
<1>3. ~SchedulerTakes
  BY DEF SchedulerTakes, SoloInv
<1>4. ASSUME NEW h \in Hooks PROVE ~HookArrives(h) /\ ~HookStepOf(h)
  BY DEF Orderly, RunInv, HookArrives, HookStepOf, HookFind, HookMark, HookCount
<1>5. CASE Outside \/ UNCHANGED vars
  <2>1. UNCHANGED <<camp, log, queue, pc, seen, proc, sched>>
    BY <1>5 DEF Outside, AudienceChanges, EditSmtp, RevokePassword, RemoveSmtp, KeepAllBut, vars, workVars, apiVars
  <2>2. Whole' <=> Whole
    BY <2>1 DEF Whole, Exists, LogsComplete, Step
  <2>3. \A s \in Outcomes : Books(s)' <=> Books(s)
    <3>1. ASSUME NEW s \in Outcomes PROVE JobsToCount(s)' = JobsToCount(s) /\ ContactsWith(s)' = ContactsWith(s)
      BY <2>1 DEF JobsToCount, ContactsWith
    <3> QED BY <2>1, <3>1 DEF Books
  <2>4. /\ \A j \in Jobs : JobLogged(j)' <=> JobLogged(j)
        /\ \A c \in Contacts : Awaited(c)' <=> Awaited(c)
    BY <2>1 DEF JobLogged, Open, Logged, Awaited, AboutToQueue, Step
  <2>5. LedgerInv'
    BY <2>1, <2>2, <2>3, <2>4 DEF LedgerInv
  <2>6. SoloInv'
    BY <2>1 DEF SoloInv, HandlerOk, Preparing, Dispatching, Exists
  <2> QED BY <2>5, <2>6
<1> QED BY <1>1, <1>2, <1>3, <1>4, <1>5 DEF Next

\* The campaign begins without logs, jobs and counts.
LEMMA LedgerInit == Init => LedgerInv /\ SoloInv
<1> SUFFICES ASSUME Init PROVE LedgerInv /\ SoloInv
  OBVIOUS
<1>1. ASSUME NEW s \in Outcomes PROVE Books(s)
  <2>1. JobsToCount(s) = {}
    BY DEF Init, JobsToCount, CountPc
  <2>2. ContactsWith(s) = {}
    BY <1>1 DEF Init, ContactsWith, NoLog, Outcomes
  <2>3. Counter(camp, s) = 0
    BY DEF Init, NewDoc, Counter
  <2>4. Cardinality(JobsToCount(s)) = 0 /\ Cardinality(ContactsWith(s)) = 0
    BY <2>1, <2>2, FS_EmptySet
  <2> QED BY <2>3, <2>4 DEF Books
<1>2. ASSUME NEW j \in Jobs PROVE JobLogged(j)
  BY DEF Init, JobLogged, Open, OpenPc, BeforeMail, AuthPc
<1>3. \A c \in Contacts : log[c] = NoLog
  BY DEF Init
<1>4. SoloInv
  BY DEF Init, SoloInv, HandlerOk, Preparing, Dispatching, Idle, Procs
<1> QED BY <1>1, <1>2, <1>3, <1>4 DEF LedgerInv, NoLog

\* The books, with all that they rest on.
LEMMA LedgerInvariant == Orderly /\ OneRequest => (Spec => [](TypeOK /\ MailInv /\ TruthInv /\ LedgerInv))
<1> SUFFICES ASSUME Orderly, OneRequest PROVE Spec => [](TypeOK /\ MailInv /\ TruthInv /\ LedgerInv)
  OBVIOUS
<1>1. Unbroken
  BY DEF Orderly, Unbroken
<1>2. Init => BoundInv /\ TruthInv /\ LedgerInv /\ SoloInv
  BY TruthInit, LedgerInit
<1>3. TypeOK /\ TypeOK' /\ MailInv /\ RunInv /\ (BoundInv /\ TruthInv /\ LedgerInv /\ SoloInv) /\ [Next]_vars
        => (BoundInv /\ TruthInv /\ LedgerInv /\ SoloInv)'
  BY <1>1, BoundStep, TruthStep, LedgerStep
<1> QED BY <1>2, <1>3, RunInvariant, PTL DEF Spec

\* The counters of the campaign are the numbers of its SendLogs, except for the jobs that have
\* written their log and are about to count it, over all retries, pauses and restarts.
THEOREM CountersAreTrue == Orderly /\ OneRequest => (Spec => []CountersMatchLogs)
<1> SUFFICES ASSUME Orderly, OneRequest PROVE Spec => []CountersMatchLogs
  OBVIOUS
<1>1. LedgerInv => CountersMatchLogs
  <2> SUFFICES ASSUME LedgerInv, Whole
               PROVE  /\ camp.sent + JobsAt("sentStat") = LogsWith("sent")
                      /\ camp.failed + JobsAt("failStat") = LogsWith("failed")
                      /\ camp.bounced + JobsAt("bounceCount") = LogsWith("bounced")
    BY DEF CountersMatchLogs, Whole
  <2>1. Books("sent") /\ Books("failed") /\ Books("bounced")
    BY DEF LedgerInv, Outcomes
  <2> QED BY <2>1 DEF Books, Counter, JobsToCount, CountPc, ContactsWith, JobsAt, LogsWith
<1> QED BY <1>1, LedgerInvariant, PTL

\* A SendLog that says "pending" has a job that will say otherwise, or is about to be queued, or
\* to be deleted with the campaign: no contact of a dispatch is left behind.
THEOREM NobodyIsLeft == Orderly /\ OneRequest => (Spec => []NobodyLeftBehind)
<1> SUFFICES ASSUME Orderly, OneRequest PROVE Spec => []NobodyLeftBehind
  OBVIOUS
<1>1. TypeOK /\ MailInv /\ TruthInv /\ LedgerInv => NobodyLeftBehind
  <2> SUFFICES ASSUME TypeOK, MailInv, TruthInv, LedgerInv, LogsComplete, NEW c \in Contacts, log[c].status = "pending"
               PROVE  \/ ~Ended(<<c, log[c].run>>) \/ AboutToQueue(<<c, log[c].run>>)
                      \/ \E p \in Procs : proc[p].op = "remove" /\ Step(p, "wipe")
    BY DEF NobodyLeftBehind
  <2>1. <<c, log[c].run>> \in Jobs
    BY DEF TruthInv, LogOk, Jobs, NoLog
  <2>2. Whole
    BY DEF LedgerInv, NoLog
  <2>3. Awaited(c)
    BY <2>2 DEF LedgerInv
  <2>4. Open(<<c, log[c].run>>) => ~Ended(<<c, log[c].run>>)
    BY <2>1, EndedIsClosed
  <2> QED BY <2>3, <2>4 DEF Awaited, Step
<1> QED BY <1>1, LedgerInvariant, PTL
=============================================================================
