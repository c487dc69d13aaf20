--------------------------- MODULE CampaignState ---------------------------
(***************************************************************************)
(* The state one campaign lives in: its MongoDB document, its SendLogs,    *)
(* its jobs in the BullMQ "email-sending" queue, its entry in the          *)
(* "campaign-scheduler" queue, the SMTP server it sends through, and the   *)
(* local variables of the processes that work on it (the HTTP requests,    *)
(* the scheduler worker, the e-mail workers, the bounce webhooks).         *)
(*                                                                         *)
(* A job is a pair <<contact, run>>: every start of the campaign wipes the *)
(* SendLogs and creates new ones, so that a SendLog (and the job named     *)
(* after it) belongs to one dispatch of one contact.                       *)
(***************************************************************************)
EXTENDS Naturals, FiniteSets

CONSTANTS Contacts,      \* the contacts the campaign's lists may select
          Requests,      \* HTTP requests that may be in progress at once
          Hooks,         \* bounce webhook calls that may be in progress at once
          Operations,    \* which campaign operations the requests ask for
          Environment,   \* which outside events may happen
          Concurrency,   \* jobs that the e-mail workers process at once
          BatchSize,     \* DISPATCH_BATCH_SIZE
          MaxAttempts,   \* attempts of a job (3 in email.queue.ts)
          MaxErrors,     \* CAMPAIGN_MAX_ERRORS
          MaxStalled,    \* stalls BullMQ forgives a job (maxStalledCount, 1)
          MaxRuns,       \* bound: starts that succeed
          MaxStalls,     \* bound: worker crashes per job
          MaxVersions,   \* bound: version numbers of documents
          MaxHooks       \* bound: webhook calls over a behaviour

Scheduler == "scheduler"
Procs == Requests \cup {Scheduler}

AllOperations == {"start", "pause", "resume", "schedule", "unschedule", "edit", "remove"}
AllEvents == {"audience", "smtp", "webhook", "crash", "fault"}

ASSUME SizesAssumption ==
    /\ IsFiniteSet(Contacts) /\ IsFiniteSet(Requests) /\ IsFiniteSet(Hooks)
    /\ Scheduler \notin Requests
    /\ Operations \subseteq AllOperations
    /\ Environment \subseteq AllEvents
ASSUME BoundsAssumption ==
    /\ {Concurrency, BatchSize, MaxAttempts, MaxErrors} \subseteq Nat \ {0}
    /\ {MaxStalled, MaxRuns, MaxStalls, MaxVersions, MaxHooks} \subseteq Nat

Runs == 1..MaxRuns
Jobs == Contacts \X Runs

VARIABLES
    camp,      \* the Campaign document
    log,       \* the SendLog of each contact (the unique index allows one)
    eligible,  \* contacts the recipient query selects now
    smtp,      \* the SmtpSettings document
    queue,     \* BullMQ state of each job
    attempts,  \* attemptsMade of each job
    waited,    \* job.data.pausedSince: unset, set, or older than MAX_PAUSE_WAIT_MS
    pc,        \* where the worker that holds the job is
    cred,      \* the SmtpSettings the worker loaded
    seen,      \* the SendLog processBounce loaded for the job
    stalls,    \* times the job was left active by a dead worker
    sched,     \* BullMQ state of the job schedule-<campaignId>
    proc,      \* local state of requests and of the scheduler worker
    hook,      \* local state of the bounce webhooks
    hooksLeft, \* webhook calls still to come (bound)
    mails,     \* history: messages the SMTP server accepted, per job
    late       \* history: messages accepted since the campaign was last paused or removed

workVars == <<queue, attempts, waited, pc, cred, seen, stalls, mails>>
apiVars  == <<sched, proc>>
hookVars == <<hook, hooksLeft>>
vars     == <<camp, log, eligible, smtp, workVars, apiVars, hookVars, late>>
-----------------------------------------------------------------------------
(* Types. *)

CampaignStatus == {"draft", "scheduled", "queued", "sending", "paused", "completed", "failed"}

\* A document: `run` stands for startedAt, `ver` for Mongoose's __v. A deleted
\* document has status "gone".
CampaignDoc == [status: CampaignStatus \cup {"gone"}, sent: Nat, failed: Nat,
                bounced: Nat, total: Nat, ver: Nat, run: Nat]

\* SendLogs as dispatch, worker and bounce see them: opens, clicks and
\* unsubscriptions do not touch the state of this module.
LogStatus == {"none", "pending", "sent", "failed", "bounced"}
NoLog == [run |-> 0, status |-> "none"]
Log == [run: Nat, status: LogStatus]

SmtpDoc == [ver: Nat, ok: BOOLEAN, gone: BOOLEAN]

QueueState == {"none", "waiting", "active", "completed", "failed", "removed"}

FailPc   == {"failLog", "failStat", "failFinal", "failPause"}
BookPc   == {"sentLog", "sentStat", "sentFinal"}
BouncePc == {"bounceFind", "bounceMark", "bounceCount", "bounceFinal", "bouncePause"}
AuthPc   == {"authCheck", "authPause"}
BeforeMail == {"got", "cleared", "sending"}
WorkerPc == {"idle", "dead"} \cup BeforeMail \cup FailPc \cup BookPc \cup BouncePc \cup AuthPc

StartStep == {"count", "wipe", "save", "dispatch", "enqueue", "catch"}
ProcStep  == {"idle"} \cup StartStep
             \cup {"cancel", "add", "drain", "delete"}

Proc == [op: Operations \cup {"start", "none"}, step: ProcStep, doc: CampaignDoc,
         total: Nat, queued: Nat, run: Nat, todo: SUBSET Contacts, batch: SUBSET Contacts]

IdleHook == [step |-> "idle", contact |-> "none", seen |-> NoLog]
Hook == [step: {"find", "mark", "count"}, contact: Contacts, seen: Log] \cup {IdleHook}

-----------------------------------------------------------------------------
(* Initial values: a draft that has never been started. *)

NewDoc == [status |-> "draft", sent |-> 0, failed |-> 0, bounced |-> 0,
           total |-> 0, ver |-> 0, run |-> 0]

Idle == [op |-> "none", step |-> "idle", doc |-> NewDoc, total |-> 0, queued |-> 0,
         run |-> 0, todo |-> {}, batch |-> {}]

Init ==
    /\ camp = NewDoc
    /\ log = [c \in Contacts |-> NoLog]
    /\ eligible \in IF "audience" \in Environment THEN SUBSET Contacts ELSE {Contacts}
    /\ smtp = [ver |-> 0, ok |-> TRUE, gone |-> FALSE]
    /\ queue = [j \in Jobs |-> "none"]
    /\ attempts = [j \in Jobs |-> 0]
    /\ waited = [j \in Jobs |-> "no"]
    /\ pc = [j \in Jobs |-> "idle"]
    /\ cred = [j \in Jobs |-> smtp]
    /\ seen = [j \in Jobs |-> NoLog]
    /\ stalls = [j \in Jobs |-> 0]
    /\ sched = "none"
    /\ proc = [p \in Procs |-> Idle]
    /\ hook = [h \in Hooks |-> IdleHook]
    /\ hooksLeft = MaxHooks
    /\ mails = [j \in Jobs |-> 0]
    /\ late = 0

-----------------------------------------------------------------------------
(* Database operations shared by several handlers. *)

Exists == camp.status # "gone"

\* A Campaign.updateOne that finds no document changes nothing.
Increment(field) == IF Exists THEN [camp EXCEPT ![field] = @ + 1] ELSE camp

Accounted(d) == d.sent + d.failed + d.bounced

\* Mutant: the campaign is completed one send too early.
FinalizedEarly == IF camp.status = "sending" /\ Accounted(camp) + 1 >= camp.total
                  THEN [camp EXCEPT !.status = "completed"] ELSE camp
\* Mutant: the last send does not complete the campaign.
FinalizedNever == IF camp.status = "sending" /\ Accounted(camp) > camp.total
                  THEN [camp EXCEPT !.status = "completed"] ELSE camp

\* finalizeIfDone: one conditional update.
Finalized == IF camp.status = "sending" /\ Accounted(camp) >= camp.total
             THEN [camp EXCEPT !.status = "completed"] ELSE camp

\* Mutant: one error more than the limit is tolerated.
AutoPausedLate == IF camp.status = "sending" /\ camp.failed + camp.bounced > MaxErrors
                  THEN [camp EXCEPT !.status = "paused"] ELSE camp

\* autoPauseIfTooManyErrors: one conditional update.
AutoPaused == IF camp.status = "sending" /\ camp.failed + camp.bounced >= MaxErrors
              THEN [camp EXCEPT !.status = "paused"] ELSE camp

\* SendLog.updateOne({_id}): the log of this very job, if nobody deleted it.
LogSet(j, s) == IF log[j[1]].run = j[2] THEN [log EXCEPT ![j[1]].status = s] ELSE log

Pending(j) == queue[j] \in {"waiting", "active"}
\* Jobs that occupy a slot of a living worker.
HeldJobs == {j \in Jobs : queue[j] = "active" /\ pc[j] # "dead"}
=============================================================================
