---------------------------- MODULE Verification ----------------------------
(***************************************************************************)
(* Mailbox verification (services/emailVerification.service.ts, run by     *)
(* queue/verification.worker.ts): single addresses, and whole lists that   *)
(* the provider checks on its own while the worker advances a document of  *)
(* VerificationJob step by step (upload, poll, apply), each step a BullMQ  *)
(* job.  One tenant, one list, one month of its quota; one action per      *)
(* round trip to MongoDB, Redis or the provider.                           *)
(***************************************************************************)
EXTENDS Integers, FiniteSetsExt, TLC

CONSTANTS Contacts,      \* contacts that may be in the list
          Requests,      \* POST /lists/:id/verification; a document has its request's name
          Singles,       \* verifications of one address
          MonthlyLimit,  \* EMAIL_VERIFY_MONTHLY_LIMIT, 0: none
          Concurrency,   \* EMAIL_VERIFY_WORKER_CONCURRENCY
          MaxRetries,    \* MAX_TRANSIENT_RETRIES
          MaxPolls,      \* MAX_VERIFYING_MS, in answers "processing"
          MaxTasks,      \* bound: BullMQ jobs kept at once
          MaxEvents      \* bound: calls, contacts that join or leave, crashes, faults, and
                         \* answers of the provider other than success

ASSUME VerificationAssumption ==
    /\ IsFiniteSet(Contacts) /\ IsFiniteSet(Requests) /\ IsFiniteSet(Singles)
    /\ Requests \cap Singles = {} /\ MonthlyLimit \in Nat

VARIABLES
    pending,   \* pendingQuery: active contacts of the list without a recent verification
    vjob,      \* the documents: status, reserved, the list at the provider
    used,      \* Redis: the month's counter
    task,      \* BullMQ: jobs with the memory of the step that runs them
    uploads,   \* BullMQ: job ids of uploads ever added (and what keeps them unique)
    caller,    \* where each request and single verification is, and its pending count
    inconclusive, \* provider: the addresses it reaches no verdict on
    listed,    \* provider: the lists it keeps
    polls,     \* answers "processing" since the upload: the clock of the 24 hours
    accepted,  \* history: lists the provider accepted for a document
    billed,    \* history: addresses the provider charges for
    unanswered, \* history: single addresses it charged for without the answer arriving
    checked,   \* history: contacts whose verification a document has written
    joined, left,  \* history: contacts that came under pendingQuery, that went from it
    refused,   \* history: uploads the provider refused for the rate of requests
    troubles,  \* history: crashes and failures of MongoDB
    events     \* what has happened from outside (bound)

docVars == <<vjob, polls>>
jobVars == <<task, uploads>>
envVars == <<pending, joined, left, inconclusive>>
provider == <<listed, accepted, billed, unanswered>>
vars == <<pending, vjob, used, task, uploads, caller, inconclusive, listed, polls, accepted, billed,
          unanswered, checked, joined, left, refused, troubles, events>>

Active == {"queued", "uploading", "verifying", "applying"}
Ended  == {"done", "failed"}
Steps  == {"upload", "poll", "apply"}
Callers == Requests \cup Singles
Tasks == 1..MaxTasks
CallerPc == {"idle", "count", "reserve", "undo", "create", "enqueue", "ask", "release", "end"}
TaskPc == {"idle", "waiting", "saveUploading", "read", "releaseUnused", "upload", "saveEmpty",
           "saveQueued", "retry", "giveBack", "fail", "saveVerifying", "enqueuePoll", "progress",
           "refund", "saveApplying", "enqueueApply", "download", "write", "releaseUnknown",
           "saveDone", "deleteList", "finish", "listener"}

NoDoc  == [status |-> "none", reserved |-> 0, batch |-> {}]
NoTask == [pc |-> "idle", v |-> "none", step |-> "upload", attempt |-> 0, doc |-> NoDoc,
           left |-> {}, stalled |-> FALSE]

Init ==
    /\ pending = Contacts /\ inconclusive \in SUBSET Contacts
    /\ vjob = [r \in Requests |-> NoDoc]
    /\ used = 0
    /\ task = [t \in Tasks |-> NoTask]
    /\ uploads = {}
    /\ caller = [c \in Callers |-> [pc |-> "idle", amount |-> 0]]
    /\ listed = {}
    /\ polls = [r \in Requests |-> 0]
    /\ accepted = [r \in Requests |-> 0]
    /\ billed = 0 /\ unanswered = 0
    /\ checked = [r \in Requests |-> {}]
    /\ joined = 0 /\ left = 0 /\ refused = 0 /\ troubles = 0 /\ events = 0

At(t, w) == task[t].pc = w
Goto(t, w) == task' = [task EXCEPT ![t].pc = w]
CallerAt(c, w) == caller[c].pc = w
CallerGoto(c, w) == caller' = [caller EXCEPT ![c].pc = w]
KeepHistory == UNCHANGED <<checked, refused, troubles, events>>
KeepOthers == UNCHANGED <<checked, refused, troubles>>
Happens == events < MaxEvents /\ events' = events + 1

Waiting(v, step, attempt, stalled) ==
    [pc |-> "waiting", v |-> v, step |-> step, attempt |-> attempt, doc |-> NoDoc, left |-> {},
     stalled |-> stalled]

Finished(t) == [task EXCEPT ![t].pc = "finish"]

\* A new BullMQ job; the id of an upload is built from document and attempt, and an id
\* BullMQ knows is not added again.
Enqueue(tasks, v, step, attempt) ==
    LET new == Waiting(v, step, attempt, FALSE)
        free == {t \in Tasks : tasks[t].pc = "idle"} IN
    IF step = "upload" /\ <<v, attempt>> \in uploads THEN task' = tasks /\ UNCHANGED uploads
    ELSE /\ free # {}
         /\ task' = [tasks EXCEPT ![CHOOSE t \in free : TRUE] = new]
         /\ uploads' = IF step = "upload" THEN uploads \cup {<<v, attempt>>} ELSE uploads

-----------------------------------------------------------------------------
(* reserveQuota and releaseQuota.                                           *)
\* Mutant: an amount that does not fit is admitted if there was any room left.
OverLimitLate(n, amount) == MonthlyLimit # 0 /\ n - amount >= MonthlyLimit
OverLimit(n, amount) == MonthlyLimit # 0 /\ n > MonthlyLimit

Reserve(c, next) ==
    /\ CallerAt(c, "reserve")
    /\ used' = used + caller[c].amount
    /\ CallerGoto(c, IF OverLimit(used', caller[c].amount) THEN "undo" ELSE next)
    /\ UNCHANGED <<docVars, jobVars, envVars, provider>> /\ KeepHistory

UndoReserve(c) ==
    /\ CallerAt(c, "undo")
    /\ used' = used - caller[c].amount
    /\ CallerGoto(c, "end")
    /\ UNCHANGED <<docVars, jobVars, envVars, provider>> /\ KeepHistory

-----------------------------------------------------------------------------
(* verifySingle.  Without room, or when the request fails, the address goes *)
(* on unverified; an inconclusive answer is neither charged nor counted.  A *)
(* request that fails, the 15 seconds of its timeout included, is always    *)
(* given back, charged or not.                                              *)
AskSingle(c) ==
    /\ CallerAt(c, "idle") /\ Happens
    /\ \/ caller' = [caller EXCEPT ![c] = [pc |-> "reserve", amount |-> 1]]
       \/ CallerGoto(c, "end") \* disabled, or the rate of the second is used up
    /\ UNCHANGED <<used, docVars, jobVars, envVars, provider>> /\ KeepOthers

VerifySingle(c) ==
    /\ CallerAt(c, "ask")
    /\ \/ CallerGoto(c, "release") /\ UNCHANGED <<billed, unanswered, events>>
       \/ CallerGoto(c, "end") /\ billed' = billed + 1 /\ UNCHANGED <<unanswered, events>>
       \/ /\ CallerGoto(c, "release") /\ Happens
          /\ billed' = billed + 1 /\ unanswered' = unanswered + 1
    /\ UNCHANGED <<used, docVars, jobVars, envVars, listed, accepted>> /\ KeepOthers

ReleaseSingle(c) ==
    /\ CallerAt(c, "release")
    /\ used' = used - 1
    /\ CallerGoto(c, "end")
    /\ UNCHANGED <<docVars, jobVars, envVars, provider>> /\ KeepHistory

SingleStep(c) ==
    \/ AskSingle(c) \/ Reserve(c, "ask") \/ UndoReserve(c) \/ VerifySingle(c) \/ ReleaseSingle(c)

-----------------------------------------------------------------------------
(* startListVerification.                                                   *)
CheckRunning(r) ==
    /\ CallerAt(r, "idle") /\ Happens
    /\ CallerGoto(r, IF \E o \in Requests : vjob[o].status \in Active THEN "end" ELSE "count")
    /\ UNCHANGED <<used, docVars, jobVars, envVars, provider>> /\ KeepOthers

CountPending(r) ==
    /\ CallerAt(r, "count")
    /\ caller' = [caller EXCEPT ![r] = [pc |-> IF pending = {} THEN "end" ELSE "reserve",
                                       amount |-> Cardinality(pending)]]
    /\ UNCHANGED <<used, docVars, jobVars, envVars, provider>> /\ KeepHistory

CreateJob(r) ==
    /\ CallerAt(r, "create")
    /\ vjob' = [vjob EXCEPT ![r] = [status |-> "queued", reserved |-> caller[r].amount, batch |-> {}]]
    /\ CallerGoto(r, "enqueue")
    /\ UNCHANGED <<used, polls, jobVars, envVars, provider>> /\ KeepHistory

EnqueueUpload(r) ==
    /\ CallerAt(r, "enqueue")
    /\ Enqueue(task, r, "upload", 0)
    /\ CallerGoto(r, "end")
    /\ UNCHANGED <<used, docVars, envVars, provider>> /\ KeepHistory

RequestStep(r) ==
    \/ CheckRunning(r) \/ CountPending(r) \/ Reserve(r, "create") \/ UndoReserve(r)
    \/ CreateJob(r) \/ EnqueueUpload(r)

-----------------------------------------------------------------------------
(* The worker: findById and the check of the status, then one step.         *)
Running == {t \in Tasks : task[t].pc \notin {"idle", "waiting"}}

\* Mutant: an upload that was interrupted starts over.
FirstPcAgain(step, status) ==
    CASE step = "upload" /\ status \in {"queued", "uploading"} -> "saveUploading"
      [] step = "poll" /\ status = "verifying" -> "progress"
      [] step = "apply" /\ status = "applying" -> "download"
      [] OTHER -> "finish"

FirstPc(step, status) ==
    CASE step = "upload" /\ status = "uploading" -> "fail"
      [] step = "upload" /\ status = "queued" -> "saveUploading"
      [] step = "poll" /\ status = "verifying" -> "progress"
      [] step = "apply" /\ status = "applying" -> "download"
      [] OTHER -> "finish"

TakeStep(t) ==
    /\ At(t, "waiting") /\ Cardinality(Running) < Concurrency
    /\ LET doc == vjob[task[t].v] IN
       task' = [task EXCEPT ![t].doc = doc, ![t].pc = FirstPc(task[t].step, doc.status)]
    /\ UNCHANGED <<used, uploads, caller, docVars, envVars, provider>> /\ KeepHistory

Finish(t) ==
    /\ At(t, "finish")
    /\ task' = [task EXCEPT ![t] = NoTask]
    /\ UNCHANGED <<used, uploads, caller, docVars, envVars, provider>> /\ KeepHistory

\* save: the paths the step has set, in the document and in the memory of the step.
With(doc, fields) == [f \in DOMAIN doc |-> IF f \in DOMAIN fields THEN fields[f] ELSE doc[f]]
Save(t, fields, next) ==
    /\ task' = [task EXCEPT ![t].doc = With(@, fields), ![t].pc = next]
    /\ vjob' = [vjob EXCEPT ![task[t].v] = With(@, fields)]
    /\ UNCHANGED <<used, uploads, caller, polls, envVars, provider>> /\ KeepHistory

\* releaseQuota, then the next step.
Release(t, amount, next) ==
    /\ used' = used - amount
    /\ Goto(t, next)
    /\ UNCHANGED <<uploads, caller, docVars, envVars, provider>> /\ KeepHistory

\* handleStepError: the next attempt, or the end; an upload that may have reached the
\* provider is not repeated, and what did not reach it is given back.
AfterError(task_, transient) ==
    LET unsure == task_.step = "upload" /\ task_.doc.status = "uploading" IN
    IF transient /\ ~unsure /\ task_.attempt < MaxRetries THEN "retry"
    ELSE IF task_.doc.status = "queued" THEN "giveBack" ELSE "fail"

\* Mutant: the next attempt is logged and not added.
RetryForgets(t) ==
    /\ At(t, "retry") /\ Goto(t, "finish")
    /\ UNCHANGED <<used, uploads, caller, docVars, envVars, provider>> /\ KeepHistory

Retry(t) ==
    /\ At(t, "retry")
    /\ Enqueue(Finished(t), task[t].v, task[t].step, task[t].attempt + 1)
    /\ UNCHANGED <<used, caller, docVars, envVars, provider>> /\ KeepHistory

GiveBack(t) ==
    /\ At(t, "giveBack")
    /\ used' = used - task[t].doc.reserved
    /\ task' = [task EXCEPT ![t].pc = "fail", ![t].doc = With(@, [reserved |-> 0])]
    /\ UNCHANGED <<uploads, caller, docVars, envVars, provider>> /\ KeepHistory

Fail(t) ==
    /\ At(t, "fail")
    /\ Save(t, [status |-> "failed", reserved |-> IF task[t].doc.reserved = 0 THEN 0
                                                  ELSE vjob[task[t].v].reserved], "finish")
-----------------------------------------------------------------------------
(* upload.                                                                  *)
SaveUploading(t) == At(t, "saveUploading") /\ Save(t, [status |-> "uploading"], "read")

Unused(t) == task[t].doc.reserved - Cardinality(task[t].doc.batch)
AfterRead(batch) == IF batch = {} THEN "saveEmpty" ELSE "upload"

ReadPending(t) ==
    /\ At(t, "read")
    /\ task' = [task EXCEPT ![t].doc = With(@, [batch |-> pending]),
                            ![t].pc = IF task[t].doc.reserved > Cardinality(pending)
                                      THEN "releaseUnused" ELSE AfterRead(pending)]
    /\ UNCHANGED <<used, uploads, caller, docVars, envVars, provider>> /\ KeepHistory

ReleaseUnused(t) == At(t, "releaseUnused") /\ Release(t, Unused(t), AfterRead(task[t].doc.batch))

SaveEmpty(t) == At(t, "saveEmpty") /\ Save(t, [status |-> "done", reserved |-> 0, batch |-> {}], "finish")

Billable(batch) == Cardinality(batch \ inconclusive)

\* Accepted, with or without the answer reaching the worker; refused for the rate of
\* requests, which leaves the memory with the status "queued"; refused otherwise.
UploadList(t) ==
    LET v == task[t].v
        accept == /\ accepted' = [accepted EXCEPT ![v] = @ + 1]
                  /\ billed' = billed + Billable(task[t].doc.batch)
                  /\ listed' = listed \cup {v}
                  /\ UNCHANGED unanswered IN
    /\ At(t, "upload")
    /\ \/ accept /\ Goto(t, "saveVerifying") /\ UNCHANGED <<refused, events>>
       \/ accept /\ Goto(t, AfterError(task[t], TRUE)) /\ Happens /\ UNCHANGED refused
       \/ Goto(t, AfterError(task[t], FALSE)) /\ Happens /\ UNCHANGED <<provider, refused>>
       \/ /\ task' = [task EXCEPT ![t].doc = With(@, [status |-> "queued"]), ![t].pc = "saveQueued"]
          /\ refused' = refused + 1 /\ Happens
          /\ UNCHANGED provider
    /\ UNCHANGED <<used, uploads, caller, docVars, envVars, checked, troubles>>

SaveQueued(t) ==
    At(t, "saveQueued") /\ Save(t, [status |-> "queued"], AfterError(task[t], TRUE))

SaveVerifying(t) ==
    LET batch == task[t].doc.batch IN
    /\ At(t, "saveVerifying")
    /\ Save(t, [status |-> "verifying", reserved |-> Cardinality(batch), batch |-> batch], "enqueuePoll")

EnqueuePoll(t) ==
    /\ At(t, "enqueuePoll")
    /\ Enqueue(Finished(t), task[t].v, "poll", 0)
    /\ UNCHANGED <<used, caller, docVars, envVars, provider>> /\ KeepHistory
-----------------------------------------------------------------------------
\* The provider does not answer, or refuses: always, of a list it no longer has.
RequestFails(t) ==
    /\ IF task[t].v \in listed THEN Happens ELSE UNCHANGED events
    /\ \E transient \in BOOLEAN : Goto(t, AfterError(task[t], transient))

(* poll.  A list that failed at the provider is not charged.                *)
GetProgress(t) ==
    LET v == task[t].v IN
    /\ At(t, "progress")
    /\ \/ /\ v \in listed /\ Happens
          /\ billed' = billed - Billable(task[t].doc.batch)
          /\ listed' = listed \ {v}
          /\ Goto(t, "refund") /\ UNCHANGED polls
       \/ v \in listed /\ Goto(t, "saveApplying") /\ UNCHANGED <<billed, listed, polls, events>>
       \/ /\ v \in listed /\ Happens
          /\ Goto(t, IF polls[v] < MaxPolls THEN "enqueuePoll" ELSE "fail")
          /\ polls' = [polls EXCEPT ![v] = IF @ < MaxPolls THEN @ + 1 ELSE @]
          /\ UNCHANGED <<billed, listed>>
       \/ RequestFails(t) /\ UNCHANGED <<billed, listed, polls>>
    /\ UNCHANGED <<used, uploads, caller, vjob, envVars, accepted, unanswered>> /\ KeepOthers

Refund(t) ==
    /\ At(t, "refund")
    /\ used' = used - task[t].doc.reserved
    /\ task' = [task EXCEPT ![t].pc = "fail", ![t].doc = With(@, [reserved |-> 0])]
    /\ UNCHANGED <<uploads, caller, docVars, envVars, provider>> /\ KeepHistory

SaveApplying(t) == At(t, "saveApplying") /\ Save(t, [status |-> "applying"], "enqueueApply")

EnqueueApply(t) ==
    /\ At(t, "enqueueApply")
    /\ Enqueue(Finished(t), task[t].v, "apply", 0)
    /\ UNCHANGED <<used, caller, docVars, envVars, provider>> /\ KeepHistory
-----------------------------------------------------------------------------
(* apply.  Rows are written in batches of APPLY_BATCH, here of one.         *)
Download(t) ==
    /\ At(t, "download")
    /\ \/ /\ task[t].v \in listed
          /\ task' = [task EXCEPT ![t].pc = "write", ![t].left = task[t].doc.batch]
          /\ UNCHANGED events
       \/ RequestFails(t)
    /\ UNCHANGED <<used, uploads, caller, docVars, envVars, provider>> /\ KeepOthers

\* Mutant: the inconclusive answers stay counted.
AfterWriteKeeping(t) == "saveDone"

AfterWrite(t) == IF task[t].doc.batch \cap inconclusive # {} THEN "releaseUnknown" ELSE "saveDone"

\* Mutant: the flush after the last batch is missing.
WriteAllButLast(t) ==
    \E c \in task[t].left :
        LET last == task[t].left = {c} IN
        /\ task' = [task EXCEPT ![t].left = @ \ {c}, ![t].pc = IF last THEN AfterWrite(t) ELSE @]
        /\ pending' = IF last THEN pending ELSE pending \ {c}
        /\ UNCHANGED left
        /\ checked' = IF last THEN checked ELSE [checked EXCEPT ![task[t].v] = @ \cup {c}]

WriteRows(t) ==
    \E c \in task[t].left :
        /\ task' = [task EXCEPT ![t].left = @ \ {c},
                                ![t].pc = IF task[t].left = {c} THEN AfterWrite(t) ELSE @]
        /\ pending' = pending \ {c}
        /\ left' = IF c \in pending THEN left + 1 ELSE left
        /\ checked' = [checked EXCEPT ![task[t].v] = @ \cup {c}]

\* The download may break off in the middle.
Write(t) ==
    /\ At(t, "write")
    /\ \/ WriteRows(t) /\ UNCHANGED events
       \/ Goto(t, AfterError(task[t], FALSE)) /\ Happens /\ UNCHANGED <<pending, left, checked>>
    /\ UNCHANGED <<used, uploads, caller, docVars, provider, inconclusive, joined, refused, troubles>>

ReleaseUnknown(t) ==
    /\ At(t, "releaseUnknown")
    /\ Release(t, Cardinality(task[t].doc.batch \cap inconclusive), "saveDone")

SaveDone(t) == At(t, "saveDone") /\ Save(t, [status |-> "done"], "deleteList")

\* Best effort.
DeleteList(t) ==
    /\ At(t, "deleteList")
    /\ listed' \in {listed, listed \ {task[t].v}}
    /\ Goto(t, "finish")
    /\ UNCHANGED <<used, uploads, caller, docVars, envVars, accepted, billed, unanswered>> /\ KeepHistory
-----------------------------------------------------------------------------
(* Failures.  A write that fails inside the step goes to handleStepError,   *)
(* one that fails there goes to the 'failed' listener.                      *)
TryPc == {"saveUploading", "read", "saveEmpty", "saveQueued", "saveVerifying", "enqueuePoll",
          "saveApplying", "enqueueApply", "write", "saveDone"}

Trouble == Happens /\ troubles' = troubles + 1

\* What the save that fails leaves changed in the memory of the step, if it matters after.
Unsaved(pc) ==
    CASE pc = "saveUploading" -> [status |-> "uploading"]
      [] pc = "saveEmpty" -> [status |-> "done", reserved |-> 0]
      [] OTHER -> << >>

MongoFault(t) ==
    /\ Trouble
    /\ \/ LET doc == With(task[t].doc, Unsaved(task[t].pc)) IN
          /\ task[t].pc \in TryPc
          /\ task' = [task EXCEPT ![t].doc = doc,
                                  ![t].pc = AfterError([task[t] EXCEPT !.doc = doc], FALSE)]
       \/ task[t].pc \in {"fail", "retry"} /\ Goto(t, "listener")
    /\ UNCHANGED <<used, uploads, caller, docVars, envVars, provider, checked, refused>>

\* markFailed, from the listener of the worker.
MarkFailed(t) ==
    LET v == task[t].v IN
    /\ At(t, "listener")
    /\ vjob' = [vjob EXCEPT ![v].status = IF @ \in Active THEN "failed" ELSE @]
    /\ Goto(t, "finish")
    /\ UNCHANGED <<used, uploads, caller, polls, envVars, provider>> /\ KeepHistory

\* BullMQ gives the job of a dead worker to another one, once.
WorkerDies(t) ==
    /\ Trouble /\ t \in Running
    /\ task' = IF task[t].stalled THEN [task EXCEPT ![t].pc = "listener"]
               ELSE [task EXCEPT ![t] = Waiting(@.v, @.step, @.attempt, TRUE)]
    /\ UNCHANGED <<used, uploads, caller, docVars, envVars, provider, checked, refused>>

CallerDies(c) ==
    /\ Trouble /\ caller[c].pc \notin {"idle", "end"}
    /\ CallerGoto(c, "end")
    /\ UNCHANGED <<used, docVars, jobVars, envVars, provider, checked, refused>>

-----------------------------------------------------------------------------
(* Contacts join the list, leave it, or are verified elsewhere.             *)
Join(c) ==
    /\ Happens /\ c \notin pending
    /\ pending' = pending \cup {c} /\ joined' = joined + 1
    /\ UNCHANGED <<left, inconclusive, used, caller, docVars, jobVars, provider>> /\ KeepOthers

Leave(c) ==
    /\ Happens /\ c \in pending
    /\ pending' = pending \ {c} /\ left' = left + 1
    /\ UNCHANGED <<joined, inconclusive, used, caller, docVars, jobVars, provider>> /\ KeepOthers

WorkerStep(t) ==
    \/ TakeStep(t) \/ Finish(t) \/ Retry(t) \/ GiveBack(t) \/ Fail(t)
    \/ SaveUploading(t) \/ ReadPending(t) \/ ReleaseUnused(t) \/ SaveEmpty(t) \/ UploadList(t)
    \/ SaveQueued(t) \/ SaveVerifying(t) \/ EnqueuePoll(t)
    \/ GetProgress(t) \/ Refund(t) \/ SaveApplying(t) \/ EnqueueApply(t)
    \/ Download(t) \/ Write(t) \/ ReleaseUnknown(t) \/ SaveDone(t) \/ DeleteList(t) \/ MarkFailed(t)

Next ==
    \/ \E c \in Singles : SingleStep(c)
    \/ \E r \in Requests : RequestStep(r)
    \/ \E t \in Tasks : WorkerStep(t) \/ MongoFault(t) \/ WorkerDies(t)
    \/ \E c \in Callers : CallerDies(c)
    \/ \E c \in Contacts : Join(c) \/ Leave(c)

WorkerSteps == \E t \in Tasks : WorkerStep(t)
RequestSteps == \E r \in Requests : RequestStep(r)

Spec == Init /\ [][Next]_vars /\ WF_vars(WorkerSteps) /\ WF_vars(RequestSteps)
-----------------------------------------------------------------------------
TypeOK ==
    /\ pending \subseteq Contacts /\ used \in Int
    /\ vjob \in [Requests -> [status : {"none"} \cup Active \cup Ended, reserved : Nat, batch : SUBSET Contacts]]
    /\ \A t \in Tasks : task[t].pc \in TaskPc /\ task[t].step \in Steps /\ task[t].attempt \in 0..MaxRetries
    /\ \A c \in Callers : caller[c].pc \in CallerPc /\ caller[c].amount \in 0..Cardinality(Contacts)
    /\ listed \subseteq Requests /\ inconclusive \subseteq Contacts

\* "Cada cliente tem uma cota mensal": the provider charges no more than it, beyond the
\* contacts that joined between the count of a document and its upload, those that left
\* and that each repeated upload gives back again (reserved is not lowered), and the single
\* addresses whose answer was lost after the charge.  Crashes aside.
BilledWithinQuota ==
    MonthlyLimit # 0 /\ troubles = 0 =>
        billed <= MonthlyLimit + joined * Cardinality(Requests) + left * refused + unanswered

\* "Reenviar cobraria de novo": the provider accepts a document's list once, whatever
\* times out, crashes or is refused; only a crash and a refusal together may repeat it.
UploadedOnce == troubles = 0 \/ refused = 0 => \A r \in Requests : accepted[r] <= 1

\* "Idempotente": a document that says done has written the verdict of every address of
\* its list, after crashes, second deliveries and downloads that broke off (a crash and a
\* refused upload together aside: see UploadedOnce).
DoneMeansApplied ==
    troubles = 0 \/ refused = 0 =>
        \A r \in Requests : vjob[r].status = "done" => vjob[r].batch \subseteq checked[r]

\* At rest the counter covers what was charged, less exactly the single addresses whose
\* answer was lost, and holds no more than that and the reservations of lists that failed
\* with their fate unknown.  Crashes and joins aside, and upload retries of a list that shrank.
AtRest == /\ \A c \in Callers : caller[c].pc \in {"idle", "end"}
          /\ \A t \in Tasks : At(t, "idle")
Kept(r) == IF vjob[r].status = "failed" THEN vjob[r].reserved ELSE 0
QuotaMatchesBilling ==
    AtRest /\ troubles = 0 /\ joined = 0 /\ (left = 0 \/ refused = 0) =>
        /\ billed <= used + unanswered
        /\ used + unanswered <= billed + MapThenSumSet(Kept, Requests)

\* "Sem isto ficaria 'verificando' para sempre": every document reaches an end, unless a
\* crash or a failing database stops its chain of jobs.
EveryVerificationEnds ==
    \A r \in Requests :
        vjob[r].status \in Active ~> vjob[r].status \in Ended \/ troubles # 0

\* "Só devolve a cota do que comprovadamente não chegou ao provedor": no more is given back
\* to the month's counter than was reserved from it.
GivesBackWhatItReserved == used >= 0
=============================================================================
