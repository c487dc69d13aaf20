---------------------------- MODULE FormWebhook ----------------------------
(***************************************************************************)
(* A form on the client's site answered by mail (form.webhook service,     *)
(* controller, queue and worker): each POST is counted against the hour,   *)
(* marked in Redis against repetition, stored as a FormSubmission and      *)
(* queued; a worker sends the template to who filled the form in.  One     *)
(* hook; one action per round trip.                                        *)
(***************************************************************************)
EXTENDS Integers, FiniteSets, TLC

CONSTANTS Posts,        \* POST requests; a post makes at most one submission
          Emails,       \* addresses that visitors type
          HourlyLimit,  \* hook.hourlyLimit
          Attempts,     \* attempts of a job
          Concurrency,  \* FORM_EMAIL_WORKER_CONCURRENCY
          MaxEvents     \* bound: crashes, faults, ticks and requests of the panel

ASSUME FormAssumption == IsFiniteSet(Posts)

VARIABLES
    hook,    \* FormWebhook: it exists, is active, has the address (token) visitors know; its stats
    sub,     \* FormSubmission of each post: its status
    used,    \* Redis: the counter of this hour
    window,  \* Redis: addresses whose key has not expired
    ended,   \* history: how often the key of an address has expired
    post,    \* each request: its step, its address, the answer; history: the window it opened
    job,     \* BullMQ: the job of each submission, its attemptsMade, and if it stalled
    work,    \* memory of the worker: step of each job
    admin,   \* step of the request of the panel
    mails,   \* messages the SMTP server accepted for each submission
    lost,    \* history: deliveries that broke off with a message accepted
    faults,  \* history: crashes and failures of MongoDB or Redis
    events   \* how many things have happened (bound)

visitors == <<used, window, ended, post>>
sending == <<job, work, mails, lost>>
vars == <<hook, sub, visitors, sending, admin, faults, events>>

NoEmail == "none"
SubStatus == {"none", "queued", "sent", "failed", "rejected", "removed"}
PostPc == {"new", "receive", "hour", "window", "create", "stats", "enqueue", "reject", "rejectStats", "answered"}
WorkPc == {"idle", "check", "reserve", "mailbox", "send", "save", "countSent", "fail", "countFailed", "failAfter", "countAfter"}
Answers == {"none", "queued", "duplicate", "rejected", "notFound", "error"}

Init ==
    /\ hook = [exists |-> TRUE, active |-> TRUE, known |-> TRUE, received |-> 0, sent |-> 0, failed |-> 0, rejected |-> 0]
    /\ sub = [p \in Posts |-> "none"]
    /\ used = 0 /\ window = {} /\ ended = [e \in Emails |-> 0]
    /\ post = [p \in Posts |-> [pc |-> "new", email |-> NoEmail, answer |-> "none", opened |-> -1]]
    /\ job = [p \in Posts |-> [state |-> "none", made |-> 0, stalled |-> FALSE]]
    /\ work = [p \in Posts |-> "idle"]
    /\ admin = "idle"
    /\ mails = [p \in Posts |-> 0] /\ lost = [p \in Posts |-> 0]
    /\ faults = 0 /\ events = 0

Happens == events < MaxEvents /\ events' = events + 1
calm == UNCHANGED <<faults, events>>
PostAt(p, w) == post[p].pc = w
PostTo(p, w) == post' = [post EXCEPT ![p].pc = w]
Answer(p, a) == post' = [post EXCEPT ![p].pc = "answered", ![p].answer = a]
WorkAt(p, w) == work[p] = w
WorkTo(p, w) == work' = [work EXCEPT ![p] = w]
JobState(p, s) == job' = [job EXCEPT ![p].state = s]
\* updateOne with $inc: a hook that is gone is not written.
Incremented(field) == IF hook.exists THEN [hook EXCEPT ![field] = @ + 1] ELSE hook
SubIs(p, s) == sub' = [sub EXCEPT ![p] = s]

-----------------------------------------------------------------------------
(* receive.  findByToken answers 404 to a token it does not know and to a   *)
(* hook that is off; a robot in the honeypot changes nothing.               *)
Arrive(p, e) ==
    /\ PostAt(p, "new")
    /\ post' = [post EXCEPT ![p] = IF hook.exists /\ hook.active /\ hook.known
                                   THEN [@ EXCEPT !.pc = "receive", !.email = e]
                                   ELSE [@ EXCEPT !.pc = "answered", !.answer = "notFound"]]
    /\ calm /\ UNCHANGED <<hook, sub, used, window, ended, sending, admin>>

Receive(p) ==
    /\ PostAt(p, "receive")
    /\ IF ~hook.exists THEN Answer(p, "notFound")
       ELSE PostTo(p, IF post[p].email = NoEmail THEN "reject" ELSE "hour")
    /\ calm /\ UNCHANGED <<hook, sub, used, window, ended, sending, admin>>

CountHour(p) ==
    /\ PostAt(p, "hour")
    /\ used' = used + 1
    /\ PostTo(p, IF used' <= HourlyLimit THEN "window" ELSE "reject")
    /\ calm /\ UNCHANGED <<hook, sub, window, ended, sending, admin>>

\* Mutant: the key is looked for, and left for later.
TakeWindowUnset(p) ==
    /\ PostAt(p, "window")
    /\ IF post[p].email \in window THEN Answer(p, "duplicate")
       ELSE post' = [post EXCEPT ![p].pc = "create", ![p].opened = ended[post[p].email]]
    /\ calm /\ UNCHANGED <<hook, sub, used, window, ended, sending, admin>>

\* firstInWindow: SET NX.
TakeWindow(p) ==
    /\ PostAt(p, "window")
    /\ IF post[p].email \in window THEN Answer(p, "duplicate") /\ UNCHANGED window
       ELSE /\ window' = window \cup {post[p].email}
            /\ post' = [post EXCEPT ![p].pc = "create", ![p].opened = ended[post[p].email]]
    /\ calm /\ UNCHANGED <<hook, sub, used, ended, sending, admin>>

CreateSubmission(p) ==
    /\ PostAt(p, "create") \/ PostAt(p, "reject")
    /\ SubIs(p, IF PostAt(p, "create") THEN "queued" ELSE "rejected")
    /\ PostTo(p, IF PostAt(p, "create") THEN "stats" ELSE "rejectStats")
    /\ calm /\ UNCHANGED <<hook, used, window, ended, sending, admin>>

\* Mutant: a rejected post is not counted as received.
CountReceivedAccepted(p) ==
    /\ PostAt(p, "stats") \/ PostAt(p, "rejectStats")
    /\ hook' = Incremented(IF PostAt(p, "stats") THEN "received" ELSE "rejected")
    /\ IF PostAt(p, "stats") THEN PostTo(p, "enqueue") ELSE Answer(p, "rejected")
    /\ calm /\ UNCHANGED <<sub, used, window, ended, sending, admin>>

CountReceived(p) ==
    /\ PostAt(p, "stats") \/ PostAt(p, "rejectStats")
    /\ hook' = IF PostAt(p, "rejectStats") /\ hook.exists
               THEN [hook EXCEPT !.received = @ + 1, !.rejected = @ + 1] ELSE Incremented("received")
    /\ IF PostAt(p, "stats") THEN PostTo(p, "enqueue") ELSE Answer(p, "rejected")
    /\ calm /\ UNCHANGED <<sub, used, window, ended, sending, admin>>

Enqueue(p) ==
    /\ PostAt(p, "enqueue")
    /\ JobState(p, "waiting")
    /\ Answer(p, "queued")
    /\ calm /\ UNCHANGED <<hook, sub, used, window, ended, work, mails, lost, admin>>

\* MongoDB or Redis fails, or the process dies: the visitor sees an error.
RequestFails(p) ==
    /\ post[p].pc \notin {"new", "answered"} /\ Happens
    /\ faults' = faults + 1
    /\ Answer(p, "error")
    /\ UNCHANGED <<hook, sub, used, window, ended, sending, admin>>

-----------------------------------------------------------------------------
(* The panel: save, regenerate, remove.                                     *)
SwitchActive ==
    /\ admin = "idle" /\ hook.exists /\ Happens
    /\ hook' = [hook EXCEPT !.active = ~@]
    /\ UNCHANGED <<sub, visitors, sending, admin, faults>>

\* The site still posts to the address it knew.
Regenerate ==
    /\ admin = "idle" /\ hook.exists /\ hook.known /\ Happens
    /\ hook' = [hook EXCEPT !.known = FALSE]
    /\ UNCHANGED <<sub, visitors, sending, admin, faults>>

RemoveSubmissions ==
    /\ admin = "idle" /\ hook.exists /\ Happens
    /\ sub' = [p \in Posts |-> IF sub[p] = "none" THEN "none" ELSE "removed"]
    /\ admin' = "remove"
    /\ UNCHANGED <<hook, visitors, sending, faults>>

RemoveHook ==
    /\ admin = "remove"
    /\ hook' = [hook EXCEPT !.exists = FALSE]
    /\ admin' = "idle"
    /\ calm /\ UNCHANGED <<sub, visitors, sending>>

-----------------------------------------------------------------------------
(* processFormEmail and deliver.                                            *)
Active == {p \in Posts : job[p].state = "active"}
Ends(p) == JobState(p, "done") /\ WorkTo(p, "idle")

TakeJob(p) ==
    /\ job[p].state = "waiting" /\ Cardinality(Active) < Concurrency
    /\ IF sub[p] # "queued" THEN JobState(p, "done") /\ UNCHANGED work
       ELSE JobState(p, "active") /\ WorkTo(p, "check")
    /\ calm /\ UNCHANGED <<hook, sub, visitors, admin, mails, lost>>

\* The hook and, by their answers: the template and its HTML, the bounce of the contact, the
\* domain, the server and its authenticated domain.
Check(p) ==
    /\ WorkAt(p, "check")
    /\ WorkTo(p, "fail") \/ (hook.exists /\ WorkTo(p, "reserve"))
    /\ calm /\ UNCHANGED <<hook, sub, visitors, admin, job, mails, lost>>

ReserveQuota(p) ==
    /\ WorkAt(p, "reserve")
    /\ WorkTo(p, "mailbox")
    /\ calm /\ UNCHANGED <<hook, sub, visitors, admin, job, mails, lost>>

\* Mutant: the job that was told to wait returns, and is done.
WaitForQuotaReturns(p) ==
    /\ WorkAt(p, "reserve") /\ Happens
    /\ Ends(p)
    /\ UNCHANGED <<hook, sub, visitors, admin, mails, lost, faults>>

\* No quota: the job waits for it, and the attempt does not count.
WaitForQuota(p) ==
    /\ WorkAt(p, "reserve") /\ Happens
    /\ WorkTo(p, "idle") /\ JobState(p, "waiting")
    /\ UNCHANGED <<hook, sub, visitors, admin, mails, lost, faults>>

\* mailboxProblem: the provider's verdict, or none; verifySingle does not throw.
Mailbox(p) ==
    /\ WorkAt(p, "mailbox")
    /\ WorkTo(p, "send") \/ WorkTo(p, "fail")
    /\ calm /\ UNCHANGED <<hook, sub, visitors, admin, job, mails, lost>>

\* What BullMQ does with a job that throws.
FailsAttempt(p) ==
    job' = [job EXCEPT ![p].state = IF job[p].made + 1 >= Attempts THEN "failed" ELSE "waiting", ![p].made = @ + 1]

\* The catch of processFormEmail: the last attempt, or a permanent refusal, ends the job as
\* done once the submission says failed; otherwise the job waits for its next attempt.
Throws(p, permanent) ==
    IF permanent \/ job[p].made + 1 >= Attempts THEN WorkTo(p, "failAfter") /\ UNCHANGED job
    ELSE WorkTo(p, "idle") /\ job' = [job EXCEPT ![p].state = "waiting", ![p].made = @ + 1]

Send(p) ==
    /\ WorkAt(p, "send")
    /\ \/ WorkTo(p, "save") /\ mails' = [mails EXCEPT ![p] = @ + 1] /\ UNCHANGED job
       \/ \E permanent \in BOOLEAN : Throws(p, permanent) /\ UNCHANGED mails
    /\ calm /\ UNCHANGED <<hook, sub, visitors, admin, lost>>

\* submission.save: one deleted meanwhile is not found, which throws.
SaveSent(p) ==
    /\ WorkAt(p, "save")
    /\ IF sub[p] = "removed" THEN Throws(p, FALSE) /\ UNCHANGED sub
       ELSE SubIs(p, "sent") /\ WorkTo(p, "countSent") /\ UNCHANGED job
    /\ calm /\ UNCHANGED <<hook, visitors, admin, mails, lost>>

CountSent(p) ==
    /\ WorkAt(p, "countSent")
    /\ hook' = Incremented("sent")
    /\ Ends(p)
    /\ calm /\ UNCHANGED <<sub, visitors, admin, mails, lost>>

\* Mutant: whatever the submission says.
MarkFailedAlways(p) ==
    /\ WorkAt(p, "fail") \/ WorkAt(p, "failAfter")
    /\ sub[p] # "removed" /\ SubIs(p, "failed")
    /\ WorkTo(p, IF WorkAt(p, "fail") THEN "countFailed" ELSE "countAfter") /\ UNCHANGED job
    /\ calm /\ UNCHANGED <<hook, visitors, admin, mails, lost>>

\* findOneAndUpdate of a submission that is still queued; then its hook.
MarkFailed(p) ==
    /\ WorkAt(p, "fail") \/ WorkAt(p, "failAfter")
    /\ IF sub[p] # "queued" THEN Ends(p) /\ UNCHANGED sub
       ELSE /\ SubIs(p, "failed")
            /\ WorkTo(p, IF WorkAt(p, "fail") THEN "countFailed" ELSE "countAfter") /\ UNCHANGED job
    /\ calm /\ UNCHANGED <<hook, visitors, admin, mails, lost>>

CountFailed(p) ==
    /\ WorkAt(p, "countFailed") \/ WorkAt(p, "countAfter")
    /\ hook' = Incremented("failed")
    /\ Ends(p)
    /\ calm /\ UNCHANGED <<sub, visitors, admin, mails, lost>>

-----------------------------------------------------------------------------
(* Faults.  A step that fails throws: within deliver into the catch, within *)
(* the catch out of the job, which BullMQ tries again while attempts are    *)
(* left.  The answer of the SMTP server may be lost after it accepted.  A   *)
(* job of a worker that died is given to another one, once.                 *)
InCatch(p) == WorkAt(p, "failAfter") \/ WorkAt(p, "countAfter")
Breaks(p) == lost' = [lost EXCEPT ![p] = IF WorkAt(p, "save") THEN @ + 1 ELSE @]

StepFails(p) ==
    /\ ~WorkAt(p, "idle") /\ Happens
    /\ faults' = faults + 1
    /\ Breaks(p)
    /\ IF InCatch(p)
       THEN WorkTo(p, "idle") /\ FailsAttempt(p)
       ELSE Throws(p, FALSE)
    /\ UNCHANGED <<hook, sub, visitors, admin, mails>>

WorkerDies(p) ==
    /\ ~WorkAt(p, "idle") /\ Happens
    /\ faults' = faults + 1
    /\ Breaks(p)
    /\ WorkTo(p, "idle")
    /\ job' = [job EXCEPT ![p].state = IF job[p].stalled THEN "failed" ELSE "waiting", ![p].stalled = TRUE]
    /\ UNCHANGED <<hook, sub, visitors, admin, mails>>

(* Redis forgets: the key of an address after ten minutes, the hour's count. *)
WindowEnds(e) ==
    /\ e \in window /\ Happens
    /\ window' = window \ {e}
    /\ ended' = [ended EXCEPT ![e] = @ + 1]
    /\ UNCHANGED <<hook, sub, used, post, sending, admin, faults>>

NextHour ==
    /\ used > 0
    /\ used' = 0
    /\ calm /\ UNCHANGED <<hook, sub, window, ended, post, sending, admin>>

-----------------------------------------------------------------------------
RequestSteps ==
    \E p \in Posts : Receive(p) \/ CountHour(p) \/ TakeWindow(p) \/ CreateSubmission(p) \/ CountReceived(p) \/ Enqueue(p)
WorkerSteps ==
    \E p \in Posts : TakeJob(p) \/ Check(p) \/ ReserveQuota(p) \/ Mailbox(p) \/ Send(p) \/ SaveSent(p)
                     \/ CountSent(p) \/ MarkFailed(p) \/ CountFailed(p)
Panel == SwitchActive \/ Regenerate \/ RemoveSubmissions \/ RemoveHook

Next ==
    \/ RequestSteps \/ WorkerSteps \/ Panel \/ NextHour
    \/ \E p \in Posts : WaitForQuota(p) \/ RequestFails(p) \/ StepFails(p) \/ WorkerDies(p)
    \/ \E p \in Posts, e \in Emails \cup {NoEmail} : Arrive(p, e)
    \/ \E e \in Emails : WindowEnds(e)

Spec == Init /\ [][Next]_vars /\ WF_vars(RequestSteps) /\ WF_vars(WorkerSteps)
-----------------------------------------------------------------------------
TypeOK ==
    /\ sub \in [Posts -> SubStatus]
    /\ \A p \in Posts : /\ post[p].pc \in PostPc /\ post[p].answer \in Answers /\ work[p] \in WorkPc
                        /\ job[p].made \in 0..Attempts - 1 \/ job[p].state \in {"done", "failed"}
    /\ window \subseteq Emails /\ used \in 0..Cardinality(Posts)

\* A visitor who fills the form in gets one message: what the submission says is what the
\* server accepted, but for the deliveries that broke off between the two, which are
\* repeated or marked failed.
MailsMatchFate ==
    \A p \in Posts :
        LET settled == lost[p] + (IF WorkAt(p, "save") THEN 1 ELSE 0) IN
        /\ sub[p] \in {"none", "queued", "failed", "rejected"} => mails[p] = settled
        /\ sub[p] = "sent" => mails[p] = lost[p] + 1

\* Within ten minutes an address is answered once, whichever posts race for it; and a post
\* answered as a duplicate has one before it that made the submission, is about to, or
\* broke off ("duplicate" then stands for nothing: the key outlives the failed request).
OnePerWindow ==
    /\ \A p, q \in Posts : p # q /\ post[p].email = post[q].email /\ post[p].opened >= 0
                              => post[p].opened # post[q].opened
    /\ \A p \in Posts : post[p].answer = "duplicate" =>
         \E q \in Posts : /\ post[q].email = post[p].email /\ post[q].opened >= 0
                           /\ \/ sub[q] # "none" \/ PostAt(q, "create") \/ post[q].answer = "error"

\* The numbers of the panel are never above the submissions, and equal to them when nothing
\* runs and nothing failed.
HowMany(statuses) == Cardinality({p \in Posts : sub[p] \in statuses})
AtRest == \A p \in Posts : post[p].pc \in {"new", "answered"} /\ WorkAt(p, "idle")
StatsAddUp ==
    hook.exists /\ admin = "idle" =>
        LET made == HowMany(SubStatus \ {"none"}) IN
        /\ hook.received <= made /\ hook.sent <= HowMany({"sent"})
        /\ hook.failed <= HowMany({"failed"}) /\ hook.rejected <= HowMany({"rejected"})
        /\ AtRest /\ faults = 0 =>
             /\ hook.received = made /\ hook.sent = HowMany({"sent"})
             /\ hook.failed = HowMany({"failed"}) /\ hook.rejected = HowMany({"rejected"})

\* A submission ends as sent or failed, through lost workers, failing steps and waits for
\* quota, unless its request broke off before the job was added or BullMQ gave the job up.
SubmissionSettles ==
    \A p \in Posts : sub[p] = "queued" ~>
        sub[p] # "queued" \/ post[p].answer = "error" \/ job[p].state = "failed"
=============================================================================
