------------------------------ MODULE Campaign ------------------------------
(***************************************************************************)
(* The campaign core: requests and scheduler (CampaignApi), e-mail workers *)
(* (EmailWorker) and bounce webhooks (BounceWebhook) on one campaign, with *)
(* the outside events that change what they read.                          *)
(***************************************************************************)
EXTENDS CampaignApi, EmailWorker, BounceWebhook

KeepAllBut == UNCHANGED <<camp, log, workVars, apiVars, hookVars, late>>

(* Contacts join or leave the audience: imports, edits, unsubscriptions.    *)
AudienceChanges ==
    /\ "audience" \in Environment
    /\ \E c \in Contacts : eligible' = IF c \in eligible THEN eligible \ {c} ELSE eligible \cup {c}
    /\ UNCHANGED smtp /\ KeepAllBut

(* The SMTP server's form is saved (new credentials, good or bad), the      *)
(* provider revokes the password, the server is removed.                    *)
EditSmtp ==
    /\ "smtp" \in Environment /\ ~smtp.gone /\ smtp.ver < MaxVersions
    /\ \E good \in BOOLEAN : smtp' = [ver |-> smtp.ver + 1, ok |-> good, gone |-> FALSE]
    /\ UNCHANGED eligible /\ KeepAllBut

RevokePassword ==
    /\ "smtp" \in Environment /\ smtp.ok
    /\ smtp' = [smtp EXCEPT !.ok = FALSE]
    /\ UNCHANGED eligible /\ KeepAllBut

RemoveSmtp ==
    /\ "smtp" \in Environment /\ ~smtp.gone
    /\ smtp' = [smtp EXCEPT !.gone = TRUE]
    /\ UNCHANGED eligible /\ KeepAllBut

Outside == AudienceChanges \/ EditSmtp \/ RevokePassword \/ RemoveSmtp

-----------------------------------------------------------------------------
Next ==
    \/ \E p \in Procs : ApiStep(p)
    \/ SchedulerTakes
    \/ \E j \in Jobs : WorkerStep(j)
    \/ \E h \in Hooks : HookArrives(h) \/ HookStepOf(h)
    \/ Outside

Spec == Init /\ [][Next]_vars

(***************************************************************************)
(* Fairness.  A worker that holds a job, and a handler that has begun, go  *)
(* on; BullMQ serves every waiting job (strong fairness: a slot may be     *)
(* taken by others in between) and finds stalled ones; capacity comes back *)
(* (quota windows roll, slots are released or expire), so that a job is    *)
(* not put off for ever (strong fairness); a pause that lasts outlasts     *)
(* MAX_PAUSE_WAIT_MS.  Nothing makes users, the audience, the provider's   *)
(* faults or crashes act.                                                  *)
(***************************************************************************)
Fairness ==
    /\ \A j \in Jobs :
          /\ SF_vars(Take(j))
          /\ WF_vars(WorkStep(j))
          /\ SF_vars(LoadForSend(j) \/ CannotSend(j))
          /\ WF_vars(PauseLimitPasses(j))
    /\ \A p \in Procs : WF_vars(HandlerStep(p))
    /\ WF_vars(SchedulerTakes)
    /\ \A h \in Hooks : WF_vars(HookStepOf(h))

FairSpec == Spec /\ Fairness
-----------------------------------------------------------------------------
TypeOK ==
    /\ camp \in CampaignDoc
    /\ log \in [Contacts -> Log]
    /\ eligible \subseteq Contacts
    /\ smtp \in SmtpDoc
    /\ queue \in [Jobs -> QueueState]
    /\ attempts \in [Jobs -> Nat]
    /\ waited \in [Jobs -> {"no", "since", "expired"}]
    /\ pc \in [Jobs -> WorkerPc]
    /\ cred \in [Jobs -> SmtpDoc]
    /\ seen \in [Jobs -> Log]
    /\ stalls \in [Jobs -> Nat]
    /\ sched \in {"none", "delayed", "active", "kept"}
    /\ proc \in [Procs -> Proc]
    /\ hook \in [Hooks -> Hook]
    /\ hooksLeft \in Nat
    /\ mails \in [Jobs -> Nat]
    /\ late \in Nat

-----------------------------------------------------------------------------
(* What the properties speak about. *)

\* The job has been counted in sent, failed or bounced, or will never be.
Ended(j) == \/ queue[j] \in {"none", "completed", "removed"}
            \/ queue[j] \in {"active", "failed"}
               /\ pc[j] \in {"idle", "sentFinal", "failFinal", "failPause", "bounceFinal", "bouncePause"}

\* The contact's SendLog exists and its job is about to be added to the queue.
AboutToQueue(j) == \E p \in Procs : /\ proc[p].op = "start" /\ Step(p, "enqueue")
                                    /\ j[1] \in proc[p].batch /\ j[2] = proc[p].run

JobsAt(w) == Cardinality({j \in Jobs : pc[j] = w})
LogsWith(s) == Cardinality({c \in Contacts : log[c].status = s})

\* No handler is between deleting the SendLogs and writing the document.
LogsComplete == ~\E p \in Procs : \/ proc[p].op = "start" /\ Step(p, "save")
                                  \/ proc[p].op = "remove" /\ Step(p, "delete")

\* The messages the server accepted, numbered for each job (NoDuplicateMail bounds them).
Accepted == {m \in Jobs \X (1..1 + MaxStalls) : m[2] <= mails[m[1]]}

(***************************************************************************)
(* Safety, whatever fails.                                                 *)
(***************************************************************************)

\* One dispatch of one contact reaches the SMTP server at most once, plus once
\* for every worker that died holding the job: whatever else fails after the server
\* accepted the message (MongoDB in the bookkeeping, a pause, a deletion, an edit of
\* the SMTP server), the job is not retried (sendOne's inner try/catch).
NoDuplicateMail == \A j \in Jobs : mails[j] <= 1 + stalls[j]

\* The counter shown as "sent" never exceeds what the server accepted, over all the
\* starts, late jobs, retries and crashes.
SentNotOverstated == camp.sent <= Cardinality(Accepted)

\* Once the campaign is paused (by a user, by too many errors, by a failed login,
\* by a failed dispatch) or deleted, at most the jobs that were in the workers'
\* hands at that moment still produce a message.
PauseLatency == late <= Concurrency

(***************************************************************************)
(* The inductive invariant behind NoDuplicateMail.                         *)
(***************************************************************************)

\* The worker's place agrees with BullMQ's state of the job, and a job that may still
\* send has no message yet, but for those a dead worker left behind.
MayStillSend(j) == \/ queue[j] \in {"none", "waiting"}
                   \/ queue[j] = "active" /\ pc[j] \notin BookPc

JobInv(j) ==
    /\ queue[j] \in {"none", "waiting", "completed", "removed"} => pc[j] = "idle"
    /\ queue[j] = "active" => pc[j] # "idle"
    /\ queue[j] = "failed" => pc[j] \in FailPc \cup {"idle"}
    /\ MayStillSend(j) => mails[j] <= stalls[j]
    /\ mails[j] <= 1 + stalls[j]

\* A dispatch owns its run: no other start uses it, and the jobs it has not yet queued
\* are not in the queue under any state.
Unqueued(p, j) == /\ proc[p].step \in {"dispatch", "enqueue"}
                  /\ j[1] \in proc[p].todo \cup proc[p].batch /\ j[2] = proc[p].run

DispatchInv ==
    /\ \A p \in Procs : /\ proc[p].run <= camp.run /\ proc[p].doc.run <= camp.run
                        /\ proc[p].batch \cap proc[p].todo = {}
    /\ \A p, q \in Procs : p # q /\ proc[p].run # 0 => proc[p].run # proc[q].run
    /\ \A p \in Procs : \A j \in Jobs : Unqueued(p, j) => queue[j] = "none"
    /\ \A j \in Jobs : j[2] > camp.run => queue[j] = "none"

MailInv == DispatchInv /\ \A j \in Jobs : JobInv(j)

(***************************************************************************)
(* Safety, while neither MongoDB, Redis nor a process fails.               *)
(***************************************************************************)

\* A SendLog tells the truth about the message: "sent" only if the server took
\* it, "failed" only if it did not: markFailed and the bookkeeping exclude each
\* other over all the retries, pauses and credential changes of a job.
LogTellsTruth ==
    \A c \in Contacts : log[c] # NoLog =>
        LET j == <<c, log[c].run>> IN
        /\ log[c].status = "sent" => mails[j] > 0
        /\ log[c].status = "failed" => mails[j] = 0

\* The counters of the campaign are the numbers of its SendLogs, except for the job
\* that has written its log and is about to count it.
CountersMatchLogs ==
    Exists /\ LogsComplete =>
        /\ camp.sent + JobsAt("sentStat") = LogsWith("sent")
        /\ camp.failed + JobsAt("failStat") = LogsWith("failed")
        /\ camp.bounced + JobsAt("bounceCount") = LogsWith("bounced")

\* A SendLog that says "pending" has a job that will say otherwise: no contact of a
\* dispatch is left behind.
NobodyLeftBehind ==
    LogsComplete =>
        \A c \in Contacts : log[c].status = "pending" =>
            LET j == <<c, log[c].run>> IN
            ~Ended(j) \/ AboutToQueue(j)
            \/ \E p \in Procs : proc[p].op = "remove" /\ Step(p, "wipe")

\* "Marca a campanha como concluida quando todos os envios terminaram": no send of a
\* completed campaign is still to come.
CompletedMeansAllEnded == camp.status = "completed" => \A j \in Jobs : Ended(j)

\* Whoever starts the campaign, and however often the button is pressed, the jobs
\* that can still send a message are those of one dispatch.
OneRunAtATime == \A j \in Jobs : Pending(j) /\ ~Ended(j) => j[2] = camp.run

\* A campaign that counts MaxErrors errors and goes on sending has a worker about to
\* pause it.
AutoPauseArmed ==
    camp.status = "sending" /\ camp.failed + camp.bounced >= MaxErrors
        => \E j \in Jobs : pc[j] \in {"failFinal", "failPause", "bounceFinal", "bouncePause"}

(***************************************************************************)
(* Steps.                                                                  *)
(***************************************************************************)

\* "Campanha ja esta em envio": a start takes effect only when every send of the
\* earlier ones has ended, although it looks at the status several steps earlier.
StartsAfterSends == [][camp'.run # camp.run => \A j \in Jobs : Ended(j)]_vars

\* "Campanha pausada, use retomar em vez de iniciar": while sends wait for the end of a
\* pause, no start takes effect that would leave them behind as a second dispatch.
PausedNotRestarted ==
    [][camp'.run # camp.run => ~\E j \in Jobs : Pending(j) /\ waited[j] = "since"]_vars

\* "Remove os envios anteriores": the SendLogs a start deletes are those of sends that
\* have ended, also when two requests start the campaign at once.
WipesOnlyPastSends ==
    [][\A p \in Procs : WipeLogs(p) =>
          \A c \in Contacts : log[c] # NoLog => Ended(<<c, log[c].run>>)]_vars

(***************************************************************************)
(* Liveness.                                                               *)
(***************************************************************************)

\* Every job leaves the queue, however the campaign is paused, resumed or deleted, as
\* soon as the SMTP login works for good: MAX_PAUSE_WAIT_MS ends the wait of a job whose
\* campaign stays paused.
JobsDrain == <>[](smtp.ok \/ smtp.gone) => \A j \in Jobs : Pending(j) ~> ~Pending(j)

\* A campaign does not stay "sending" for ever.
SendingEnds == camp.status = "sending" ~> camp.status # "sending"

(***************************************************************************)
(* Refinement: what becomes of a message, seen from outside.               *)
(***************************************************************************)
FateOf(j) == IF mails[j] > 0 THEN "accepted"
             ELSE IF queue[j] = "none" THEN "absent"
             ELSE IF Pending(j) THEN "queued" ELSE "refused"

Promise == INSTANCE Delivery WITH Messages <- Jobs, fate <- [j \in Jobs |-> FateOf(j)]

\* The campaign implements Delivery: a message is queued once, and settled once and for
\* all; a job that was given up is never sent, whatever is retried, paused or deleted.
ImplementsDelivery == Promise!DeliverySafe

\* And every message that is queued is settled.
ImplementsFairDelivery == Promise!DeliverySpec
=============================================================================
