---------------------------- MODULE EmailWorker ----------------------------
(***************************************************************************)
(* The e-mail workers (queue/email.worker.ts) and the bounce service they  *)
(* share with the webhook (services/bounce.service.ts).  One action per    *)
(* MongoDB round trip of a job: between two of them any other process may  *)
(* run.  Redis bookkeeping that only the job itself sees (updateData,      *)
(* moveToDelayed) is part of the action that decides on it.  A delayed job *)
(* is "waiting": its timer may fire at any moment.                         *)
(***************************************************************************)
EXTENDS CampaignState

KeepQueue == UNCHANGED <<queue, attempts, waited, stalls>>
KeepJob  == KeepQueue /\ UNCHANGED <<cred, seen, mails>>
KeepOthers == UNCHANGED <<eligible, smtp, apiVars, hookVars, late>>

At(j, w) == pc[j] = w
Goto(j, w) == pc' = [pc EXCEPT ![j] = w]

\* The processor returned: BullMQ completes the job.
Complete(j) == /\ queue' = [queue EXCEPT ![j] = "completed"]
               /\ Goto(j, "idle")
               /\ UNCHANGED <<attempts, waited, stalls, cred, seen, mails>>

\* moveToDelayed and DelayedError: the attempt is not consumed.
Delay(j) == /\ queue' = [queue EXCEPT ![j] = "waiting"]
            /\ Goto(j, "idle")
            /\ UNCHANGED <<attempts, stalls, cred, seen, mails>>

\* The processor threw: BullMQ retries, or fails the job for good and the
\* worker's 'failed' listener runs markFailed on the failed job.
Throw(j) ==
    /\ attempts' = [attempts EXCEPT ![j] = @ + 1]
    /\ \/ /\ attempts[j] + 1 < MaxAttempts
          /\ queue' = [queue EXCEPT ![j] = "waiting"]
          /\ Goto(j, "idle")
       \/ /\ attempts[j] + 1 >= MaxAttempts
          /\ queue' = [queue EXCEPT ![j] = "failed"]
          /\ Goto(j, "failLog")
    /\ UNCHANGED <<waited, stalls, cred, seen, mails>>
-----------------------------------------------------------------------------
(* BullMQ hands a job to a worker with a free slot. *)
Take(j) ==
    /\ queue[j] = "waiting"
    /\ Cardinality(HeldJobs) < Concurrency
    /\ queue' = [queue EXCEPT ![j] = "active"]
    /\ Goto(j, "got")
    /\ UNCHANGED <<attempts, waited, stalls, cred, seen, mails, camp, log>>
    /\ KeepOthers

\* Mutants: a deleted campaign's job is put off, not dropped; pausedSince is not
\* stored; a job abandoned in a pause is not marked; the pause is not looked at.
PostponeDeleted(j) ==
    /\ At(j, "got") /\ ~Exists
    /\ Delay(j)
    /\ UNCHANGED <<waited, camp, log>> /\ KeepOthers

WaitUnmarked(j) ==
    /\ At(j, "got") /\ camp.status = "paused" /\ waited[j] # "expired"
    /\ Delay(j)
    /\ UNCHANGED <<waited, camp, log>> /\ KeepOthers

AbandonSilently(j) ==
    /\ At(j, "got") /\ camp.status = "paused" /\ waited[j] = "expired"
    /\ Complete(j)
    /\ UNCHANGED <<camp, log>> /\ KeepOthers

PassPaused(j) ==
    /\ At(j, "got") /\ Exists
    /\ Goto(j, "cleared")
    /\ UNCHANGED <<camp, log, queue, attempts, waited, stalls, cred, seen, mails>> /\ KeepOthers

(* processEmail: Campaign.findById.  Deleted: drop the job.  Paused: wait,  *)
(* or give up when the pause outlasted MAX_PAUSE_WAIT_MS.  Any other        *)
(* status lets the job through and forgets the pause.                       *)
DiscardDeleted(j) ==
    /\ At(j, "got") /\ ~Exists
    /\ Complete(j)
    /\ UNCHANGED <<camp, log>> /\ KeepOthers

WaitPaused(j) ==
    /\ At(j, "got") /\ camp.status = "paused" /\ waited[j] # "expired"
    /\ waited' = [waited EXCEPT ![j] = "since"]
    /\ Delay(j)
    /\ UNCHANGED <<camp, log>> /\ KeepOthers

AbandonPaused(j) ==
    /\ At(j, "got") /\ camp.status = "paused" /\ waited[j] = "expired"
    /\ Goto(j, "failLog")
    /\ UNCHANGED <<camp, log>> /\ KeepJob /\ KeepOthers

PassCampaign(j) ==
    /\ At(j, "got") /\ Exists /\ camp.status # "paused"
    /\ waited' = [waited EXCEPT ![j] = "no"]
    /\ Goto(j, "cleared")
    /\ UNCHANGED <<camp, log, queue, attempts, stalls, cred, seen, mails>> /\ KeepOthers

\* MAX_PAUSE_WAIT_MS goes by.
PauseLimitPasses(j) ==
    /\ waited[j] = "since" /\ Pending(j)
    /\ waited' = [waited EXCEPT ![j] = "expired"]
    /\ UNCHANGED <<camp, log, queue, attempts, stalls, pc, cred, seen, mails>> /\ KeepOthers

(* Tenant rate, tenant slot, SMTP quota: no room now, back to the queue.    *)
(* The reservations themselves are the subject of SendThrottle.             *)
NoCapacity(j) ==
    /\ At(j, "cleared")
    /\ Delay(j)
    /\ UNCHANGED <<waited, camp, log>> /\ KeepOthers

(* sendOne: the content (snapshot of the campaign) and the SMTP server.     *)
LoadForSend(j) ==
    /\ At(j, "cleared") /\ ~smtp.gone
    /\ cred' = [cred EXCEPT ![j] = smtp]
    /\ Goto(j, "sending")
    /\ UNCHANGED <<camp, log, seen, mails>> /\ KeepQueue /\ KeepOthers

CannotSend(j) ==
    /\ At(j, "cleared") /\ (smtp.gone \/ ~Exists)
    /\ Goto(j, "failLog")
    /\ UNCHANGED <<camp, log>> /\ KeepJob /\ KeepOthers

-----------------------------------------------------------------------------
(* emailService.send: the server takes the message, rejects the login, the  *)
(* recipient, or fails for a while.                                         *)
Accept(j) ==
    /\ At(j, "sending") /\ cred[j].ok
    /\ mails' = [mails EXCEPT ![j] = @ + 1]
    /\ late' = IF camp.status \in {"paused", "gone"} THEN late + 1 ELSE late
    /\ Goto(j, "sentLog")
    /\ UNCHANGED <<camp, log, cred, seen, eligible, smtp, apiVars, hookVars>> /\ KeepQueue

RejectLogin(j) ==
    /\ At(j, "sending") /\ ~cred[j].ok
    /\ Goto(j, "authCheck")
    /\ UNCHANGED <<camp, log>> /\ KeepJob /\ KeepOthers

RejectRecipient(j) ==
    /\ At(j, "sending") /\ cred[j].ok
    /\ Goto(j, "bounceFind")
    /\ UNCHANGED <<camp, log>> /\ KeepJob /\ KeepOthers

FailForNow(j) ==
    /\ At(j, "sending")
    /\ Throw(j)
    /\ UNCHANGED <<camp, log>> /\ KeepOthers

(* Bookkeeping after a message was accepted. *)
BookLog(j) ==
    /\ At(j, "sentLog")
    /\ log' = LogSet(j, "sent")
    /\ Goto(j, "sentStat")
    /\ UNCHANGED camp /\ KeepJob /\ KeepOthers

BookStat(j) ==
    /\ At(j, "sentStat")
    /\ camp' = Increment("sent")
    /\ Goto(j, "sentFinal")
    /\ UNCHANGED log /\ KeepJob /\ KeepOthers

BookFinal(j) ==
    /\ At(j, "sentFinal")
    /\ camp' = Finalized
    /\ Complete(j)
    /\ UNCHANGED log /\ KeepOthers

(* A failed login: retry with the new credentials if the server was edited  *)
(* meanwhile, else pause the campaign; the attempt is kept either way.      *)
CredentialsChanged(j) ==
    /\ At(j, "authCheck") /\ ~smtp.gone /\ smtp.ver # cred[j].ver
    /\ Delay(j)
    /\ UNCHANGED <<waited, camp, log>> /\ KeepOthers

CredentialsSame(j) ==
    /\ At(j, "authCheck") /\ (smtp.gone \/ smtp.ver = cred[j].ver)
    /\ Goto(j, "authPause")
    /\ UNCHANGED <<camp, log>> /\ KeepJob /\ KeepOthers

PauseForAuth(j) ==
    /\ At(j, "authPause")
    /\ camp' = IF camp.status = "sending" THEN [camp EXCEPT !.status = "paused"] ELSE camp
    /\ Delay(j)
    /\ UNCHANGED <<waited, log>> /\ KeepOthers

-----------------------------------------------------------------------------
(* markFailed, in a processor that gives up on a job that is still active   *)
(* or in the 'failed' listener of a job that is already failed.             *)
\* Mutant: the failure is counted before its SendLog says so.
FailUnlogged(j) ==
    /\ At(j, "failLog")
    /\ Goto(j, "failStat")
    /\ UNCHANGED <<camp, log>> /\ KeepJob /\ KeepOthers

FailLog(j) ==
    /\ At(j, "failLog")
    /\ log' = LogSet(j, "failed")
    /\ Goto(j, "failStat")
    /\ UNCHANGED camp /\ KeepJob /\ KeepOthers

FailStat(j) ==
    /\ At(j, "failStat")
    /\ camp' = Increment("failed")
    /\ Goto(j, "failFinal")
    /\ UNCHANGED log /\ KeepJob /\ KeepOthers

FailFinal(j) ==
    /\ At(j, "failFinal")
    /\ camp' = Finalized
    /\ Goto(j, "failPause")
    /\ UNCHANGED log /\ KeepJob /\ KeepOthers

\* Mutant: the `return` after markFailed is missing and the processor goes on to send.
SendAnyway(j) == IF queue[j] = "active" THEN Goto(j, "cleared") /\ KeepJob ELSE Goto(j, "idle") /\ KeepJob

\* Ends the processor, or the listener.
Return(j) == IF queue[j] = "active" THEN Complete(j) ELSE Goto(j, "idle") /\ KeepJob

FailPause(j) ==
    /\ At(j, "failPause")
    /\ camp' = AutoPaused
    /\ Return(j)
    /\ UNCHANGED log /\ KeepOthers

-----------------------------------------------------------------------------
(* processBounce for a recipient the server refused: find the contact's     *)
(* SendLog in this campaign, block the contact, write the log, count.       *)
BounceFind(j) ==
    /\ At(j, "bounceFind")
    /\ seen' = [seen EXCEPT ![j] = log[j[1]]]
    /\ eligible' = eligible \ {j[1]}
    /\ Goto(j, "bounceMark")
    /\ UNCHANGED <<camp, log, cred, mails, smtp, apiVars, hookVars, late>> /\ KeepQueue

\* log.save() addresses the loaded document; it throws if that one is gone.
BounceMark(j) ==
    /\ At(j, "bounceMark")
    /\ seen[j].status \notin {"none", "bounced"} /\ log[j[1]].run = seen[j].run
    /\ log' = [log EXCEPT ![j[1]].status = "bounced"]
    /\ Goto(j, "bounceCount")
    /\ UNCHANGED camp /\ KeepJob /\ KeepOthers

BounceMarkLost(j) ==
    /\ At(j, "bounceMark")
    /\ seen[j].status \notin {"none", "bounced"} /\ log[j[1]].run # seen[j].run
    /\ Throw(j)
    /\ UNCHANGED <<camp, log>> /\ KeepOthers

BounceKnown(j) ==
    /\ At(j, "bounceMark") /\ seen[j].status \in {"none", "bounced"}
    /\ Goto(j, "bounceFinal")
    /\ UNCHANGED <<camp, log>> /\ KeepJob /\ KeepOthers

BounceCount(j) ==
    /\ At(j, "bounceCount")
    /\ camp' = Increment("bounced")
    /\ Goto(j, "bounceFinal")
    /\ UNCHANGED log /\ KeepJob /\ KeepOthers

BounceFinal(j) ==
    /\ At(j, "bounceFinal")
    /\ camp' = Finalized
    /\ Goto(j, "bouncePause")
    /\ UNCHANGED log /\ KeepJob /\ KeepOthers

BouncePause(j) ==
    /\ At(j, "bouncePause")
    /\ camp' = AutoPaused
    /\ Complete(j)
    /\ UNCHANGED log /\ KeepOthers

-----------------------------------------------------------------------------
(* Partial failures: MongoDB refuses an operation, or the worker dies.      *)

\* Mutants: an error in the bookkeeping makes the processor throw; it repeats the bookkeeping.
BookingThrows(j) ==
    /\ "fault" \in Environment
    /\ pc[j] \in BookPc /\ Throw(j)
    /\ UNCHANGED <<camp, log>> /\ KeepOthers

BookingRepeats(j) ==
    /\ "fault" \in Environment
    /\ At(j, "sentFinal") /\ Goto(j, "sentLog") /\ KeepJob
    /\ UNCHANGED <<camp, log>> /\ KeepOthers

\* After a message was accepted the error is swallowed; the 'failed' listener
\* swallows it too; anywhere else it is the processor that throws.
MongoFault(j) ==
    /\ "fault" \in Environment
    /\ \/ pc[j] \in {"got", "cleared"} \cup AuthPc \cup BouncePc /\ Throw(j)
       \/ pc[j] \in FailPc /\ queue[j] = "active" /\ Throw(j)
       \/ pc[j] \in FailPc /\ queue[j] = "failed" /\ Goto(j, "idle") /\ KeepJob
       \/ pc[j] \in BookPc /\ Complete(j)
    /\ UNCHANGED <<camp, log>> /\ KeepOthers

WorkerDies(j) ==
    /\ "crash" \in Environment
    /\ pc[j] \notin {"idle", "dead"} /\ stalls[j] < MaxStalls
    /\ \/ queue[j] = "active" /\ Goto(j, "dead") /\ stalls' = [stalls EXCEPT ![j] = @ + 1]
       \/ queue[j] = "failed" /\ Goto(j, "idle") /\ UNCHANGED stalls
    /\ UNCHANGED <<queue, attempts, waited, cred, seen, mails, camp, log>> /\ KeepOthers

(* BullMQ finds the lock of an active job expired: back to the queue, or    *)
(* failed once it stalled more often than it may; its 'failed' event then   *)
(* carries attemptsMade = attempts[j] + 1.                                  *)
RecoverStalled(j) ==
    /\ At(j, "dead")
    /\ \/ /\ stalls[j] <= MaxStalled
          /\ Delay(j)
          /\ UNCHANGED waited
       \/ /\ stalls[j] > MaxStalled
          /\ queue' = [queue EXCEPT ![j] = "failed"]
          /\ attempts' = [attempts EXCEPT ![j] = @ + 1]
          /\ Goto(j, IF attempts[j] + 1 >= MaxAttempts THEN "failLog" ELSE "idle")
          /\ UNCHANGED <<waited, stalls, cred, seen, mails>>
    /\ UNCHANGED <<camp, log>> /\ KeepOthers
-----------------------------------------------------------------------------
SendStep(j) == \/ Accept(j) \/ RejectLogin(j) \/ RejectRecipient(j) \/ FailForNow(j)

BookStep(j) == \/ BookLog(j) \/ BookStat(j) \/ BookFinal(j)

AuthStep(j) == \/ CredentialsChanged(j) \/ CredentialsSame(j) \/ PauseForAuth(j)

FailStep(j) == \/ FailLog(j) \/ FailStat(j) \/ FailFinal(j) \/ FailPause(j)

BounceStep(j) ==
    \/ BounceFind(j) \/ BounceMark(j) \/ BounceMarkLost(j) \/ BounceKnown(j)
    \/ BounceCount(j) \/ BounceFinal(j) \/ BouncePause(j)

ReadStep(j) == \/ DiscardDeleted(j) \/ WaitPaused(j) \/ AbandonPaused(j) \/ PassCampaign(j)

\* What a worker does with the job it holds, unless it has to wait for capacity.
WorkStep(j) ==
    \/ ReadStep(j) \/ LoadForSend(j) \/ CannotSend(j) \/ SendStep(j)
    \/ BookStep(j) \/ AuthStep(j) \/ FailStep(j) \/ BounceStep(j) \/ RecoverStalled(j)

WorkerStep(j) ==
    \/ Take(j) \/ WorkStep(j) \/ NoCapacity(j) \/ PauseLimitPasses(j)
    \/ MongoFault(j) \/ WorkerDies(j)
=============================================================================
