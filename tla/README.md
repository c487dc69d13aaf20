# maischat-mail-api: TLA+ models and proofs

The API sends e-mail campaigns for several tenants. HTTP requests (any number of API
instances), five BullMQ workers and provider webhooks work on the same MongoDB documents and
Redis queues, without transactions and without locks beyond those BullMQ keeps on a job.
Whatever holds, holds because of the order of single database operations and the conditions
in them. That order is what these modules model: **one action per MongoDB or Redis round
trip**, so that any other process may run between two of them.

Paths below are relative to `src/src/`.

## 1. Inventory

| Component | State | Operations | Hard behaviour | What makes it correct |
|---|---|---|---|---|
| Campaign operations (`services/campaign.service.ts`) | `Campaign` document (status, stats, version), `SendLog`s | start, pause, resume, schedule, unschedule, save, remove | load, check, many awaits, save; two starts at once; a dispatch that fails half-way; a crash in the dispatch | one dispatch at a time; every contact of it settled; counters equal logs |
| E-mail queue and worker (`queue/email.*`) | BullMQ jobs, `job.data.pausedSince` | process, retry, delay, fail, count | retries after an accepted message, stale status, auth failures, stalls, pauses | no duplicate mail; a pause takes effect; every job ends; completed means ended |
| Scheduler (`queue/scheduler.*`) | one delayed job per campaign | add, cancel, fire | fires between add and save; id still taken by a finished job | a scheduled start obeys the guards of a start |
| Bounces (`services/bounce.service.ts`, `controllers/webhook.controller.ts`) | `SendLog.status`, `stats.bounced`, `Contact.status` | processBounce | runs in the worker and, for messages sent earlier, in a webhook; the provider repeats and overlaps its reports | every bounce is counted, and what is counted twice is known |
| Quotas (`queue/tenantQuota.ts`, `queue/smtpQuota.ts`) | Redis counters per window, ZSET of slots | reserve, undo, acquire, release | several commands per reservation, several windows, leases | limits kept, nothing leaks |
| SMTP servers (`services/smtp.service.ts`) | `SmtpSettings` documents | save, remove, changedSince | edited while jobs hold old credentials; the default flag is kept by two writes | old credentials do not pause a campaign; one default server |
| E-mail verification (`services/emailVerification.service.ts`, `queue/verification.*`) | `VerificationJob`, monthly quota in Redis, lists at the provider | start, upload, poll, apply, fail; single check | check-then-create, crash between save and enqueue, quota given back in three places; an answer that is lost after the provider has charged | a document's list uploaded once, the quota covers what is billed and was answered, done means applied, every job ends |
| Contact import (`services/contactImport.service.ts`, `queue/import.*`) | `ImportJob`, files of accepted rows | create, validate, confirm, import, cancel, expire | cancel against the last write; re-run after a crash; two confirmations | the verdict shown is the file's, no accepted row is lost, every import settles |
| Form webhook (`services/formWebhook.service.ts`, `queue/formEmail.*`) | `FormWebhook`, `FormSubmission`, dedupe and limit keys | receive, deliver, fail; switch off, new token, remove | key set before the submission exists; save fails after the send | one message per submission, one submission per window |
| Tracking (`controllers/tracking.controller.ts`) | `SendLog` status and counts, `stats`, `linkStats`, `Contact.status` | open, click, unsubscribe, take back | races with the worker, the bounce webhook and a new start | an open or a click counted once per message; every number accounted for by logs; who left gets no more |
| Accounts (`services/auth,user,invite,passwordReset`) | `User.tokenVersion`, roles, invitations | login, revoke, change password, invite, remove | read-modify-write of the version, count-then-delete of administrators; the superadmin changes roles without a count | a revoked token stays revoked; an administrator remains unless two requests overlap or the superadmin takes the last one away; nobody is locked out |
| Platform settings (`services/platformSettings.service.ts`, `config/settingsBus.ts`) | settings document, cache, Redis channel, worker of each instance | update, publish, subscribe, reload the worker | single-flight reload drops a later change | the workers end on the last settings |
| Tenants and isolation (`services/tenant.service.ts`, `services/tenantPurge.ts`, `config/tenantContext.ts`, `models/plugins/tenantScope.ts`) | `Tenant`, async context, filter on every query | create, switch off, purge; run as tenant | requests admitted before a purge | what a removed tenant leaves is known (import jobs, late writes); no query crosses tenants |
| Contacts and lists (`services/contact.service.ts`, `list.service.ts`) | `Contact.lists`, `List.contactCount` | create, update, delete, bulk delete, drop a list, recount | the count is stored apart from the contacts | the count is the number of contacts |
| Sending domains (`services/sendingDomain.service.ts`) | `SendingDomain` (verdict and its age) | check, check before a send | DNS outage, checks that overtake each other | released only by right records; an outage takes no domain down |
| Segments, templates, rendering and transport | documents | CRUD, query building, HTML | — | — |
| Dashboards, reports, monitoring, export; parsing and crypto utilities; scripts and start-up | none, or read-only | — | — | — |

**Interaction.** A request that starts a campaign creates its `SendLog`s and adds their jobs
to `email-sending`; a scheduled one does so from the scheduler's worker. A job's worker reads
the campaign, reserves quota, sends, and writes the log and the campaign's counters back; the
last one to count completes the campaign. Requests change the same campaign meanwhile.
Bounces arrive while or after it runs. Each of these processes keeps local copies of what it
read.

An import and the panel write the contacts and lists a campaign reads; a verification's
verdicts decide whom its audience leaves out. A form's message uses the same servers and
quotas as a campaign's. Campaigns and forms look at the verdict on the sender's domain first.
The removal of a user or a tenant, and the end of a session, act on later requests through
the middleware. Settings reach the workers of all instances over a Redis channel.

## 2. Modules

| Module | Models | Composition |
|---|---|---|
| `CampaignState` | constants, variables, types, `Init`, and the conditional updates several handlers share (`Finalized`, `AutoPaused`, `Increment`, `LogSet`) | base |
| `CampaignApi` | `campaign.service.ts`, `scheduler.queue.ts`, `scheduler.worker.ts` | extends `CampaignState` |
| `EmailWorker` | `email.worker.ts`, `email.queue.ts`, `processBounce` as the worker calls it | extends `CampaignState` |
| `BounceWebhook` | `webhook.controller.ts` and `processBounce` as it calls it | extends `CampaignState` |
| `Campaign` | composition of the three, outside events, fairness, all properties | extends them |
| `Delivery` | abstract specification: the fate of a message | instantiated by `Campaign` with `fate <- FateOf(j)` |
| `SendThrottle` | `tenantQuota.ts`, `smtpQuota.ts` and their place in `processEmail` and `sendOne` | independent |
| `Verification` | `emailVerification.service.ts`, `verification.queue.ts`, `verification.worker.ts`, the provider's side of `emailListVerify.client.ts` | independent |
| `Contacts` | `contact.service.ts`, `list.service.ts` | base of `ContactImport` |
| `ContactImport` | `contactImport.service.ts`, `import.queue.ts`, `import.worker.ts` next to the requests of `Contacts` | extends `Contacts` |
| `FormWebhook` | `formWebhook.service.ts`, `formWebhook.controller.ts`, `formEmail.queue.ts`, `formEmail.worker.ts` | independent |
| `Tracking` | `tracking.controller.ts`, the webhook's `processBounce`, the taking back of a contact, the reset of a new start | independent |
| `Accounts` | the user, auth, invite, passwordReset and tenant services, `tenantPurge.ts`, the middleware | independent |
| `SmtpServers`, `SendingDomains`, `PlatformSettings` | `smtp.service.ts`; `sendingDomain.service.ts`; `platformSettings.service.ts`, `settingsBus.ts` and start, reload and stop of the worker in `email.worker.ts` | composed by `SendingSetup` |
| `SendingSetup` | the three above with the same requests; a domain is asked for while a server sends from it | extends them |
| `CampaignProofs` | proofs: types, one mail, the refinement; what a campaign counts, one run at a time, the truth of the logs | extends `Campaign` |
| `ThrottleProofs`, `SetupProofs`, `FormProofs`, `TrackingProofs`, `AccountsProofs`, `VerificationProofs`, `ImportProofs` | proofs | extend `SendThrottle`, `SendingSetup`, `FormWebhook`, `Tracking`, `Accounts`, `Verification`, `ContactImport` |
| `MCCampaign`, `MCSendThrottle`, `MCVerification`, `MCContactImport`, `MCFormWebhook`, `MCTracking`, `MCAccounts`, `MCSendingSetup` | symmetry sets and values for TLC | extend the above |

### State and code

**Campaign.**

| Variable | Code |
|---|---|
| `camp` | the Campaign document; `run` stands for `startedAt`, `ver` for Mongoose's `__v`, status `"gone"` for a deleted document |
| `log[c]` | the `SendLog` of contact `c` (unique index on campaign and contact), with the dispatch it belongs to |
| `eligible` | what the recipient query would select now |
| `smtp` | the SmtpSettings document; `ok`: the provider takes its login; `ver` stands for `updatedAt` |
| `queue[j]`, `attempts[j]` | BullMQ state and `attemptsMade` of job `j = <<contact, run>>`; delayed and waiting are both `"waiting"`, a timer may fire at any moment |
| `waited[j]` | `job.data.pausedSince`: unset, set, or older than `MAX_PAUSE_WAIT_MS` |
| `pc[j]`, `cred[j]`, `seen[j]` | the worker that holds the job: its next database operation, the SMTP document and the SendLog it loaded. `"dead"`: the process is gone and the job is still active |
| `stalls[j]` | how often a worker died with the job |
| `sched` | the job `schedule-<campaignId>`; `"kept"`: finished, still in Redis under its id |
| `proc[p]` | a request or the scheduler's worker: operation, next step, loaded document, dispatch progress |
| `hook[h]`, `hooksLeft` | webhook calls in progress and the bound on them |
| `mails[j]`, `late` | history: messages the server accepted; of those, since the campaign was last paused or removed |

A `save()` writes only the paths a handler changed on its loaded copy (`Written`); it fails on
a deleted document, and asks for the loaded version only if it assigned an array. `start`
empties `linkStats`, so its save is versioned; `pause`, `resume` and `schedule` are not, so a
stale copy overwrites (`SetStatus`). The worker's and the bounce's updates are single
conditional or `$inc` updates and never fail on a missing document. `UNCHANGED` and stale
copies are therefore part of the model, not of its simplification.

Merged into one action: `getJob` and `remove` of `cancelSchedule`; the loading of content and
server; the three reservations, which in `Campaign` only show as `NoCapacity` and are modelled
step by step in `SendThrottle`; and, in `RemoveDrain`, the walk of `removeCampaignJobs` over the
campaign's jobs (`email.queue.ts:52-66`: `getJobs`, then one `remove` for each). To one job the
walk is a single attempt: it takes the job out if it waits at that moment, and fails, which the
code ignores, if a worker has it, as it leaves a job that was active when the list was made. The
model lets that moment fall anywhere among the steps of the job; what it leaves out is that the
attempts at two jobs come at different moments. The properties that meet a removal speak of each
job by itself (`NoDuplicateMail`, `ImplementsDelivery`, `JobsDrain`) or, of a campaign that is
gone, of the jobs already past the look at its status (`PauseLatency`), which no removal touches.

**The other modules.** The variables below are the stored state and the memory of whoever is
under way; each module declares its history variables as such, and they guard nothing.

| Module | Stored | In memory | Operations |
|---|---|---|---|
| `Verification` | `vjob` (the document), `used` (the month's counter), `task`, `uploads` (BullMQ), `listed` (lists kept by the provider), `pending` (what `pendingQuery` selects) | `task` (the step in hand), `caller` (a request, a single check) | `startListVerification`: `CheckRunning`, `CountPending`, `Reserve`, `CreateJob`, `EnqueueUpload`; the three steps of `runStep`; `handleStepError` and the `failed` listener (`Retry`, `GiveBack`, `Fail`, `MarkFailed`); `verifySingle` |
| `Contacts` | `contact`, `lists`, `count` | `op`, `stale` (a copy that a deletion or a save has outdated) | create, update, delete, bulk delete, drop of a list, `resyncCounts`; each ends in `CountLists`, `StoreCounts` |
| `ContactImport` | `file`, `valid` (the files on disk), `ijob` (the document), `queue` | `val`, `imp` (the jobs), `user` (confirm and cancel) | `Create`, `AskConfirm`, `AskCancel`, `SaveRequest`; `runValidation`; `runImport`: `FindRow`, `LinkRow`, `InsertRow`, the recount; `Expire` |
| `FormWebhook` | `hook`, `sub`, `used` (the hour's counter), `window` (keys of addresses), `job` | `post`, `work`, `admin` | `receive` from `Receive` to `Enqueue`; `deliver` from `TakeJob` to `CountSent` or `CountFailed`; the panel |
| `Tracking` | `log`, `contact`, `stats`, `links`, `run` | `visit`, `report`, `panel`, `starting`, `booking` (messages accepted and not yet marked) | `First`, `Status`, `Count`, `IncLink`, `PushLink`, `LeaveContact`; `processBounce`; `LoadContact`, `Reactivate`; `WipeLogs`, `ResetStats`, `Dispatch`; `Book` |
| `Accounts` | `user`, `tenant`, `docs` (the kinds of documents it has; import jobs are a kind of their own), `sessions` (tokens that were signed) | `proc` (the loaded user and the patch) | roles, access, password, invitation, reset, login, logout everywhere; creation, switching and removal of a tenant; any request that writes |
| `SmtpServers` | `server` | `saving` | `LoadServer` or `NewServer`, `WriteServer`, `ClearOthers`; `RemoveServer` |
| `SendingDomains` | `domain` | `asking` | `VerifyDomain`, `AssertSendable`, `EvaluateDomain`, `KeepExisting`, `WriteVerdict` |
| `PlatformSettings` | `saved`, `notices` (what the channel has not handed over) | `inst`, `updating` | `WriteSettings`, `PublishChange`; `Boot`, `Subscribe`, `HearNotice`, `ReadSettings`, `RebuildWorker` |

A payload is abstracted to what decides the outcome: an import's row is an address or no
address, a post is an address and a visitor or a robot, a link is one of the message's or none,
a DNS lookup says right, wrong or nothing, a setting is a value. Batches (`APPLY_BATCH`, rows
of an import) are of one element, the size with the most interleavings.

## 3. Runs

All of them are exhaustive within their bounds; each enables only what its properties need,
because every operation multiplies the states.

| Run | Instance | Shows |
|---|---|---|
| `calm` | 2 contacts, 2 worker slots, 1 request; start, pause, resume, remove; SMTP edited, revoked, removed | `LogTellsTruth`, `CountersMatchLogs`, `NobodyLeftBehind`, `CompletedMeansAllEnded` |
| `restarts` | 2 requests at once, 2 contacts in one batch, 2 runs; start, pause, edit | `OneRunAtATime`, `StartsAfterSends` |
| `faults` | 1 contact, 2 attempts, 1 stall, 1 webhook; start, pause, resume, remove; worker and process deaths, MongoDB faults, an audience that changes | `NoDuplicateMail`, and that `Campaign` implements `Delivery` |
| `again` | 2 runs; start, schedule, unschedule; MongoDB faults | `SentNotOverstated` |
| `live` | 2 contacts, 2 attempts, error limit 1; start, pause, remove; fairness | `SendingEnds`, `JobsDrain`, `ImplementsFairDelivery`, `AutoPauseArmed`, `PauseLatency` |
| `quotas` | 2 jobs, limits 2 per minute, 2 per hour, 3 per day, lease 1, 1 crash | `ReservationsWithinLimit`, `CountersExact`, `SlotsGivenBack`, `SpillBounded` |
| `verify` | 2 contacts that join and leave, 2 requests and 1 single check, limit 2, 2 workers, 1 retry; provider silent or refusing, deaths, MongoDB faults; fairness | `BilledWithinQuota`, `UploadedOnce`, `DoneMeansApplied`, `QuotaMatchesBilling`, `EveryVerificationEnds` |
| `imports` | a file of 2 rows, 2 addresses, 1 list, 2 confirmations or cancellations, 1 panel request, 2 workers; deaths, MongoDB faults; fairness | `VerdictMatchesFile`, `ImportComplete`, `CountsRight`, `ImportSettles` |
| `forms` | 2 posts of one address, hourly limit 1, 2 attempts, 2 workers; the panel; deaths, failing steps; fairness | `MailsMatchFate`, `OnePerWindow`, `StatsAddUp`, `SubmissionSettles` |
| `tracking` | 1 contact, 2 visits and 2 webhooks at once, 3 links for 2 places, 2 starts | `EngagementAddsUp`, `LinksTrue` |
| `accounts` | 2 users, 2 requests, 6 events | `AdminKept`, `EndedStaysEnded`, `NobodyLockedOut`, `NothingLeft` |
| `setup` | 2 servers, 2 instances, 2 settings, 2 requests, 1 tick, 4 events | `OneDefault`, `WorkersFollowSettings`, `ReleasedByRecords` |

**Bounds.** `MaxRuns`, `MaxVersions`, `MaxStalls`, `MaxHooks`, `MaxTime`, `MaxCrashes`,
`MaxTasks` and `MaxEvents` are in the guards of the actions they bound and are the only bounds
that are not settings of the program. Two contacts let one send finish while another is pending,
the case completion and counting depend on; two worker slots let two sends finish at once; two
runs let an old job meet a new dispatch; two requests suffice for every check-then-save race; an
attempt limit of 1 makes the final failure immediate, 2 includes a retry. One stall
(`MaxStalls = 1`) exercises the return of a job to the queue, and two deaths of a job are covered
by the proofs only. `BatchSize = 1` makes every contact a batch and leaves a gap between any two;
`restarts` puts both in one batch, as its hazard lies between requests and not within a dispatch.

`MaxEvents` counts what somebody outside decides: requests, contacts that change, refusals of
the provider, deaths and faults. What follows from an event is not bounded. A hazard of section 1
needs at most three of them (two requests and a failure between them), or two users in two roles
with a change each: the six events of `accounts`. Two verification requests need both contacts,
a limit that only one of them fits and three BullMQ jobs. Three links make one more than the
statistics hold.

**Which properties need which environment.** The counter properties of the campaign hold only
while MongoDB does not fail: `sendOne` deliberately swallows an error of the bookkeeping (a
second message is worse than a wrong number), and `markFailed` may be cut short.
`CompletedMeansAllEnded`, `OneRunAtATime` and `StartsAfterSends` hang together: a campaign is
completed when what it counted reaches the total, and a completed campaign may be started again.
Each of five things breaks all three as soon as there are two contacts, and each is the code's: an
audience that grows between `countDocuments` and the cursor (the total is too small,
`MCCampaign_growing.cfg`), a bounce that is counted twice, a fault or a death in the dispatch, and
a schedule, which hides a pause from `start`. The theorems name exactly these as their assumption
(`Orderly`). `AutoPauseArmed` assumes no webhook, which counts a bounce without checking the limit,
and no `resume`, which lets a campaign over its limit go on until the next failure.
The safety of messages (`NoDuplicateMail`, `ImplementsDelivery`) holds in all of them.

The properties of the other modules meet every fault their run has, and name their exceptions
in the formula, with a history variable for each: what a crash leaves (`troubles`, `faults`,
`lost`, `crashed`), what a lost answer leaves (`unanswered`), what the superadmin does unchecked
(`imposed`), and what the order of the code's own writes leaves (`joined`, `unclosed`, `twice`,
`raced`, `overlap`, `clobbered`, `overtaken`, `late`, `hidden`, `again`, `straddled`, `missed`).
`joined`, `unanswered`, `hidden` and `again` are numbers, and the properties have them as terms:
nothing is excused by them but what they count. `overtaken` is set only when a request that takes
an active administrator away was in flight when another one did the same (`stale`). Each
exception is a known weakness, and section 5 says which. The faults that
`tracking` excludes are the loss of a count after the write that admitted it, which no later
write makes good.

**Deadlock** is checked in the campaign's and the quotas' runs, whose requests and jobs can always
come again. In the others the world ends when its events are spent, and `CHECK_DEADLOCK` is off;
that nobody waits for ever is what their liveness properties say.

**Symmetry** permutes the identities of a run (contacts, requests, jobs, visits, links, servers,
instances, and every user but the founder); it is left out of the liveness runs.

## 4. Fairness

`FairSpec` of `Campaign` assumes: a handler that has begun and a worker that holds a job go on
(they are running code); BullMQ hands out every waiting job (strong: its slot may be taken by
others in between), and finds stalled jobs; capacity comes back for a job again and again (quota
windows roll, slots are released or expire; strong fairness of leaving `NoCapacity`); a pause
that lasts outlasts its limit. Nothing obliges users, the provider, MongoDB or crashes to act.
The `live` run has no MongoDB faults, crashes or login failures: a login that stays bad recycles
its job for ever by design, which `JobsDrain` states in its premise.

`Verification`, `ContactImport` and `FormWebhook` assume weak fairness of two things: that some
request under way goes on, and that some job that waits or is held by a worker goes on (the
worker's next step, BullMQ handing out a job, the stalled one included). Both disjunctions are
finite and their steps end, so that nobody can be passed over for ever. Calls of users, refusals
of the provider, deaths and faults are not fair. A server's quota that refuses a form's message is
one of the events, so that it comes back in the end. Each answer "processing" counts towards
`MaxPolls`, which stands for the 24 hours after which the code gives the list up.

`Accounts`, `Tracking` and `SendingSetup` state safety only: their requests are straight-line
code without a wait or a retry.

## 5. Findings

Ten formulas state what the code, a comment or a page says, and do not hold. They stand next to
the properties that do; each has a configuration that reproduces it (`tlc -config <file>
<module>`) and is not among the runs above.

| Configuration | Formula | What happens |
|---|---|---|
| `MCCampaign_double_start.cfg` | `WipesOnlyPastSends` | Two requests start one campaign: the loser deletes the winner's send logs (`campaign.service.ts:169`, "Remove os envios anteriores") before its save is refused. The winner's jobs then write to logs that are gone. |
| `MCCampaign_stuck.cfg` | `SendingEnds` | Pause while the last send is in flight, then resume: its `finalizeIfDone` found `paused`, no later one comes, the campaign is `sending` for ever. |
| `MCCampaign_bounced_twice.cfg` | `CompletedMeansAllEnded` | A bounce reported after the send was counted is counted again; the sum reaches the total early and the campaign is completed with a send to come. |
| `MCCampaign_paused_restart.cfg` | `PausedNotRestarted` | A paused campaign can be scheduled, and then started, while its jobs wait. |
| `MCSendThrottle_slots.cfg` | `SlotsRespected` | Counting and taking a slot are two commands; a tenant exceeds its concurrency. |
| `MCVerification_given_twice.cfg` | `GivesBackWhatItReserved` | A list that shrank gives its unused part back (`emailVerification.service.ts:244`) without lowering `job.reserved`. If the provider then refuses the upload for its rate, the next attempt, or `handleStepError` (375), gives back from the full amount again, against the comment at 374 that only what did not reach the provider is given back. |
| `MCTracking_unsubscribe.cfg` | `PromiseKept` | A contact that left, was taken back by the panel and leaves again with the link of the same message stays active: the log already says `unsubscribed`, so nothing is written, and the page says "Você não receberá mais nossos emails". The same after a new start deleted the log. |
| `MCTracking_bounced_once.cfg` | `BouncedOnce` | Two webhooks for one message both load the log before either has written it, and both find it not bounced (`bounce.service.ts:37`): both save it and both count, one bounce twice. |
| `MCAccounts_admins.cfg` | `AlwaysAnAdmin` | "Impede que o cliente fique sem nenhum administrador ativo" (`user.service.ts:99`) is checked for one's own account and, by a count, before a removal (139). Two administrators who demote, switch off or remove each other at once leave none; and the superadmin may demote or switch off the last one without any check. |
| `MCAccounts_removal.cfg` | `TotalRemoval` | `tenantPurge.ts:30-42` does not name `ImportJob`, which belongs to a tenant like the others (`models/ImportJob.ts:99`): import jobs stay when the tenant is gone, until the expiry of imports reaches them (`contactImport.service.ts:272-282`). |

Weaknesses that the exceptions of the properties name:

- *Campaign.* A contact that joins a list between the count and the cursor makes the total too
  small: the campaign is completed with a send to come and can be started again beside it
  (`MCCampaign_growing.cfg`, `OneRunAtATime`). A process that dies in the dispatch leaves
  `sending` for ever, and the scheduler's retry of it is refused. A job that stalled twice fails
  without being counted. The webhook counts a bounce without `autoPause`.
- *Verification.* Contacts that join between the count and the upload are billed without having
  been reserved (`joined`). A single check whose answer is lost after the provider has charged,
  its time-out of 15 s included (`emailListVerify.client.ts:122-131`), gives its unit back all the
  same (`emailVerification.service.ts:125-126`): the month's bill may pass the limit by as many
  addresses (`unanswered`). A crash after the provider accepted a list leads to a second upload
  only together with a refusal (`refused`).
- *Import.* Two confirmations leave an import `importing`: the second one's save comes after the
  first one's job, whose id BullMQ does not add again (`twice`). `validated` is written (184)
  before the files are closed (187), so that a quick confirmation reads a part (`unclosed`). A
  validation delivered again within two minutes returns and leaves `validating` (143-145).
  Addresses inserted by somebody else between the lookup and the insert can be missing from the
  list (`raced`); `insertMany` with `ordered: false` followed by a row-by-row retry understates
  what was imported. `contactCount` may stay wrong when two counting operations overlap
  (`overlap`).
- *Forms.* The key of an address outlives the request that failed after it: the next post is a
  duplicate of nothing. A delivery that broke off after the server took the message is repeated
  (`lost`).
- *Tracking.* A click writes over `bounced` (61), so that a repeated webhook counts again; an
  unsubscription writes over `bounced` and a bounce over `unsubscribed`; the worker's late `sent`
  writes over either (`hidden`: the log shows one status, the report counts both). Two webhooks at
  once count one bounce twice (`again`, above). An unsubscription that fails still
  shows its page. A start between a request's two writes leaves it counted in the wrong run
  (`straddled`).
- *Accounts.* A user saved from an old copy writes an old version back (`clobbered`). Two
  requests at once (`overtaken`) and the superadmin (`imposed`) can leave a tenant without an
  administrator, and the purge leaves import jobs (above). A session signed between the version's
  increment (`tenant.service.ts:137`) and the tenant's save works until it expires, and what a
  request writes after its collection was purged stays (`late`).
- *Settings.* A change between an instance's read and its subscription
  (`email.worker.ts:350-354`), or heard while its reload has already read (366), is missed
  (`missed`). A worker that fails to close leaves its instance without one.
- *Domains.* A check that met an outage may take down a domain that a check beside it has just
  released (`raced`).

## 6. Proofs

Thirty-four of the forty properties the runs check are proved, every invariant among them, for
every value of the constants that their assumptions allow and every bound. Each module states an
inductive invariant, proves `Init => IInv`, `IInv /\ [Next]_vars => IInv'` and `IInv => property`,
with one lemma per group of actions that change the same part of the state. The invariants that
are not obvious were first checked by TLC on the instances of section 3.

### The campaign

`CampaignProofs` (`SizesAssumption`, `BoundsAssumption`: every finite set of contacts, requests
and hooks, every choice of operations and events):

- `TypeCorrect`: `Spec => []TypeOK`.
- `MailInvariant`: `Spec => [](TypeOK /\ MailInv)`.
- `AtMostOneMail`: `Spec => []NoDuplicateMail`.
- `CampaignDelivers`: `Spec => ImplementsDelivery`, the refinement.

`NoDuplicateMail` (a job's messages are at most one plus its stalls) is not inductive. The
strengthening has two parts. `JobInv` ties the worker's place to the BullMQ state: a job that
is waiting, completed or removed is in nobody's hands, a failed one is at most in the
`failed` listener, and a job that may still send has no message beyond those a dead worker
left. It is the code's inner `try` that keeps it: from `sentLog` on, no path leads back to the
queue except a death, which raises `stalls`. `DispatchInv` is needed because a dispatch sets
its jobs to `waiting`: if it could queue a job that already ran, `JobInv` would break. It says
that every dispatch owns its run (runs are unique because the versioned save reads and
advances `camp.run` at once), and that the jobs it has still to queue are in no queue state.
The refinement follows by mapping each action to a step of `Delivery` or a stutter; a job that
is active without a message maps to `queued`, which is why an active job must not be removed
(`RemoveDrain`). The `faults` run checks both properties without schedules and with one run;
the theorems cover them together with every fault.

The second part of the module goes on from `MailInvariant`:

- `PauseTakesHold` (`PauseLatency`). While the campaign is paused or gone, the messages since then
  and the jobs that have passed the look at its status (`Senders`) are together at most
  `Concurrency`: no job joins the second group, and one that leaves it adds at most one to the
  first. At the moment of the pause the senders are among the jobs in the workers' hands
  (`LatencyInv`).
- `SentIsAccepted` (`SentNotOverstated`). The counter and the jobs whose message is accepted but
  not counted (`Uncounted`) are at most the messages (`SentInv`); a job that dies there takes its
  message out of the second term for good.
- `OneDispatchAtATime`, `CompletedIsOver`, `StartsFollowSends` (`OneRunAtATime`,
  `CompletedMeansAllEnded`, `StartsAfterSends`), one argument for the three (`RunInv`): what the
  campaign has counted is at most the jobs of its run that have ended; those queued and those the
  dispatch has still to queue are at most the total; so a campaign that counted its total has
  nothing left (`Settled`). A start that read a campaign so, and whose save still finds its
  version, leaves nothing behind, since only another start may queue a job and that one would have
  raised the version. They assume `Orderly`: nothing is scheduled, the audience stays as it was
  counted, no fault, death or webhook. It is not a convenience: TLC refutes the properties under
  each of them (section 3). Any number of starts, pauses, resumes, edits and removals at once, any
  number of runs, and changes of the server are covered.
- `LimitIsArmed` (`AutoPauseArmed`): with `Orderly` and without `resume`, whoever takes the
  counters to the limit of errors is in the `failed` listener or the bounce's bookkeeping and on
  the way to pause.
- `LogsAreTrue` (`LogTellsTruth`), as long as no process dies and MongoDB answers (`Unbroken`);
  audiences, webhooks, schedules and double starts are covered. The job of a `sent` log has a
  message, that of a `failed` log has none and is past the point where it could get one
  (`TruthInv`). A job carries the `_id` of its log and writes by it, so that a job of an earlier
  dispatch finds nothing where a later one has inserted its own. `BoundInv` keeps every dispatch,
  and with it every log, within the runs there are jobs of: a start whose save finds its version
  has read the campaign's run, and the bound is asked before.
- `CountersAreTrue` (`CountersMatchLogs`) and `NobodyIsLeft` (`NobodyLeftBehind`), one argument for
  the two (`LedgerInv`), under `Orderly` and one request at a time (`OneRequest`). A job that has
  not written its outcome is `Open`, and its log says `pending`; a `pending` log has such a job, or
  a handler that is about to queue or to delete it. So every step of a worker moves one job and at
  most one log: it writes the outcome of a pending log, or counts what it wrote (`Moves`), and each
  counter with the jobs about to raise it stays the number of its logs (`Books`). A start's save
  finds all jobs ended (`RunInv`) and no logs (`~Whole`), and begins at zero. The second request is
  not left out for convenience: a start that loses its save, to another start or to an edit, has
  deleted logs that the counters still speak of (section 5), and a removal during a dispatch leaves
  logs behind it.

### Quotas

`ThrottleProofs` (`ThrottleAssumption`):

- `SlotsReturned`: `SlotsGivenBack`. A slot belongs to a job in its send or to one that died in
  it (`SlotInv`, with `PlaceInv` for the steps that only exist under a limit).
- `QuotasKept` and `CountersKept`: `ReservationsWithinLimit` and `CountersExact`. The invariant
  speaks of each window apart: its counter is at least what was spent and what jobs hold, and at
  most that plus the crashes. The number of jobs that hold a window changes by one with a step of
  one of them (`NumberChange`), which is what lets a cardinality be followed through every action.
- `SpillKept`: `SpillBounded`. A window's messages, the jobs that may still send for it, and the
  jobs that read the clock in an earlier window are together at most what was spent of it and the
  number of jobs (`SpillInv`): a job is late once, and sends or reads the clock anew.

### Servers, domains and settings

`SetupProofs` (`SetupAssumption`, `DomainAssumption`, `SettingsAssumption`):

- `DefaultKept`: `OneDefault`. A second default server has a save still on its way to clear it
  (`Contested`, `Alone`); a flag is gone only by removal, by choice or by saves that overlapped
  (`Kept`).
- `SettingsFollowed`: `WorkersFollowSettings`. An instance that runs on something other than what
  is saved has a notice to handle, is reloading, or is one that the change missed (`Created`,
  `Deaf`, `Follows`).
- `RecordsRelease`: `ReleasedByRecords`, an action property. A verdict that released was right
  when it was looked up (`Grounded`), and whoever holds an outage's answer for a released domain
  was overtaken (`Overtaken`).

### Forms

`FormProofs` (`FormAssumption`: finitely many posts): `FateMatches` is `MailsMatchFate`,
`WindowsHold` is `OnePerWindow`, `NumbersAreSubmissions` is `StatsAddUp`. `Asked` and `Delivered`
tie the request, the submission, its job and the worker's place together; `Windows` says that every
window ever opened has one opener, and that no two openers of an address share one. `StatsInv`
balances each counter: it and the processes about to raise it are at most the submissions of that
kind, and equal to them when nothing failed. A failure between a submission's write and its count
is what the inequality is for.

### Tracking

`TrackingProofs` (`TrackingAssumption`: finitely many recipients, visits and webhooks): `LinksKept`
is `LinksTrue`, `EngagementCounted` is `EngagementAddsUp`. `LinkInv` adds to the first only
the types of the links and of the requests under way; the code's two conditional updates do the
rest: an entry is pushed by an update that asks at once for its absence and for room. `TallyInv`
adds the log: what was recorded and is not counted yet is in the hands of one request, what was
written over or found written by another webhook is in `hidden` and `again`, and a request that a
start has overtaken finds no log, because the log's `_id` is that of its own message (`RunInv`).

### Accounts

`AccountsProofs` (`AccountsAssumption`: the founder is a user; any set of users, requests,
sessions):

- `AnAdminIsKept`: `AdminKept`. `KeptInv` says, for every request about to take an active
  administrator away by a change or a removal (`Takes`), that another one is left after it
  (`Spared`), as long as no active administrator went since the request looked (it is not `stale`)
  and it is not the superadmin's change. For a change the other one is who asks: an administrator
  then, by the middleware, and never the one who is changed. For a removal it is what the count of
  the active administrators found beyond the one to be removed. `AdminStep` follows both: whoever
  takes one away makes every other request in flight `stale`, so a second one is `overtaken`.
- `SessionsStayEnded`: `EndedStaysEnded`. Copies and tokens are of versions that were, and a token
  that ended is below its user's (`VersionInv`), but for users over whom an old copy was saved.
- `NobodyIsLockedOut`: `NobodyLockedOut`. A patch with a password nobody knows carries the invite
  (`IsPatch`).
- `NothingIsLeft`: `NothingLeft`. `PurgeInv` says what each step of a removal has left behind:
  of the collections the purge names, only what was written after it (`late`), and then the same
  for the users.

### Verification

`VerificationProofs` (`VerificationAssumption`: finitely many contacts, requests and single
addresses, no request is an address, the limit is a number, 0 for none; any set of workers, any
number of retries) has two invariants.

`VerificationInv` carries `ListsGoOnce` (`UploadedOnce`) and `VerdictsWritten`
(`DoneMeansApplied`). `Fit` says, for every job and every point of it, where its document may be:
that is what the checks of the status at the head of each step establish, and what no other job of
the document may upset. Two uploads of one document live side by side only when one has passed the
work on (`OneUpload`). All of it holds as long as a crash and a refusal have not both happened
(`Calm`), as in the two properties.

`QuotaInv` (`BooksAreKept`) adds the books of the quota, while no process dies and MongoDB answers,
and carries two theorems:

- `BillFitsTheQuota`: `BilledWithinQuota`.
- `CounterMatchesTheBill`: `QuotaMatchesBilling`.

`BooksHold` shares out the difference between the counter and the answered part of the bill
(`Answered`: what the provider charged without an answer arriving was given back and is apart)
among the documents (`d`,
with `f` for how often each was refused) and the single addresses. The share of a document is
bounded by where the one job that acts for it stands (`Book`): it is the whole reservation until
the upload has read the list, then at most the size of the list while it is uploaded, the addresses
without a verdict once it is charged, and at the end nothing, or the reservation of a list that
failed. Contacts that joined may make a share negative, and contacts that left may have been given
back once for each refusal: that is where the terms of `BilledWithinQuota` come from. The counter
itself exceeds the limit only by what a caller has reserved in vain and is about to give back. A
step of a job changes one share and the difference by the same amount (`Sum` moves by what one of
its terms moves by). The sum is the library's fold over a finite set; its recursion is unfolded one
element at a time by the library's theorems on well-founded orders (`SetInduction`, from `WFMin`),
which need no operator as a parameter.

### Import

`ImportProofs` (`ImportAssumption`: a file has a number of rows; any set of imports, users,
requests, addresses, lists and cells, finite or not). Types and `JobsFit` (a job works exactly
while BullMQ says active) carry three invariants:

- `VerdictIsTheFiles`: `VerdictMatchesFile`. A validation's tally is that of the rows behind it, and
  its file as long as the tally says (`RowsCounted`). The hard part is that nothing spoils a verdict
  afterwards: `VerdictStands` for every import that is `Judged`, which is not only one whose status
  says so but also one that somebody is about to confirm, or that is being imported after a cancel
  or a failure was written over the status. No validation of such an import is under way or can
  begin, because a job's id is added once and the status lets no second delivery in.
- `DoneIsComplete`: `ImportComplete`. The rows written so far are those at the head of the accepted
  file (`Reads`), and each is covered: in the list, touched by somebody, or beaten by an insert. A
  row that was covered stays so, because contacts only lose what somebody touches (`Grows`). Between
  the lookup and the write, `Finds` says in which ways the contact may have changed. A second
  delivery starts again from the first row and may find what the first has written.
- `CountsStayRight`: `CountsRight`. As long as nothing overlapped and nothing broke off, one request
  or one import is under way at most (`OneActor`), and at each of its steps it knows which counts
  are wrong (`OnlyOff`), or holds the counts that, once stored, right them all (`RightAfter`). An
  update must count the lists the contact was in as well as those it is put into: without the former
  (`BeginUpdateNewOnly`) the invariant fails at the write.

### Only model-checked

- All liveness and `ImplementsFairDelivery`: they need fairness and `ENABLED`, which are out of
  the prover's reach.
- What no theorem is about because it does not hold: the formulas of section 5.

## 7. Not modelled

- Segments, templates, rendering and transport, dashboards and reports, parsing of files, export
  and search, start-up, scripts and the validation of requests: pure functions, reads and wiring;
  none keeps a state that a second actor could meet half-way.
- The filter the scope plugin adds to queries: every module is about one tenant. The encryption
  of credentials and the connection test of a server.
- Soft bounces and `Contact.lastDeliveredAt`, which nothing the modules hold depends on, and the
  checks of template and sending domain in `start` (errors before any change; the verdict itself
  is in `SendingDomains`).
- Errors of Redis in a worker of campaigns (its client waits for a reconnection), and the loss of
  a job's lock without a death. In `Campaign`, a message the server accepted although the worker
  saw an error: the retry would duplicate it, and nothing the program can observe tells the two
  apart. `FormWebhook` has that answer, and counts it in `lost`.
- Expiry of Redis keys in `SendThrottle`, invisible because a key outlives its window; a second
  month in `Verification`.

## 8. Plan

Done: every module of section 2; proofs of every safety property of the campaign, quotas, forms,
tracking, accounts, settings, the import and the verification.

Left, in this order:

1. An abstract verification (queued, running, ended once) that `Verification` implements.
2. The quota of a form's message and of a campaign's in one module: both reserve from the same
   windows of `SendThrottle`.
