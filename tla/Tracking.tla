------------------------------ MODULE Tracking ------------------------------
(***************************************************************************)
(* What recipients do with a message (controllers/tracking.controller):    *)
(* they load its pixel, follow its links, leave; while the worker still    *)
(* books the message as sent, the provider reports it bounced, the panel   *)
(* takes a contact back, and the campaign is started again.  One campaign; *)
(* one action per round trip to MongoDB.                                   *)
(***************************************************************************)
EXTENDS Integers, FiniteSets, Sequences, TLC

CONSTANTS Contacts,
          Visits,        \* requests of recipients in flight at once
          Reports,       \* webhooks of the provider in flight at once
          Urls,          \* links a message may carry
          MaxLinkStats,  \* MAX_LINK_STATS
          MaxRuns,       \* bound: starts of the campaign
          MaxEvents      \* bound: visits, reports, requests of the panel, faults

ASSUME TrackingAssumption ==
    IsFiniteSet(Contacts) /\ IsFiniteSet(Visits) /\ IsFiniteSet(Reports)
    /\ MaxLinkStats \in Nat \ {0} /\ MaxRuns \in Nat \ {0} /\ MaxEvents \in Nat

VARIABLES
    log,        \* the SendLog of each contact: its run (for the _id), status, what was counted of it
    contact,    \* Contact.status
    stats,      \* campaign.stats, by what they count
    links,      \* campaign.linkStats
    run,        \* starts of the campaign so far
    starting,   \* the next step of a start
    delivered,  \* messages the server accepted: contact and run
    booking,    \* messages the worker has still to mark sent
    visit,      \* each request of a recipient: step, kind, message, link
    report,     \* each webhook: step, and the documents it loaded
    panel,      \* the request that takes a contact back, and the status it loaded
    promised,   \* history: contacts told they get no more, and not taken back since
    followed,   \* history: links whose click has been written since the start
    hidden,     \* history: logs that said unsubscribed, or bounced, and were written over
    again,      \* history: bounces counted again by a webhook that overlapped another one
    straddled,  \* history: a request had written a log before a start and counts after it
    troubles,   \* history: crashes and failures of MongoDB
    events      \* visits, reports, panel requests and faults so far (bound)

people == <<visit, report, panel>>
sending == <<run, starting, delivered, booking>>
outside == <<people, promised, troubles, events>>
marks == <<hidden, again>>
vars == <<log, contact, stats, links, sending, outside, followed, marks, straddled>>

NoLink == "noLink"
Kinds == {"open", "click", "unsubscribe"}
NoLog == [run |-> 0, status |-> "none", seen |-> {}]
NewLog(r) == [run |-> r, status |-> "pending", seen |-> {}]
Idle == [step |-> "idle"]
NoStats == [k \in Kinds \cup {"bounce"} |-> 0]

\* What a log says of a recipient who is lost.
Final == {"unsubscribed", "bounced"}
NoneHidden == [s \in Final |-> 0]

Init ==
    /\ log = [c \in Contacts |-> NewLog(1)] /\ contact = [c \in Contacts |-> "active"]
    /\ stats = NoStats /\ links = <<>>
    /\ run = 1 /\ starting = "no" /\ delivered = {} /\ booking = {}
    /\ visit = [v \in Visits |-> Idle] /\ report = [h \in Reports |-> Idle] /\ panel = Idle
    /\ promised = {} /\ followed = {} /\ hidden = NoneHidden /\ again = 0 /\ straddled = FALSE
    /\ troubles = 0 /\ events = 0

Event == events < MaxEvents /\ events' = events + 1

\* A status is written, over one that may have said that the recipient is lost.
SetStatus(c, s) ==
    LET old == log[c].status IN
    /\ log' = [log EXCEPT ![c].status = s]
    /\ hidden' = IF old \in Final \ {s} THEN [hidden EXCEPT ![old] = @ + 1] ELSE hidden
------------------------------------------------------------------------------
(* The campaign.                                                            *)
Send(c) ==
    /\ log[c].status = "pending" /\ <<c, log[c].run>> \notin delivered
    /\ delivered' = delivered \cup {<<c, log[c].run>>} /\ booking' = booking \cup {<<c, log[c].run>>}
    /\ UNCHANGED <<log, contact, stats, links, run, starting, outside, followed, marks, straddled>>

\* updateOne({ _id }), whatever the status has become meanwhile.
Book(m) ==
    /\ m \in booking /\ booking' = booking \ {m} /\ SetStatus(m[1], "sent")
    /\ UNCHANGED <<contact, stats, links, run, starting, delivered, outside, followed, again, straddled>>

\* Only a campaign that is not sending is started: every message of it is booked.
WipeLogs ==
    /\ starting = "no" /\ run < MaxRuns /\ booking = {} /\ \A c \in Contacts : log[c].status # "pending"
    /\ log' = [c \in Contacts |-> NoLog] /\ starting' = "reset"
    /\ UNCHANGED <<contact, stats, links, run, delivered, booking, outside, followed, marks, straddled>>

\* What a request does between its write of the log and its count.
Counting(k) == {v \in Visits : visit[v].step \in {"status", "contact", "count"} /\ visit[v].kind = k}
Reporting == {h \in Reports : report[h].step = "count"}

ResetStats ==
    /\ starting = "reset" /\ starting' = "dispatch" /\ run' = run + 1
    /\ stats' = NoStats /\ links' = <<>> /\ followed' = {} /\ hidden' = NoneHidden /\ again' = 0
    /\ straddled' = (Reporting # {} \/ \E k \in Kinds : Counting(k) # {})
    /\ UNCHANGED <<log, contact, delivered, booking, outside>>

Dispatch ==
    /\ starting = "dispatch" /\ starting' = "no"
    /\ log' = [c \in Contacts |-> IF contact[c] = "active" THEN NewLog(run) ELSE NoLog]
    /\ UNCHANGED <<contact, stats, links, run, delivered, booking, outside, followed, marks, straddled>>
------------------------------------------------------------------------------
(* Recipients.                                                              *)
Goto(v, s) == visit' = [visit EXCEPT ![v].step = s]
KeepOthers == UNCHANGED <<sending, report, panel, straddled>>
Found(v) == log[visit[v].who].run = visit[v].run

Visit(v, k, m, u) ==
    /\ visit[v].step = "idle" /\ m \in delivered /\ Event
    /\ u = NoLink \/ k = "click"
    /\ visit' = [visit EXCEPT ![v] = [step |-> "log", kind |-> k, who |-> m[1], run |-> m[2], url |-> u,
                                      void |-> FALSE]]
    /\ UNCHANGED <<log, contact, stats, links, promised, followed, marks, troubles>> /\ KeepOthers

\* The answer: the page that confirms appears however the handler ended.
Promise(v) ==
    promised' = promised \cup IF visit[v].kind = "unsubscribe" /\ ~visit[v].void THEN {visit[v].who} ELSE {}
Answer(v) == visit' = [visit EXCEPT ![v] = Idle] /\ Promise(v)
After(v) == IF visit[v].kind = "click" THEN Goto(v, "link") /\ UNCHANGED promised ELSE Answer(v)

\* Mutant: the document is found without openCount: 0.
IsFirstAlways(k, c) == TRUE
\* findOneAndUpdate: the first open or click, or the log not yet unsubscribed.
IsFirst(k, c) == IF k = "unsubscribe" THEN log[c].status # "unsubscribed" ELSE k \notin log[c].seen
First(v) ==
    LET c == visit[v].who
        k == visit[v].kind
        first == Found(v) /\ IsFirst(k, c) IN
    /\ visit[v].step = "log"
    /\ \/ /\ first /\ k = "unsubscribe" /\ SetStatus(c, "unsubscribed") /\ Goto(v, "contact")
          /\ UNCHANGED promised
       \/ /\ first /\ k # "unsubscribe" /\ log' = [log EXCEPT ![c].seen = @ \cup {k}] /\ Goto(v, "status")
          /\ UNCHANGED <<hidden, promised>>
       \/ ~first /\ After(v) /\ UNCHANGED <<log, hidden>>
    /\ UNCHANGED <<contact, stats, links, followed, again, troubles, events>> /\ KeepOthers

\* The status of the log, unless it says more already.
Status(v) ==
    LET c == visit[v].who IN
    /\ visit[v].step = "status" /\ Goto(v, "count")
    /\ IF Found(v) /\ visit[v].kind = "open" /\ log[c].status = "sent" THEN SetStatus(c, "opened")
       ELSE IF Found(v) /\ visit[v].kind = "click" /\ log[c].status # "unsubscribed" THEN SetStatus(c, "clicked")
       ELSE UNCHANGED <<log, hidden>>
    /\ UNCHANGED <<contact, stats, links, promised, followed, again, troubles, events>> /\ KeepOthers

LeaveContact(v) ==
    /\ visit[v].step = "contact" /\ Goto(v, "count")
    /\ contact' = [contact EXCEPT ![visit[v].who] = "unsubscribed"]
    /\ UNCHANGED <<log, stats, links, promised, followed, marks, troubles, events>> /\ KeepOthers

Count(v) ==
    /\ visit[v].step = "count" /\ After(v)
    /\ stats' = [stats EXCEPT ![visit[v].kind] = @ + 1]
    /\ UNCHANGED <<log, contact, links, followed, marks, troubles, events>> /\ KeepOthers

\* { 'linkStats.url': safeUrl }, and $inc of linkStats.$.clicks.
HasLink(u) == \E i \in DOMAIN links : links[i].url = u
IncLink(v) ==
    LET u == visit[v].url IN
    /\ visit[v].step = "link"
    /\ \/ u = NoLink /\ Answer(v) /\ UNCHANGED <<links, followed>>
       \/ /\ HasLink(u) /\ Answer(v) /\ followed' = followed \cup {u}
          /\ links' = [i \in DOMAIN links |-> IF links[i].url = u THEN [links[i] EXCEPT !.clicks = @ + 1] ELSE links[i]]
       \/ u # NoLink /\ ~HasLink(u) /\ Goto(v, "push") /\ UNCHANGED <<links, promised, followed>>
    /\ UNCHANGED <<log, contact, stats, marks, troubles, events>> /\ KeepOthers

\* Mutant: without the $ne of the second update.
MayPushAgain(u) == Len(links) < MaxLinkStats
MayPush(u) == ~HasLink(u) /\ Len(links) < MaxLinkStats
PushLink(v) ==
    LET u == visit[v].url IN
    /\ visit[v].step = "push" /\ Answer(v) /\ followed' = followed \cup {u}
    /\ links' = IF MayPush(u) THEN Append(links, [url |-> u, clicks |-> 1]) ELSE links
    /\ UNCHANGED <<log, contact, stats, marks, troubles, events>> /\ KeepOthers

\* The catch logs the error and answers as ever; a process that dies answers nothing.
VisitFails(v) ==
    /\ visit[v].step # "idle" /\ Event /\ troubles' = troubles + 1
    /\ \/ Answer(v)
       \/ visit' = [visit EXCEPT ![v] = Idle] /\ UNCHANGED promised
    /\ UNCHANGED <<log, contact, stats, links, followed, marks>> /\ KeepOthers
------------------------------------------------------------------------------
(* The provider: processBounce, called by the webhook.                      *)
KeepVisits == UNCHANGED <<sending, visit, panel, links, promised, followed, straddled>>
ReportTo(h, s) == report' = [report EXCEPT ![h].step = s]
ReportEnds(h) == report' = [report EXCEPT ![h] = Idle]

Report(h, m) ==
    /\ report[h].step = "idle" /\ m \in delivered /\ Event
    /\ report' = [report EXCEPT ![h] = [step |-> "find", who |-> m[1], log |-> NoLog, status |-> "none"]]
    /\ UNCHANGED <<log, contact, stats, marks, troubles>> /\ KeepVisits

\* The last message to the address; without one there is no tenant.
FindLog(h) ==
    LET c == report[h].who IN
    /\ report[h].step = "find"
    /\ IF log[c] = NoLog THEN ReportEnds(h)
       ELSE report' = [report EXCEPT ![h].log = log[c], ![h].step = "load"]
    /\ UNCHANGED <<log, contact, stats, marks, troubles, events>> /\ KeepVisits

FindContact(h) ==
    /\ report[h].step = "load"
    /\ report' = [report EXCEPT ![h].status = contact[report[h].who], ![h].step = "contact"]
    /\ UNCHANGED <<log, contact, stats, marks, troubles, events>> /\ KeepVisits

BounceContact(h) ==
    /\ report[h].step = "contact" /\ ReportTo(h, "log")
    /\ contact' = IF report[h].status # "bounced" THEN [contact EXCEPT ![report[h].who] = "bounced"] ELSE contact
    /\ UNCHANGED <<log, stats, marks, troubles, events>> /\ KeepVisits

\* save() of the copy: it throws if the document is gone, and asks nothing of the status the
\* document has by now.
Overlapped(h) == report[h].log.status # "bounced" /\ log[report[h].who].status = "bounced"
BounceLog(h) ==
    LET c == report[h].who IN
    /\ report[h].step = "log"
    /\ IF report[h].log.status # "bounced" /\ log[c].run = report[h].log.run
       THEN /\ SetStatus(c, "bounced") /\ ReportTo(h, "count")
            /\ again' = again + IF Overlapped(h) THEN 1 ELSE 0
       ELSE ReportEnds(h) /\ UNCHANGED <<log, marks>>
    /\ UNCHANGED <<contact, stats, troubles, events>> /\ KeepVisits

CountBounce(h) ==
    /\ report[h].step = "count" /\ ReportEnds(h)
    /\ stats' = [stats EXCEPT !["bounce"] = @ + 1]
    /\ UNCHANGED <<log, contact, marks, troubles, events>> /\ KeepVisits

ReportFails(h) ==
    /\ report[h].step # "idle" /\ Event /\ troubles' = troubles + 1 /\ ReportEnds(h)
    /\ UNCHANGED <<log, contact, stats, marks>> /\ KeepVisits
------------------------------------------------------------------------------
(* The panel: reactivate.                                                   *)
LoadContact(c) ==
    /\ panel.step = "idle" /\ Event
    /\ panel' = [step |-> "save", who |-> c, seen |-> contact[c]]
    /\ UNCHANGED <<log, contact, stats, links, sending, visit, report, promised, followed, marks, straddled, troubles>>

\* Mongoose writes a status the copy did not have; requests in hand were before it.
Reactivate ==
    LET c == panel.who IN
    /\ panel.step = "save" /\ panel' = Idle
    /\ IF panel.seen = "active" THEN UNCHANGED <<contact, promised, visit>>
       ELSE /\ contact' = [contact EXCEPT ![c] = "active"] /\ promised' = promised \ {c}
            /\ visit' = [v \in Visits |-> IF visit[v].step # "idle" /\ visit[v].who = c
                                          THEN [visit[v] EXCEPT !.void = TRUE] ELSE visit[v]]
    /\ UNCHANGED <<log, stats, links, sending, report, followed, marks, straddled, troubles, events>>

VisitSteps(v) == First(v) \/ Status(v) \/ LeaveContact(v) \/ Count(v) \/ IncLink(v) \/ PushLink(v)
ReportSteps(h) == FindLog(h) \/ FindContact(h) \/ BounceContact(h) \/ BounceLog(h) \/ CountBounce(h)

Next ==
    \/ \E c \in Contacts : Send(c) \/ LoadContact(c)
    \/ \E m \in Contacts \X (1..MaxRuns) : \/ Book(m)
                                           \/ \E v \in Visits, k \in Kinds, u \in Urls \cup {NoLink} : Visit(v, k, m, u)
                                           \/ \E h \in Reports : Report(h, m)
    \/ WipeLogs \/ ResetStats \/ Dispatch \/ Reactivate
    \/ \E v \in Visits : VisitSteps(v) \/ VisitFails(v)
    \/ \E h \in Reports : ReportSteps(h) \/ ReportFails(h)

Spec == Init /\ [][Next]_vars
------------------------------------------------------------------------------
\* The numbers of the report are the recipients: an open or a click is counted once however
\* many times the pixel is loaded at once; the unsubscriptions and the bounces are those the
\* logs show and those that another status was written over, and besides a bounce counts once
\* more for each webhook that had looked at the log before another one wrote it.  Failures and
\* restarts that overtake a request aside.
With(s) == {c \in Contacts : log[c].status = s}
EngagementAddsUp ==
    starting # "reset" /\ troubles = 0 /\ ~straddled =>
        /\ \A k \in {"open", "click"} :
              stats[k] + Cardinality(Counting(k)) = Cardinality({c \in Contacts : k \in log[c].seen})
        /\ stats["unsubscribe"] + Cardinality(Counting("unsubscribe"))
               = Cardinality(With("unsubscribed")) + hidden["unsubscribed"]
        /\ stats["bounce"] + Cardinality(Reporting) = Cardinality(With("bounced")) + hidden["bounced"] + again

\* A contact's bounce is counted once, as far as no other status hid it; it does not hold, for
\* two webhooks at once.
BouncedOnce ==
    starting # "reset" /\ ~straddled => stats["bounce"] <= Cardinality(With("bounced")) + hidden["bounced"]

\* "Evita que o documento da campanha cresça sem limite": linkStats has its limit and one
\* entry for a link, and every link that was followed while there was room, whichever
\* clicks came first at once.
LinksTrue ==
    /\ Len(links) <= MaxLinkStats
    /\ \A i, j \in DOMAIN links : i # j => links[i].url # links[j].url
    /\ \A u \in followed : HasLink(u) \/ Len(links) = MaxLinkStats

\* "Você não receberá mais nossos emails": whoever was shown that page and was not taken
\* back since is no active contact, or is about to be none.  Failures aside.
PromiseKept ==
    troubles = 0 => \A c \in promised : contact[c] = "active" =>
        \E v \in Visits : visit[v].step = "contact" /\ visit[v].who = c
=============================================================================
