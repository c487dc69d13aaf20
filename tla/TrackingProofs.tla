--------------------------- MODULE TrackingProofs ---------------------------
(***************************************************************************)
(* Tracking, for any number of recipients, requests, webhooks, links and   *)
(* failures.  linkStats keeps its limit, has one entry for a link, and has *)
(* every link that was followed while there was room (LinkInv); and the    *)
(* numbers of the report are the recipients (TallyInv): what is to be      *)
(* counted is in the hands of one request from the write of the log to the *)
(* count, and a request finds only the log of its own message (RunInv).    *)
(***************************************************************************)
EXTENDS Tracking, SequenceTheorems, FiniteSetTheorems, TLAPS

LinkStats == [url : Urls \cup {NoLink}, clicks : Nat]
Steps == {"log", "status", "contact", "count", "link", "push"}
Trips == [step : Steps, kind : Kinds, who : Contacts, run : Nat, url : Urls \cup {NoLink}, void : BOOLEAN]

\* A request in hand knows its link; the entries are the links.
LinkInv ==
    /\ visit \in [Visits -> {Idle} \cup Trips]
    /\ links \in Seq(LinkStats) /\ followed \subseteq Urls \cup {NoLink}
    /\ LinksTrue

-----------------------------------------------------------------------------
\* A request that is under way has a record to go on with.
LEMMA OnTheWay ==
  ASSUME LinkInv, NEW v \in Visits, visit[v].step # "idle"
  PROVE  visit[v] \in Trips
BY DEF LinkInv, Idle

\* Its next step, or its answer, leaves a record of the same kind.
LEMMA VisitGoes ==
  ASSUME LinkInv, NEW v \in Visits, visit[v].step # "idle", NEW s \in Steps, Goto(v, s) \/ Answer(v)
  PROVE  visit' \in [Visits -> {Idle} \cup Trips]
<1>1. visit[v] \in Trips
  BY OnTheWay
<1>2. CASE Goto(v, s)
  <2> DEFINE m == [visit[v] EXCEPT !.step = s]
  <2>1. m \in Trips
    BY <1>1 DEF Trips
  <2>2. visit' = [visit EXCEPT ![v] = m]
    BY <1>2 DEF Goto
  <2> HIDE DEF m
  <2> QED BY <2>1, <2>2 DEF LinkInv
<1>3. CASE Answer(v)
  BY <1>3 DEF Answer, LinkInv
<1> QED BY <1>2, <1>3

\* One more click of a link: the same entries.
LEMMA Incremented ==
  ASSUME LinkInv, NEW v \in Visits, IncLink(v)
  PROVE  LinkInv'
<1>1. visit[v].step = "link" /\ visit[v] \in Trips
  BY OnTheWay DEF IncLink
<1>3. visit' \in [Visits -> {Idle} \cup Trips]
  BY <1>1, VisitGoes DEF IncLink, Steps
<1>4. CASE UNCHANGED <<links, followed>>
  BY <1>3, <1>4 DEF LinkInv, LinksTrue, HasLink
<1>5. CASE /\ HasLink(visit[v].url) /\ followed' = followed \cup {visit[v].url}
           /\ links' = [i \in DOMAIN links |-> IF links[i].url = visit[v].url THEN [links[i] EXCEPT !.clicks = @ + 1] ELSE links[i]]
  <2>1. links \in Seq(LinkStats) /\ DOMAIN links = 1..Len(links) /\ Len(links) \in Nat
    BY DEF LinkInv
  <2>2. \A i \in 1..Len(links) : links[i] \in LinkStats
    BY <2>1
  <2>3. \A i \in 1..Len(links) : links'[i] \in LinkStats /\ links'[i].url = links[i].url
    BY <1>5, <2>1, <2>2 DEF LinkStats
  <2>4. links' \in [1..Len(links) -> LinkStats]
    BY <1>5, <2>1, <2>3
  <2>5. links' \in Seq(LinkStats)
    BY <2>1, <2>4, SeqDef
  <2>6. DOMAIN links' = 1..Len(links) /\ Len(links') = Len(links)
    BY <2>1, <2>4, <2>5, LenProperties
  <2>7. \A u : HasLink(u)' <=> HasLink(u)
    BY <2>1, <2>3, <2>6 DEF HasLink
  <2>8. LinksTrue'
    BY <1>5, <2>1, <2>3, <2>6, <2>7 DEF LinkInv, LinksTrue
  <2> QED BY <1>1, <1>3, <1>5, <2>5, <2>8 DEF LinkInv, Trips
<1> QED BY <1>4, <1>5 DEF IncLink

\* The first click of a link: a new entry, unless another request made it meanwhile or the
\* list is full.
LEMMA Pushed ==
  ASSUME LinkInv, NEW v \in Visits, PushLink(v)
  PROVE  LinkInv'
<1> DEFINE u == visit[v].url
<1>1. visit[v].step = "push" /\ visit[v] \in Trips
  BY OnTheWay DEF PushLink
<1>2. followed' = followed \cup {u}
  BY DEF PushLink, u
<1>3. visit' \in [Visits -> {Idle} \cup Trips]
  BY <1>1, VisitGoes DEF PushLink, Steps
<1>4. u \in Urls \cup {NoLink}
  BY <1>1 DEF Trips
<1> HIDE DEF u
<1>5. links \in Seq(LinkStats) /\ MaxLinkStats \in Nat
  BY TrackingAssumption DEF LinkInv
<1>6. CASE MayPush(u)
  <2> DEFINE e == [url |-> u, clicks |-> 1]
  <2>1. e \in LinkStats /\ e.url = u
    BY <1>4 DEF LinkStats
  <2>2. links' = Append(links, e)
    BY <1>6 DEF PushLink, u
  <2> HIDE DEF e
  <2>3. links' \in Seq(LinkStats) /\ Len(links') = Len(links) + 1
    BY <1>5, <2>1, <2>2
  <2>4. /\ DOMAIN links = 1..Len(links) /\ DOMAIN links' = 1..(Len(links) + 1)
        /\ \A i \in 1..Len(links) : links'[i] = links[i]
        /\ links'[Len(links) + 1].url = u /\ Len(links) \in Nat
    BY <1>5, <2>1, <2>2
  <2>5. Len(links') <= MaxLinkStats
    BY <1>5, <1>6, <2>3, <2>4 DEF MayPush
  <2>6. \A i \in DOMAIN links : links[i].url # u
    BY <1>6 DEF MayPush, HasLink
  <2>7. \A i, j \in DOMAIN links' : i # j => links'[i].url # links'[j].url
    BY <2>4, <2>6 DEF LinkInv, LinksTrue
  <2>8. \A w \in followed' : HasLink(w)' \/ Len(links') = MaxLinkStats
    <3>1. \A w : HasLink(w) \/ w = u => HasLink(w)'
      BY <2>4 DEF HasLink
    <3>2. Len(links) # MaxLinkStats
      <4>1. Len(links) \in Nat /\ Len(links) < MaxLinkStats
        BY <1>6, <2>4 DEF MayPush
      <4> QED BY <1>5, <4>1
    <3>3. \A w \in followed : HasLink(w)
      BY <3>2 DEF LinkInv, LinksTrue
    <3> QED BY <1>2, <3>1, <3>3
  <2> QED BY <1>2, <1>3, <1>4, <2>3, <2>5, <2>7, <2>8 DEF LinkInv, LinksTrue
<1>7. CASE ~MayPush(u)
  <2>1. links' = links
    BY <1>7 DEF PushLink, u
  <2>2. HasLink(u) \/ Len(links) = MaxLinkStats
    <3>1. Len(links) \in Nat /\ Len(links) <= MaxLinkStats
      BY <1>5 DEF LinkInv, LinksTrue
    <3> QED BY <1>5, <1>7, <3>1 DEF MayPush
  <2> QED BY <1>2, <1>3, <1>4, <2>1, <2>2 DEF LinkInv, LinksTrue, HasLink
<1> QED BY <1>6, <1>7

\* Everything else a request does.
LEMMA Visited ==
  ASSUME LinkInv, NEW v \in Visits,
         First(v) \/ Status(v) \/ LeaveContact(v) \/ Count(v) \/ VisitFails(v)
  PROVE  LinkInv'
<1>1. UNCHANGED <<links, followed>>
  BY DEF First, Status, LeaveContact, Count, VisitFails, KeepOthers, sending
<1>2. visit[v].step # "idle"
  BY DEF First, Status, LeaveContact, Count, VisitFails
<1>3. visit' \in [Visits -> {Idle} \cup Trips]
  <2>1. CASE VisitFails(v)
    BY <1>2, <2>1, VisitGoes DEF VisitFails, Answer, LinkInv
  <2>2. CASE First(v) \/ Status(v) \/ LeaveContact(v) \/ Count(v)
    <3>1. \/ Answer(v) \/ Goto(v, "status") \/ Goto(v, "contact") \/ Goto(v, "count") \/ Goto(v, "link")
      BY <2>2 DEF First, Status, LeaveContact, Count, After
    <3>2. \E s \in Steps : Goto(v, s) \/ Answer(v)
      BY <3>1 DEF Steps
    <3> QED BY <1>2, <3>2, VisitGoes
  <2> QED BY <2>1, <2>2
<1> QED BY <1>1, <1>3 DEF LinkInv, LinksTrue, HasLink

\* A new request.
LEMMA Arrived ==
  ASSUME LinkInv, NEW v \in Visits, NEW k \in Kinds, NEW m \in Contacts \X (1..MaxRuns),
         NEW u \in Urls \cup {NoLink}, Visit(v, k, m, u)
  PROVE  LinkInv'
<1>1. UNCHANGED <<links, followed>>
  BY DEF Visit, KeepOthers, sending
<1> DEFINE t == [step |-> "log", kind |-> k, who |-> m[1], run |-> m[2], url |-> u, void |-> FALSE]
<1>2. t \in Trips
  BY TrackingAssumption DEF Trips, Steps
<1>3. visit' = [visit EXCEPT ![v] = t]
  BY DEF Visit
<1> HIDE DEF t
<1> QED BY <1>1, <1>2, <1>3 DEF LinkInv, LinksTrue, HasLink

-----------------------------------------------------------------------------
\* The campaign, the provider and the panel.
LEMMA Sends ==
  ASSUME LinkInv, (\E c \in Contacts : Send(c)) \/ (\E m \in Contacts \X (1..MaxRuns) : Book(m)) \/ WipeLogs \/ ResetStats \/ Dispatch
  PROVE  LinkInv'
<1>1. UNCHANGED visit
  BY DEF Send, Book, WipeLogs, ResetStats, Dispatch, outside, people
<1>5. links' \in Seq(LinkStats) /\ followed' \subseteq Urls \cup {NoLink} /\ LinksTrue'
  <2>1. CASE ResetStats
    BY <2>1, TrackingAssumption DEF ResetStats, LinksTrue, HasLink
  <2>2. CASE UNCHANGED <<links, followed>>
    BY <2>2 DEF LinkInv, LinksTrue, HasLink
  <2> QED BY <2>1, <2>2 DEF Send, Book, WipeLogs, Dispatch
<1> QED BY <1>1, <1>5 DEF LinkInv

\* Reports of the provider touch no link.
LEMMA Reported ==
  ASSUME LinkInv, NEW h \in Reports,
         ReportSteps(h) \/ ReportFails(h) \/ (\E m \in Contacts \X (1..MaxRuns) : Report(h, m))
  PROVE  LinkInv'
<1>1. UNCHANGED <<visit, links, followed>>
  BY DEF ReportSteps, FindLog, FindContact, BounceContact, BounceLog, CountBounce, ReportFails, Report, KeepVisits, sending
<1> QED BY <1>1 DEF LinkInv, LinksTrue, HasLink

\* Nor does the panel.
LEMMA TakenBack ==
  ASSUME LinkInv, Reactivate \/ (\E c \in Contacts : LoadContact(c)) \/ UNCHANGED vars
  PROVE  LinkInv'
<1>1. UNCHANGED <<links, followed>>
  BY DEF Reactivate, LoadContact, vars, sending
<1>2. visit' \in [Visits -> {Idle} \cup Trips]
  <2>1. CASE UNCHANGED visit
    BY <2>1 DEF LinkInv
  <2>2. CASE visit' = [v \in Visits |-> IF visit[v].step # "idle" /\ visit[v].who = panel.who
                                        THEN [visit[v] EXCEPT !.void = TRUE] ELSE visit[v]]
    <3>1. \A v \in Visits : visit[v].step # "idle" => visit[v] \in Trips
      BY OnTheWay
    <3>2. \A v \in Visits : visit[v].step # "idle" => [visit[v] EXCEPT !.void = TRUE] \in Trips
      BY <3>1 DEF Trips
    <3> QED BY <2>2, <3>2 DEF LinkInv
  <2> QED BY <2>1, <2>2 DEF Reactivate, LoadContact, vars, outside, people
<1> QED BY <1>1, <1>2 DEF LinkInv, LinksTrue, HasLink

\* Every step keeps the invariant, and the first state has it.
LEMMA LinkStep == ASSUME LinkInv, [Next]_vars PROVE LinkInv'
BY Incremented, Pushed, Visited, Arrived, Sends, Reported, TakenBack DEF Next, VisitSteps

\* No link was followed yet.
LEMMA LinkStarts == ASSUME Init PROVE LinkInv
BY TrackingAssumption DEF Init, LinkInv, LinksTrue, HasLink, NewLog

\* The campaign's document does not grow without a limit, no link has two entries however
\* many first clicks race for it, and none that was followed is missing but for the limit.
THEOREM LinksKept == Spec => []LinksTrue
<1>1. Init => LinkInv
  BY LinkStarts
<1>2. LinkInv /\ [Next]_vars => LinkInv'
  BY LinkStep
<1>3. LinkInv => LinksTrue
  BY DEF LinkInv
<1> QED BY <1>1, <1>2, <1>3, PTL DEF Spec

-----------------------------------------------------------------------------
(* EngagementAddsUp.  A count that is due is in the hands of one request:   *)
(* the set of contacts whose log shows a thing grows in the step in which   *)
(* a request takes on to count it, and the request lets go when it counts.  *)
Logs == [run : Nat,
         status : {"none", "pending", "sent", "opened", "clicked", "unsubscribed", "bounced"},
         seen : SUBSET {"open", "click"}]
Standings == {"none", "active", "unsubscribed", "bounced"}
Errands == [step : {"find", "load", "contact", "log", "count"}, who : Contacts, log : Logs,
            status : Standings]

LogTypes ==
    /\ log \in [Contacts -> Logs] /\ contact \in [Contacts -> Standings]
    /\ report \in [Reports -> {Idle} \cup Errands]
    /\ stats \in [Kinds \cup {"bounce"} -> Nat]
    /\ hidden \in [Final -> Nat] /\ again \in Nat /\ troubles \in Nat
    /\ run \in Nat \ {0} /\ starting \in {"no", "reset", "dispatch"}
    /\ delivered \subseteq Contacts \X (Nat \ {0}) /\ booking \subseteq Contacts \X (Nat \ {0})

\* The _id of a log: a request that a start has overtaken finds the log of its message no
\* more, as a start deletes the logs first and only one that has booked its messages starts.
RunInv ==
    /\ \A c \in Contacts : log[c].run = 0 => log[c] = NoLog
    /\ \A v \in Visits : visit[v].step # "idle" => visit[v].run # 0
    /\ \A h \in Reports : report[h].step \notin {"idle", "find"} => report[h].log.run # 0
    /\ \A m \in booking : log[m[1]].run = m[2]
    /\ starting # "no" => booking = {} /\ \A c \in Contacts : log[c] = NoLog

TallyInv == LinkInv /\ LogTypes /\ RunInv /\ EngagementAddsUp

Saw(k) == {c \in Contacts : k \in log[c].seen}
Counts(v, k) == visit[v].step \in {"status", "contact", "count"} /\ visit[v].kind = k

\* Two sets that differ in one element at most.
LEMMA OneApart ==
  ASSUME NEW U, IsFiniteSet(U), NEW S \in SUBSET U, NEW T \in SUBSET U, NEW x \in U,
         \A y \in U \ {x} : y \in S <=> y \in T
  PROVE  /\ Cardinality(S) \in Nat /\ Cardinality(T) \in Nat
         /\ x \in S /\ x \in T => Cardinality(T) = Cardinality(S)
         /\ x \notin S /\ x \notin T => Cardinality(T) = Cardinality(S)
         /\ x \notin S /\ x \in T => Cardinality(T) = Cardinality(S) + 1
         /\ x \in S /\ x \notin T => Cardinality(T) = Cardinality(S) - 1
<1>1. IsFiniteSet(S) /\ IsFiniteSet(T)
  BY FS_Subset
<1>2. Cardinality(S) \in Nat /\ Cardinality(T) \in Nat
  BY <1>1, FS_CardinalityType
<1>3. (x \in S <=> x \in T) => T = S
  OBVIOUS
<1>4. ASSUME x \notin S, x \in T PROVE Cardinality(T) = Cardinality(S) + 1
  <2>1. T = S \cup {x}
    BY <1>4
  <2> QED BY <1>1, <1>4, <2>1, FS_AddElement
<1>5. ASSUME x \in S, x \notin T PROVE Cardinality(T) = Cardinality(S) - 1
  <2>1. T = S \ {x}
    BY <1>5
  <2> QED BY <1>1, <1>5, <2>1, FS_RemoveElement
<1> QED BY <1>2, <1>3, <1>4, <1>5

\* The log of one contact is written.
LEMMA LogTally ==
  ASSUME NEW c \in Contacts, \A d \in Contacts \ {c} : log'[d] = log[d], NEW k, NEW s
  PROVE  /\ Cardinality(Saw(k)) \in Nat /\ Cardinality(With(s)) \in Nat
         /\ (k \in log[c].seen <=> k \in log'[c].seen) => Cardinality(Saw(k)') = Cardinality(Saw(k))
         /\ k \notin log[c].seen /\ k \in log'[c].seen
                => Cardinality(Saw(k)') = Cardinality(Saw(k)) + 1
         /\ (log[c].status = s <=> log'[c].status = s) => Cardinality(With(s)') = Cardinality(With(s))
         /\ log[c].status # s /\ log'[c].status = s => Cardinality(With(s)') = Cardinality(With(s)) + 1
         /\ log[c].status = s /\ log'[c].status # s => Cardinality(With(s)') = Cardinality(With(s)) - 1
<1>1. /\ Saw(k) \in SUBSET Contacts /\ Saw(k)' \in SUBSET Contacts
      /\ With(s) \in SUBSET Contacts /\ With(s)' \in SUBSET Contacts
  BY DEF Saw, With
<1>2. /\ \A d \in Contacts \ {c} : d \in Saw(k) <=> d \in Saw(k)'
      /\ \A d \in Contacts \ {c} : d \in With(s) <=> d \in With(s)'
  BY DEF Saw, With
<1>3. /\ c \in Saw(k) <=> k \in log[c].seen
      /\ c \in Saw(k)' <=> k \in log'[c].seen
      /\ c \in With(s) <=> log[c].status = s
      /\ c \in With(s)' <=> log'[c].status = s
  BY DEF Saw, With
<1>4. IsFiniteSet(Contacts)
  BY TrackingAssumption
<1>5. /\ Cardinality(Saw(k)) \in Nat
      /\ (k \in log[c].seen <=> k \in log'[c].seen) => Cardinality(Saw(k)') = Cardinality(Saw(k))
      /\ k \notin log[c].seen /\ k \in log'[c].seen
             => Cardinality(Saw(k)') = Cardinality(Saw(k)) + 1
  <2> DEFINE S == Saw(k)
             T == Saw(k)'
  <2> HIDE DEF S, T
  <2>1. /\ S \in SUBSET Contacts /\ T \in SUBSET Contacts
        /\ \A d \in Contacts \ {c} : d \in S <=> d \in T
    BY <1>1, <1>2 DEF S, T
  <2>2. (c \in S <=> k \in log[c].seen) /\ (c \in T <=> k \in log'[c].seen)
    BY <1>3 DEF S, T
  <2>3. /\ Cardinality(S) \in Nat
        /\ (k \in log[c].seen <=> k \in log'[c].seen) => Cardinality(T) = Cardinality(S)
        /\ k \notin log[c].seen /\ k \in log'[c].seen => Cardinality(T) = Cardinality(S) + 1
    BY <1>4, <2>1, <2>2, OneApart
  <2> QED BY <2>3 DEF S, T
<1>6. /\ Cardinality(With(s)) \in Nat
      /\ (log[c].status = s <=> log'[c].status = s) => Cardinality(With(s)') = Cardinality(With(s))
      /\ log[c].status # s /\ log'[c].status = s => Cardinality(With(s)') = Cardinality(With(s)) + 1
      /\ log[c].status = s /\ log'[c].status # s => Cardinality(With(s)') = Cardinality(With(s)) - 1
  <2> DEFINE S == With(s)
             T == With(s)'
  <2> HIDE DEF S, T
  <2>1. /\ S \in SUBSET Contacts /\ T \in SUBSET Contacts
        /\ \A d \in Contacts \ {c} : d \in S <=> d \in T
    BY <1>1, <1>2 DEF S, T
  <2>2. (c \in S <=> log[c].status = s) /\ (c \in T <=> log'[c].status = s)
    BY <1>3 DEF S, T
  <2>3. /\ Cardinality(S) \in Nat
        /\ (log[c].status = s <=> log'[c].status = s) => Cardinality(T) = Cardinality(S)
        /\ log[c].status # s /\ log'[c].status = s => Cardinality(T) = Cardinality(S) + 1
        /\ log[c].status = s /\ log'[c].status # s => Cardinality(T) = Cardinality(S) - 1
    BY <1>4, <2>1, <2>2, OneApart
  <2> QED BY <2>3 DEF S, T
<1> QED BY <1>5, <1>6

\* One request of a recipient goes on.
LEMMA VisitTally ==
  ASSUME NEW v \in Visits, \A w \in Visits \ {v} : visit'[w] = visit[w], NEW k
  PROVE  /\ Cardinality(Counting(k)) \in Nat
         /\ (Counts(v, k) <=> Counts(v, k)') => Cardinality(Counting(k)') = Cardinality(Counting(k))
         /\ ~Counts(v, k) /\ Counts(v, k)' => Cardinality(Counting(k)') = Cardinality(Counting(k)) + 1
         /\ Counts(v, k) /\ ~Counts(v, k)' => Cardinality(Counting(k)') = Cardinality(Counting(k)) - 1
<1> DEFINE S == Counting(k)
           T == Counting(k)'
<1>1. /\ S \in SUBSET Visits /\ T \in SUBSET Visits
      /\ \A w \in Visits \ {v} : w \in S <=> w \in T
  BY DEF Counting
<1>2. (v \in S <=> Counts(v, k)) /\ (v \in T <=> Counts(v, k)')
  BY DEF Counting, Counts
<1>3. IsFiniteSet(Visits)
  BY TrackingAssumption
<1> HIDE DEF S, T
<1>4. /\ Cardinality(S) \in Nat
      /\ (Counts(v, k) <=> Counts(v, k)') => Cardinality(T) = Cardinality(S)
      /\ ~Counts(v, k) /\ Counts(v, k)' => Cardinality(T) = Cardinality(S) + 1
      /\ Counts(v, k) /\ ~Counts(v, k)' => Cardinality(T) = Cardinality(S) - 1
  BY <1>1, <1>2, <1>3, OneApart
<1> QED BY <1>4 DEF S, T

\* One report of the provider goes on.
LEMMA ReportTally ==
  ASSUME NEW h \in Reports, \A g \in Reports \ {h} : report'[g] = report[g]
  PROVE  /\ Cardinality(Reporting) \in Nat
         /\ (report[h].step = "count" <=> report'[h].step = "count")
                => Cardinality(Reporting') = Cardinality(Reporting)
         /\ report[h].step # "count" /\ report'[h].step = "count"
                => Cardinality(Reporting') = Cardinality(Reporting) + 1
         /\ report[h].step = "count" /\ report'[h].step # "count"
                => Cardinality(Reporting') = Cardinality(Reporting) - 1
<1> DEFINE S == Reporting
           T == Reporting'
<1>1. /\ S \in SUBSET Reports /\ T \in SUBSET Reports
      /\ \A g \in Reports \ {h} : g \in S <=> g \in T
  BY DEF Reporting
<1>2. (h \in S <=> report[h].step = "count") /\ (h \in T <=> report'[h].step = "count")
  BY DEF Reporting
<1>3. IsFiniteSet(Reports)
  BY TrackingAssumption
<1> HIDE DEF S, T
<1>4. /\ Cardinality(S) \in Nat
      /\ (report[h].step = "count" <=> report'[h].step = "count") => Cardinality(T) = Cardinality(S)
      /\ report[h].step # "count" /\ report'[h].step = "count" => Cardinality(T) = Cardinality(S) + 1
      /\ report[h].step = "count" /\ report'[h].step # "count" => Cardinality(T) = Cardinality(S) - 1
  BY <1>1, <1>2, <1>3, OneApart
<1> QED BY <1>4 DEF S, T

\* A step that takes on nothing to count, and counts nothing.
LEMMA Still ==
  ASSUME EngagementAddsUp, \A k \in Kinds : Counting(k)' = Counting(k), Reporting' = Reporting,
         UNCHANGED <<log, stats, hidden, again, starting, straddled, troubles>>
  PROVE  EngagementAddsUp'
<1>1. /\ Counting("open")' = Counting("open") /\ Counting("click")' = Counting("click")
      /\ Counting("unsubscribe")' = Counting("unsubscribe")
  BY DEF Kinds
<1>2. \A s : With(s)' = With(s)
  BY DEF With
<1> QED BY <1>1, <1>2 DEF EngagementAddsUp

\* A step that fails gives up what it had to count.
LEMMA Troubled ==
  ASSUME LogTypes, troubles' = troubles + 1
  PROVE  EngagementAddsUp'
BY DEF EngagementAddsUp, LogTypes

-----------------------------------------------------------------------------
(* The campaign and the panel.                                              *)
LEMMA SendTally ==
  ASSUME TallyInv, NEW c \in Contacts, Send(c)
  PROVE  LogTypes' /\ RunInv' /\ EngagementAddsUp'
<1>1. /\ log[c].status = "pending" /\ booking' = booking \cup {<<c, log[c].run>>}
      /\ delivered' = delivered \cup {<<c, log[c].run>>}
      /\ UNCHANGED <<log, contact, stats, run, starting, visit, report, troubles, hidden, again, straddled>>
  BY DEF Send, outside, people, marks
<1>2. log[c] # NoLog /\ log[c].run \in Nat \ {0} /\ starting = "no"
  <2>1. log[c] # NoLog
    BY <1>1 DEF NoLog
  <2> QED BY <2>1 DEF TallyInv, RunInv, LogTypes, Logs
<1>3. LogTypes'
  BY <1>1, <1>2 DEF TallyInv, LogTypes
<1>4. RunInv'
  BY <1>1, <1>2 DEF TallyInv, RunInv
<1>5. EngagementAddsUp'
  BY <1>1, Still DEF TallyInv, Counting, Reporting
<1> QED BY <1>3, <1>4, <1>5

\* One status is written over another.
LEMMA SetStatusIs ==
  ASSUME LogTypes, RunInv, NEW c \in Contacts, NEW s \in {"sent", "opened", "clicked", "unsubscribed", "bounced"},
         SetStatus(c, s), log[c].run # 0
  PROVE  /\ log' \in [Contacts -> Logs] /\ hidden' \in [Final -> Nat]
         /\ \A d \in Contacts \ {c} : log'[d] = log[d]
         /\ log'[c].run = log[c].run /\ log'[c].seen = log[c].seen /\ log'[c].status = s
         /\ \A d \in Contacts : log'[d].run = log[d].run
         /\ \A d \in Contacts : log'[d].run = 0 => log'[d] = NoLog
         /\ \A f \in Final : hidden'[f] = hidden[f] + IF log[c].status = f /\ f # s THEN 1 ELSE 0
<1>1. log' = [log EXCEPT ![c].status = s] /\ log \in [Contacts -> Logs]
  BY DEF SetStatus, LogTypes
<1>2. /\ log' \in [Contacts -> Logs]
      /\ \A d \in Contacts \ {c} : log'[d] = log[d]
      /\ log'[c].run = log[c].run /\ log'[c].seen = log[c].seen /\ log'[c].status = s
  BY <1>1 DEF Logs
<1> DEFINE old == log[c].status
<1>3. hidden \in [Final -> Nat] /\ hidden' = IF old \in Final \ {s} THEN [hidden EXCEPT ![old] = @ + 1] ELSE hidden
  BY DEF SetStatus, LogTypes
<1> HIDE DEF old
<1>4. hidden' \in [Final -> Nat] /\ \A f \in Final : hidden'[f] = hidden[f] + IF old = f /\ f # s THEN 1 ELSE 0
  <2>1. CASE old \in Final \ {s}
    <3>1. hidden' = [hidden EXCEPT ![old] = hidden[old] + 1] /\ hidden[old] \in Nat
      BY <1>3, <2>1
    <3> QED BY <1>3, <2>1, <3>1
  <2>2. CASE old \notin Final \ {s}
    BY <1>3, <2>2
  <2> QED BY <2>1, <2>2
<1> QED BY <1>2, <1>4 DEF RunInv, old

\* How many counts are due is a number.
LEMMA DueNumbers ==
  Cardinality(Reporting) \in Nat /\ \A k : Cardinality(Counting(k)) \in Nat
<1>1. Reporting \in SUBSET Reports /\ \A k : Counting(k) \in SUBSET Visits
  BY DEF Counting, Reporting
<1> QED BY <1>1, TrackingAssumption, FS_Subset, FS_CardinalityType

\* A status is written that is counted in no number of the report, over one that may be:
\* the history has it then.
LEMMA Overwritten ==
  ASSUME LogTypes, RunInv, EngagementAddsUp, NEW c \in Contacts, NEW s \in {"sent", "opened", "clicked"},
         SetStatus(c, s), log[c].run # 0,
         \A k \in Kinds : Counting(k)' = Counting(k), Reporting' = Reporting,
         UNCHANGED <<stats, starting, troubles, straddled, again>>
  PROVE  EngagementAddsUp'
<1>1. /\ \A f \in Final : hidden'[f] = hidden[f] + IF log[c].status = f THEN 1 ELSE 0
      /\ \A d \in Contacts \ {c} : log'[d] = log[d]
      /\ log'[c].seen = log[c].seen /\ log'[c].status = s
  BY SetStatusIs DEF Final
<1>2. /\ Cardinality(Saw("open")') = Cardinality(Saw("open"))
      /\ Cardinality(Saw("click")') = Cardinality(Saw("click"))
  BY <1>1, LogTally
<1>3. /\ Cardinality(With("unsubscribed")) \in Nat
      /\ log[c].status # "unsubscribed" => Cardinality(With("unsubscribed")') = Cardinality(With("unsubscribed"))
      /\ log[c].status = "unsubscribed" => Cardinality(With("unsubscribed")') = Cardinality(With("unsubscribed")) - 1
  BY <1>1, LogTally
<1>4. /\ Cardinality(With("bounced")) \in Nat
      /\ log[c].status # "bounced" => Cardinality(With("bounced")') = Cardinality(With("bounced"))
      /\ log[c].status = "bounced" => Cardinality(With("bounced")') = Cardinality(With("bounced")) - 1
  BY <1>1, LogTally
<1>5. /\ stats["unsubscribe"] \in Nat /\ stats["bounce"] \in Nat
      /\ Cardinality(Counting("unsubscribe")) \in Nat /\ Cardinality(Reporting) \in Nat
  BY DueNumbers DEF LogTypes, Kinds
<1>6. /\ Counting("open")' = Counting("open") /\ Counting("click")' = Counting("click")
      /\ Counting("unsubscribe")' = Counting("unsubscribe")
  BY DEF Kinds
<1>7. SUFFICES ASSUME starting # "reset", troubles = 0, ~straddled
               PROVE  EngagementAddsUp'
  BY DEF EngagementAddsUp
<1>8. \A j \in {"open", "click"} :
          stats'[j] + Cardinality(Counting(j)') = Cardinality({d \in Contacts : j \in log'[d].seen})
  <2>1. TAKE j \in {"open", "click"}
  <2>2. stats[j] + Cardinality(Counting(j)) = Cardinality(Saw(j))
    BY <1>7 DEF EngagementAddsUp, Saw
  <2>3. stats'[j] + Cardinality(Counting(j)') = Cardinality(Saw(j)')
    BY <1>2, <1>6, <2>2
  <2> QED BY <2>3 DEF Saw
<1> DEFINE gone == stats["unsubscribe"] + Cardinality(Counting("unsubscribe"))
           back == stats["bounce"] + Cardinality(Reporting)
<1>9. /\ gone = Cardinality(With("unsubscribed")) + hidden["unsubscribed"]
      /\ back = Cardinality(With("bounced")) + hidden["bounced"] + again
  BY <1>7 DEF EngagementAddsUp
<1>10. /\ gone \in Nat /\ back \in Nat /\ again \in Nat
       /\ hidden["unsubscribed"] \in Nat /\ hidden["bounced"] \in Nat
  BY <1>5 DEF LogTypes, Final
<1>11. gone = stats'["unsubscribe"] + Cardinality(Counting("unsubscribe")') /\ back = stats'["bounce"] + Cardinality(Reporting')
  BY <1>6
<1> HIDE DEF gone, back
<1>12. /\ gone = Cardinality(With("unsubscribed")') + hidden'["unsubscribed"]
       /\ back = Cardinality(With("bounced")') + hidden'["bounced"] + again'
  <2>1. /\ hidden'["unsubscribed"] = hidden["unsubscribed"] + IF log[c].status = "unsubscribed" THEN 1 ELSE 0
        /\ hidden'["bounced"] = hidden["bounced"] + IF log[c].status = "bounced" THEN 1 ELSE 0
    BY <1>1 DEF Final
  <2>2. gone = Cardinality(With("unsubscribed")') + hidden'["unsubscribed"]
    BY <1>3, <1>9, <1>10, <2>1
  <2>3. back = Cardinality(With("bounced")') + hidden'["bounced"] + again'
    BY <1>4, <1>9, <1>10, <2>1
  <2> QED BY <2>2, <2>3
<1> QED BY <1>8, <1>11, <1>12 DEF EngagementAddsUp

\* The worker marks a message sent, whatever its status has become.
LEMMA BookTally ==
  ASSUME TallyInv, NEW m \in Contacts \X (1..MaxRuns), Book(m)
  PROVE  LogTypes' /\ RunInv' /\ EngagementAddsUp'
<1> DEFINE c == m[1]
<1>1. /\ m \in booking /\ booking' = booking \ {m} /\ SetStatus(c, "sent") /\ c \in Contacts
      /\ UNCHANGED <<contact, stats, run, starting, delivered, visit, report, troubles, again, straddled>>
  BY DEF Book, outside, people
<1>2. log[c].run # 0 /\ starting = "no" /\ LogTypes /\ RunInv
  BY <1>1 DEF TallyInv, RunInv, LogTypes
<1>3. /\ log' \in [Contacts -> Logs] /\ hidden' \in [Final -> Nat]
      /\ \A d \in Contacts \ {c} : log'[d] = log[d]
      /\ log'[c].seen = log[c].seen /\ log'[c].status = "sent"
      /\ \A d \in Contacts : log'[d].run = log[d].run
      /\ \A d \in Contacts : log'[d].run = 0 => log'[d] = NoLog
  BY <1>1, <1>2, SetStatusIs
<1>4. LogTypes'
  BY <1>1, <1>2, <1>3 DEF LogTypes
<1>5. RunInv'
  BY <1>1, <1>2, <1>3 DEF RunInv, LogTypes
<1>6. EngagementAddsUp'
  <2>1. (\A k \in Kinds : Counting(k)' = Counting(k)) /\ Reporting' = Reporting
    BY <1>1 DEF Counting, Reporting
  <2> QED BY <1>1, <1>2, <2>1, Overwritten DEF TallyInv
<1> QED BY <1>4, <1>5, <1>6

\* A start deletes the logs; nothing is claimed until it resets the counts.
LEMMA WipeTally ==
  ASSUME TallyInv, WipeLogs
  PROVE  LogTypes' /\ RunInv' /\ EngagementAddsUp'
<1>1. /\ log' = [c \in Contacts |-> NoLog] /\ starting' = "reset" /\ booking = {}
      /\ UNCHANGED <<contact, stats, run, delivered, booking, visit, report, troubles, hidden, again, straddled>>
  BY DEF WipeLogs, outside, people, marks
<1>2. NoLog \in Logs
  BY DEF NoLog, Logs
<1>3. LogTypes'
  BY <1>1, <1>2 DEF TallyInv, LogTypes
<1>4. RunInv'
  BY <1>1 DEF TallyInv, RunInv, NoLog
<1>5. EngagementAddsUp'
  BY <1>1 DEF EngagementAddsUp
<1> QED BY <1>3, <1>4, <1>5

\* With no log of the campaign left, nothing shows in one.
LEMMA NothingShows ==
  ASSUME \A c \in Contacts : log[c].seen = {} /\ log[c].status \in {"none", "pending"}
  PROVE  /\ Saw("open") = {} /\ Saw("click") = {}
         /\ With("unsubscribed") = {} /\ With("bounced") = {}
BY DEF Saw, With

\* The counts of the campaign are reset, unless a request has still to add to them.
LEMMA ResetTally ==
  ASSUME TallyInv, ResetStats
  PROVE  LogTypes' /\ RunInv' /\ EngagementAddsUp'
<1>1. /\ starting = "reset" /\ starting' = "dispatch" /\ run' = run + 1 /\ stats' = NoStats
      /\ hidden' = NoneHidden /\ again' = 0
      /\ straddled' = (Reporting # {} \/ \E k \in Kinds : Counting(k) # {})
      /\ UNCHANGED <<log, contact, delivered, booking, visit, report, troubles>>
  BY DEF ResetStats, outside, people, marks
<1>2. LogTypes'
  BY <1>1 DEF TallyInv, LogTypes, NoStats, NoneHidden
<1>3. RunInv'
  BY <1>1 DEF TallyInv, RunInv
<1>4. ASSUME ~straddled' PROVE EngagementAddsUp'
  <2>1. Reporting' = {} /\ \A k \in Kinds : Counting(k)' = {}
    BY <1>1, <1>4 DEF Reporting, Counting
  <2>2. Counting("open")' = {} /\ Counting("click")' = {} /\ Counting("unsubscribe")' = {}
    BY <2>1 DEF Kinds
  <2>3. /\ Saw("open")' = {} /\ Saw("click")' = {}
        /\ With("unsubscribed")' = {} /\ With("bounced")' = {}
    <3>1. \A c \in Contacts : log'[c].seen = {} /\ log'[c].status \in {"none", "pending"}
      BY <1>1 DEF TallyInv, RunInv, NoLog
    <3> QED BY <3>1 DEF Saw, With
  <2>4. /\ stats'["open"] = 0 /\ stats'["click"] = 0 /\ stats'["unsubscribe"] = 0 /\ stats'["bounce"] = 0
    BY <1>1 DEF NoStats, Kinds
  <2>5. /\ Cardinality(Saw("open")') = 0 /\ Cardinality(Saw("click")') = 0
        /\ Cardinality(With("unsubscribed")') = 0 /\ Cardinality(With("bounced")') = 0
    BY <2>3, FS_EmptySet
  <2>6. /\ Cardinality(Counting("open")') = 0 /\ Cardinality(Counting("click")') = 0
        /\ Cardinality(Counting("unsubscribe")') = 0 /\ Cardinality(Reporting') = 0
    BY <2>1, <2>2, FS_EmptySet
  <2>7. hidden'["unsubscribed"] = 0 /\ hidden'["bounced"] = 0 /\ again' = 0
    BY <1>1 DEF NoneHidden, Final
  <2> QED BY <2>4, <2>5, <2>6, <2>7 DEF EngagementAddsUp, Saw
<1>5. ASSUME straddled' PROVE EngagementAddsUp'
  BY <1>5 DEF EngagementAddsUp
<1> QED BY <1>2, <1>3, <1>4, <1>5

\* New logs show nothing yet.
LEMMA DispatchTally ==
  ASSUME TallyInv, Dispatch
  PROVE  LogTypes' /\ RunInv' /\ EngagementAddsUp'
<1>1. /\ starting = "dispatch" /\ starting' = "no"
      /\ log' = [c \in Contacts |-> IF contact[c] = "active" THEN NewLog(run) ELSE NoLog]
      /\ UNCHANGED <<contact, stats, run, delivered, booking, visit, report, troubles, hidden, again, straddled>>
  BY DEF Dispatch, outside, people, marks
<1>2. run \in Nat \ {0} /\ NoLog \in Logs /\ NewLog(run) \in Logs
  BY DEF NoLog, NewLog, Logs, TallyInv, LogTypes
<1>3. LogTypes'
  BY <1>1, <1>2 DEF TallyInv, LogTypes
<1>4. RunInv'
  <2>1. \A c \in Contacts : log'[c] = NewLog(run) \/ log'[c] = NoLog
    BY <1>1
  <2>2. \A c \in Contacts : log'[c].run = 0 => log'[c] = NoLog
    BY <1>2, <2>1 DEF NewLog, NoLog
  <2>3. booking' = {}
    BY <1>1 DEF TallyInv, RunInv
  <2> QED BY <1>1, <2>2, <2>3 DEF TallyInv, RunInv
<1>5. EngagementAddsUp'
  <2>1. /\ Saw("open") = {} /\ Saw("click") = {}
        /\ With("unsubscribed") = {} /\ With("bounced") = {}
    BY <1>1, NothingShows DEF TallyInv, RunInv, NoLog
  <2>2. /\ Saw("open")' = {} /\ Saw("click")' = {}
        /\ With("unsubscribed")' = {} /\ With("bounced")' = {}
    <3>1. \A c \in Contacts : log'[c].seen = {} /\ log'[c].status \in {"none", "pending"}
      BY <1>1 DEF NewLog, NoLog
    <3> QED BY <3>1 DEF Saw, With
  <2>3. (\A k : Counting(k)' = Counting(k)) /\ Reporting' = Reporting
    BY <1>1 DEF Counting, Reporting
  <2>4. EngagementAddsUp /\ starting # "reset"
    BY <1>1 DEF TallyInv
  <2>5. /\ Saw("open")' = Saw("open") /\ Saw("click")' = Saw("click")
        /\ With("unsubscribed")' = With("unsubscribed") /\ With("bounced")' = With("bounced")
    BY <2>1, <2>2
  <2> QED BY <1>1, <2>3, <2>4, <2>5 DEF EngagementAddsUp, Saw
<1> QED BY <1>3, <1>4, <1>5

\* The panel counts nothing.
LEMMA PanelTally ==
  ASSUME TallyInv, Reactivate \/ (\E c \in Contacts : LoadContact(c)) \/ UNCHANGED vars
  PROVE  LogTypes' /\ RunInv' /\ EngagementAddsUp'
<1>1. UNCHANGED <<log, stats, run, starting, delivered, booking, report, hidden, again, straddled, troubles>>
  BY DEF Reactivate, LoadContact, vars, sending, outside, people, marks
<1>2. contact' \in [Contacts -> Standings]
  BY DEF Reactivate, LoadContact, vars, TallyInv, LogTypes, Standings
<1>3. \A v \in Visits : visit'[v].step = visit[v].step /\ (visit[v].step # "idle" => visit'[v].run = visit[v].run /\ visit'[v].kind = visit[v].kind)
  <2>1. CASE UNCHANGED visit
    BY <2>1
  <2>2. CASE visit' = [v \in Visits |-> IF visit[v].step # "idle" /\ visit[v].who = panel.who
                                        THEN [visit[v] EXCEPT !.void = TRUE] ELSE visit[v]]
    <3>1. \A v \in Visits : visit[v].step # "idle" => visit[v] \in Trips
      BY OnTheWay DEF TallyInv
    <3> QED BY <2>2, <3>1 DEF Trips
  <2> QED BY <2>1, <2>2 DEF Reactivate, LoadContact, vars, outside, people
<1>4. LogTypes'
  BY <1>1, <1>2 DEF TallyInv, LogTypes
<1>5. RunInv'
  BY <1>1, <1>3 DEF TallyInv, RunInv
<1>6. (\A k : Counting(k)' = Counting(k)) /\ Reporting' = Reporting
  BY <1>1, <1>3 DEF Counting, Reporting
<1>7. EngagementAddsUp'
  BY <1>1, <1>6, Still DEF TallyInv
<1> QED BY <1>4, <1>5, <1>7

-----------------------------------------------------------------------------
(* Recipients.                                                              *)
\* What a request in hand is after a step of its handler.
LEMMA Went ==
  ASSUME LinkInv, NEW v \in Visits, visit[v].step # "idle", NEW s, Goto(v, s)
  PROVE  /\ \A w \in Visits \ {v} : visit'[w] = visit[w]
         /\ visit'[v].step = s /\ visit'[v].kind = visit[v].kind /\ visit'[v].run = visit[v].run
<1>1. visit[v] \in Trips /\ visit' = [visit EXCEPT ![v].step = s] /\ DOMAIN visit = Visits
  BY OnTheWay DEF Goto, LinkInv
<1> QED BY <1>1 DEF Trips

\* And after the answer.
LEMMA Answered ==
  ASSUME LinkInv, NEW v \in Visits, Answer(v)
  PROVE  (\A w \in Visits \ {v} : visit'[w] = visit[w]) /\ visit'[v] = Idle
BY DEF Answer, LinkInv

\* A click goes on to its link, the others are answered: nothing is left to count.
LEMMA Afterwards ==
  ASSUME LinkInv, NEW v \in Visits, visit[v].step # "idle", After(v)
  PROVE  /\ \A w \in Visits \ {v} : visit'[w] = visit[w]
         /\ \/ visit'[v].step = "idle"
            \/ visit'[v].step = "link" /\ visit'[v].run = visit[v].run
         /\ \A k : ~Counts(v, k)'
<1>1. CASE Goto(v, "link")
  BY <1>1, Went DEF Counts
<1>2. CASE Answer(v)
  BY <1>2, Answered DEF Counts, Idle
<1> QED BY <1>1, <1>2 DEF After

\* A handler's step leaves the run of its message and of every log as they were.
LEMMA RunsKept ==
  ASSUME LinkInv, LogTypes, RunInv, NEW v \in Visits, visit[v].step # "idle",
         \A w \in Visits \ {v} : visit'[w] = visit[w],
         visit'[v].step = "idle" \/ visit'[v].run = visit[v].run,
         \A d \in Contacts : log'[d].run = log[d].run,
         \A d \in Contacts : log'[d].run = 0 => log'[d] = NoLog,
         UNCHANGED <<report, booking, starting>>
  PROVE  RunInv'
<1>1. \A w \in Visits : visit'[w].step # "idle" => visit'[w].run # 0
  BY DEF RunInv
<1>2. starting' # "no" => \A d \in Contacts : log'[d] = NoLog
  BY DEF RunInv, NoLog
<1>3. \A m \in booking' : log'[m[1]].run = m[2]
  BY DEF RunInv, LogTypes
<1> QED BY <1>1, <1>2, <1>3 DEF RunInv

\* A step that neither takes on a count nor writes what is counted.
LEMMA NothingCounted ==
  ASSUME EngagementAddsUp, NEW v \in Visits, \A w \in Visits \ {v} : visit'[w] = visit[w],
         \A k \in Kinds : Counts(v, k) <=> Counts(v, k)',
         UNCHANGED <<log, stats, report, hidden, again, starting, straddled, troubles>>
  PROVE  EngagementAddsUp'
<1>1. \A k \in Kinds : Counting(k)' = Counting(k)
  BY DEF Counting, Counts
<1> QED BY <1>1, Still DEF Reporting

\* A new request.
LEMMA VisitTallies ==
  ASSUME TallyInv, NEW v \in Visits, NEW k \in Kinds, NEW m \in Contacts \X (1..MaxRuns),
         NEW u \in Urls \cup {NoLink}, Visit(v, k, m, u)
  PROVE  LogTypes' /\ RunInv' /\ EngagementAddsUp'
<1> DEFINE t == [step |-> "log", kind |-> k, who |-> m[1], run |-> m[2], url |-> u, void |-> FALSE]
<1>1. /\ visit[v].step = "idle" /\ visit' = [visit EXCEPT ![v] = t] /\ DOMAIN visit = Visits
      /\ UNCHANGED <<log, contact, stats, run, starting, delivered, booking, report, hidden, again, straddled, troubles>>
  BY DEF Visit, KeepOthers, sending, TallyInv, LinkInv, marks
<1>2. t.step = "log" /\ t.run # 0
  OBVIOUS
<1> HIDE DEF t
<1>3. (\A w \in Visits \ {v} : visit'[w] = visit[w]) /\ visit'[v].step = "log" /\ visit'[v].run # 0
  BY <1>1, <1>2
<1>4. LogTypes'
  BY <1>1 DEF TallyInv, LogTypes
<1>5. RunInv'
  BY <1>1, <1>3 DEF TallyInv, RunInv
<1>6. EngagementAddsUp'
  BY <1>1, <1>3, NothingCounted DEF TallyInv, Counts
<1> QED BY <1>4, <1>5, <1>6

\* Steps that write no log and count nothing.
LEMMA PassTallies ==
  ASSUME TallyInv, NEW v \in Visits, LeaveContact(v) \/ IncLink(v) \/ PushLink(v)
  PROVE  LogTypes' /\ RunInv' /\ EngagementAddsUp'
<1>1. /\ visit[v].step # "idle"
      /\ UNCHANGED <<log, stats, run, starting, delivered, booking, report, hidden, again, straddled, troubles>>
  BY DEF LeaveContact, IncLink, PushLink, KeepOthers, sending, marks
<1>2. LinkInv /\ LogTypes /\ RunInv /\ EngagementAddsUp
  BY DEF TallyInv
<1>3. /\ \A w \in Visits \ {v} : visit'[w] = visit[w]
      /\ visit'[v].step = "idle" \/ visit'[v].run = visit[v].run
      /\ \A k \in Kinds : Counts(v, k) <=> Counts(v, k)'
  <2>1. CASE LeaveContact(v)
    BY <1>1, <1>2, <2>1, Went DEF LeaveContact, Counts
  <2>2. CASE Answer(v) /\ visit[v].step \in {"link", "push"}
    BY <1>2, <2>2, Answered DEF Idle, Counts
  <2>3. CASE Goto(v, "push") /\ visit[v].step = "link"
    BY <1>1, <1>2, <2>3, Went DEF Counts
  <2> QED BY <2>1, <2>2, <2>3 DEF IncLink, PushLink
<1>4. contact' \in [Contacts -> Standings]
  BY <1>2 DEF LeaveContact, IncLink, PushLink, LogTypes, Standings
<1>5. LogTypes'
  BY <1>1, <1>2, <1>4 DEF LogTypes
<1>6. RunInv'
  <2>1. \A d \in Contacts : log'[d].run = 0 => log'[d] = NoLog
    BY <1>1, <1>2 DEF RunInv
  <2> QED BY <1>1, <1>2, <1>3, <2>1, RunsKept
<1>7. EngagementAddsUp'
  BY <1>1, <1>2, <1>3, NothingCounted
<1> QED BY <1>5, <1>6, <1>7

\* A request that fails gives up its count; the failure is on record.
LEMMA FailTallies ==
  ASSUME TallyInv, NEW v \in Visits, VisitFails(v)
  PROVE  LogTypes' /\ RunInv' /\ EngagementAddsUp'
<1>1. /\ visit[v].step # "idle" /\ troubles' = troubles + 1
      /\ UNCHANGED <<log, contact, stats, run, starting, delivered, booking, report, hidden, again, straddled>>
  BY DEF VisitFails, KeepOthers, sending, marks
<1>2. LinkInv /\ LogTypes /\ RunInv
  BY DEF TallyInv
<1>3. (\A w \in Visits \ {v} : visit'[w] = visit[w]) /\ visit'[v].step = "idle"
  BY <1>2 DEF VisitFails, Answer, Idle, LinkInv
<1>4. LogTypes'
  BY <1>1, <1>2 DEF LogTypes
<1>5. RunInv'
  <2>1. \A d \in Contacts : log'[d].run = 0 => log'[d] = NoLog
    BY <1>1, <1>2 DEF RunInv
  <2> QED BY <1>1, <1>2, <1>3, <2>1, RunsKept
<1> QED BY <1>1, <1>2, <1>4, <1>5, Troubled

\* A step that takes on a count for what it writes in the log of one contact.
LEMMA TakenOn ==
  ASSUME LogTypes, EngagementAddsUp, NEW v \in Visits, NEW c \in Contacts, NEW k \in Kinds,
         \A w \in Visits \ {v} : visit'[w] = visit[w],
         visit[v].step = "log", visit[v].kind = k,
         visit'[v].step \in {"status", "contact", "count"}, visit'[v].kind = k,
         \A d \in Contacts \ {c} : log'[d] = log[d],
         \/ /\ k = "unsubscribe" /\ log[c].status # "unsubscribed" /\ log'[c].status = "unsubscribed"
            /\ log'[c].seen = log[c].seen /\ hidden'["unsubscribed"] = hidden["unsubscribed"]
            /\ hidden'["bounced"] = hidden["bounced"] + IF log[c].status = "bounced" THEN 1 ELSE 0
         \/ /\ k # "unsubscribe" /\ k \notin log[c].seen /\ log'[c].seen = log[c].seen \cup {k}
            /\ log'[c].status = log[c].status /\ hidden' = hidden,
         UNCHANGED <<stats, report, starting, troubles, straddled, again>>
  PROVE  EngagementAddsUp'
<1>1. /\ ~Counts(v, k) /\ Counts(v, k)'
      /\ \A j : j # k => ~Counts(v, j) /\ ~Counts(v, j)'
  BY DEF Counts
<1>2. /\ Cardinality(Counting(k)') = Cardinality(Counting(k)) + 1
      /\ \A j \in Kinds : j # k => Cardinality(Counting(j)') = Cardinality(Counting(j))
  BY <1>1, VisitTally
<1>3. Reporting' = Reporting
  BY DEF Reporting
<1>4. /\ Cardinality(Reporting) \in Nat /\ Cardinality(Counting("open")) \in Nat
      /\ Cardinality(Counting("click")) \in Nat /\ Cardinality(Counting("unsubscribe")) \in Nat
      /\ stats["open"] \in Nat /\ stats["click"] \in Nat /\ stats["unsubscribe"] \in Nat /\ stats["bounce"] \in Nat
      /\ hidden["unsubscribed"] \in Nat /\ hidden["bounced"] \in Nat /\ again \in Nat
  BY DueNumbers DEF LogTypes, Kinds, Final
<1>5. SUFFICES ASSUME starting # "reset", troubles = 0, ~straddled
               PROVE  EngagementAddsUp'
  BY DEF EngagementAddsUp
<1>6. CASE k = "unsubscribe"
  <2>1. /\ log[c].status # "unsubscribed" /\ log'[c].status = "unsubscribed"
        /\ log'[c].seen = log[c].seen /\ hidden'["unsubscribed"] = hidden["unsubscribed"]
        /\ hidden'["bounced"] = hidden["bounced"] + IF log[c].status = "bounced" THEN 1 ELSE 0
    BY <1>6
  <2>2. /\ Cardinality(Saw("open")') = Cardinality(Saw("open"))
        /\ Cardinality(Saw("click")') = Cardinality(Saw("click"))
    BY <2>1, LogTally
  <2>3. /\ Cardinality(With("unsubscribed")) \in Nat
        /\ Cardinality(With("unsubscribed")') = Cardinality(With("unsubscribed")) + 1
    BY <2>1, LogTally
  <2>4. /\ Cardinality(With("bounced")) \in Nat
        /\ log[c].status # "bounced" => Cardinality(With("bounced")') = Cardinality(With("bounced"))
        /\ log[c].status = "bounced" => Cardinality(With("bounced")') = Cardinality(With("bounced")) - 1
    BY <2>1, LogTally
  <2>5. /\ Cardinality(Counting("open")') = Cardinality(Counting("open"))
        /\ Cardinality(Counting("click")') = Cardinality(Counting("click"))
        /\ Cardinality(Counting("unsubscribe")') = Cardinality(Counting("unsubscribe")) + 1
    BY <1>2, <1>6 DEF Kinds
  <2>6. /\ stats["open"] + Cardinality(Counting("open")) = Cardinality(Saw("open"))
        /\ stats["click"] + Cardinality(Counting("click")) = Cardinality(Saw("click"))
        /\ stats["unsubscribe"] + Cardinality(Counting("unsubscribe"))
               = Cardinality(With("unsubscribed")) + hidden["unsubscribed"]
        /\ stats["bounce"] + Cardinality(Reporting) = Cardinality(With("bounced")) + hidden["bounced"] + again
    BY <1>5 DEF EngagementAddsUp, Saw
  <2>7. /\ stats'["open"] + Cardinality(Counting("open")') = Cardinality(Saw("open")')
        /\ stats'["click"] + Cardinality(Counting("click")') = Cardinality(Saw("click")')
    BY <2>2, <2>5, <2>6
  <2>8. stats'["unsubscribe"] + Cardinality(Counting("unsubscribe")')
            = Cardinality(With("unsubscribed")') + hidden'["unsubscribed"]
    BY <1>4, <2>1, <2>3, <2>5, <2>6
  <2>9. stats'["bounce"] + Cardinality(Reporting') = Cardinality(With("bounced")') + hidden'["bounced"] + again'
    BY <1>3, <1>4, <2>1, <2>4, <2>6
  <2> QED BY <2>7, <2>8, <2>9 DEF EngagementAddsUp, Saw
<1>7. CASE k # "unsubscribe"
  <2>1. /\ k \notin log[c].seen /\ log'[c].seen = log[c].seen \cup {k} /\ log'[c].status = log[c].status
        /\ k \in {"open", "click"} /\ hidden' = hidden
    BY <1>7 DEF Kinds
  <2>2. /\ Cardinality(Saw(k)) \in Nat /\ Cardinality(Saw(k)') = Cardinality(Saw(k)) + 1
        /\ \A j : j # k => Cardinality(Saw(j)') = Cardinality(Saw(j))
    <3>1. k \notin log[c].seen /\ k \in log'[c].seen /\ \A j : j # k => (j \in log[c].seen <=> j \in log'[c].seen)
      BY <2>1
    <3> QED BY <3>1, LogTally
  <2>3. /\ Cardinality(With("unsubscribed")') = Cardinality(With("unsubscribed"))
        /\ Cardinality(With("bounced")') = Cardinality(With("bounced"))
    BY <2>1, LogTally
  <2>4. \A j \in {"open", "click"} :
            stats'[j] + Cardinality(Counting(j)') = Cardinality({d \in Contacts : j \in log'[d].seen})
    <3>1. TAKE j \in {"open", "click"}
    <3>2. stats[j] + Cardinality(Counting(j)) = Cardinality(Saw(j)) /\ stats[j] \in Nat
          /\ Cardinality(Counting(j)) \in Nat
      BY <1>4, <1>5 DEF EngagementAddsUp, Saw
    <3>3. stats'[j] + Cardinality(Counting(j)') = Cardinality(Saw(j)')
      BY <1>2, <2>2, <3>2 DEF Kinds
    <3> QED BY <3>3 DEF Saw
  <2>5. Cardinality(Counting("unsubscribe")') = Cardinality(Counting("unsubscribe"))
    BY <1>2, <1>7 DEF Kinds
  <2> QED BY <1>3, <1>4, <1>5, <2>1, <2>3, <2>4, <2>5 DEF EngagementAddsUp
<1> QED BY <1>6, <1>7

\* The handler's write of the log: the first open, the first click or the unsubscription takes
\* on a count; any other counts nothing.
LEMMA FirstTallies ==
  ASSUME TallyInv, NEW v \in Visits, First(v)
  PROVE  LogTypes' /\ RunInv' /\ EngagementAddsUp'
<1> DEFINE c == visit[v].who
           k == visit[v].kind
<1>1. /\ visit[v].step = "log" /\ visit[v] \in Trips /\ c \in Contacts /\ k \in Kinds
      /\ UNCHANGED <<contact, stats, run, starting, delivered, booking, report, again, straddled, troubles>>
  BY OnTheWay DEF TallyInv, First, KeepOthers, sending, Trips
<1>2. LinkInv /\ LogTypes /\ RunInv /\ EngagementAddsUp
  BY DEF TallyInv
<1>3. Found(v) => log[c].run # 0
  BY <1>1, <1>2 DEF Found, RunInv
<1>4. CASE Found(v) /\ IsFirst(k, c) /\ k = "unsubscribe" /\ SetStatus(c, "unsubscribed") /\ Goto(v, "contact")
  <2>1. /\ log' \in [Contacts -> Logs] /\ hidden' \in [Final -> Nat]
        /\ \A d \in Contacts \ {c} : log'[d] = log[d]
        /\ log'[c].seen = log[c].seen /\ log'[c].status = "unsubscribed"
        /\ \A d \in Contacts : log'[d].run = log[d].run
        /\ \A d \in Contacts : log'[d].run = 0 => log'[d] = NoLog
        /\ \A f \in Final : hidden'[f] = hidden[f] + IF log[c].status = f /\ f # "unsubscribed" THEN 1 ELSE 0
    BY <1>1, <1>2, <1>3, <1>4, SetStatusIs
  <2>2. /\ \A w \in Visits \ {v} : visit'[w] = visit[w]
        /\ visit'[v].step = "contact" /\ visit'[v].kind = k /\ visit'[v].run = visit[v].run
    BY <1>1, <1>2, <1>4, Went
  <2>3. log[c].status # "unsubscribed"
    BY <1>4 DEF IsFirst
  <2>4. LogTypes'
    BY <1>1, <1>2, <2>1 DEF LogTypes
  <2>5. RunInv'
    BY <1>1, <1>2, <2>1, <2>2, RunsKept
  <2>6. EngagementAddsUp'
    <3>1. /\ hidden'["unsubscribed"] = hidden["unsubscribed"]
          /\ hidden'["bounced"] = hidden["bounced"] + IF log[c].status = "bounced" THEN 1 ELSE 0
      BY <1>2, <2>1, <2>3 DEF LogTypes, Final
    <3> QED BY <1>1, <1>2, <1>4, <2>1, <2>2, <2>3, <3>1, TakenOn
  <2> QED BY <2>4, <2>5, <2>6
<1>5. CASE /\ Found(v) /\ IsFirst(k, c) /\ k # "unsubscribe" /\ Goto(v, "status") /\ UNCHANGED hidden
           /\ log' = [log EXCEPT ![c].seen = @ \cup {k}]
  <2>1. /\ log' \in [Contacts -> Logs]
        /\ \A d \in Contacts \ {c} : log'[d] = log[d]
        /\ log'[c].seen = log[c].seen \cup {k} /\ log'[c].status = log[c].status /\ log'[c].run = log[c].run
    BY <1>1, <1>2, <1>5 DEF LogTypes, Logs, Kinds
  <2>2. /\ \A d \in Contacts : log'[d].run = log[d].run
        /\ \A d \in Contacts : log'[d].run = 0 => log'[d] = NoLog
    BY <1>2, <1>3, <1>5, <2>1 DEF RunInv
  <2>3. /\ \A w \in Visits \ {v} : visit'[w] = visit[w]
        /\ visit'[v].step = "status" /\ visit'[v].kind = k /\ visit'[v].run = visit[v].run
    BY <1>1, <1>2, <1>5, Went
  <2>4. k \notin log[c].seen
    BY <1>5 DEF IsFirst
  <2>5. LogTypes'
    BY <1>1, <1>2, <1>5, <2>1 DEF LogTypes
  <2>6. RunInv'
    BY <1>1, <1>2, <2>2, <2>3, RunsKept
  <2>7. EngagementAddsUp'
    BY <1>1, <1>2, <1>5, <2>1, <2>3, <2>4, TakenOn
  <2> QED BY <2>5, <2>6, <2>7
<1>6. CASE After(v) /\ UNCHANGED <<log, hidden>>
  <2>1. /\ \A w \in Visits \ {v} : visit'[w] = visit[w]
        /\ visit'[v].step = "idle" \/ visit'[v].run = visit[v].run
        /\ \A j : ~Counts(v, j)'
    BY <1>1, <1>2, <1>6, Afterwards
  <2>2. \A j \in Kinds : Counts(v, j) <=> Counts(v, j)'
    BY <1>1, <2>1 DEF Counts
  <2>3. LogTypes'
    BY <1>1, <1>2, <1>6 DEF LogTypes
  <2>4. RunInv'
    <3>1. \A d \in Contacts : log'[d].run = 0 => log'[d] = NoLog
      BY <1>2, <1>6 DEF RunInv
    <3> QED BY <1>1, <1>2, <1>6, <2>1, <3>1, RunsKept
  <2>5. EngagementAddsUp'
    BY <1>1, <1>2, <1>6, <2>1, <2>2, NothingCounted
  <2> QED BY <2>3, <2>4, <2>5
<1> QED BY <1>4, <1>5, <1>6 DEF First

\* The handler's second write of the log: a status of no number of the report.
LEMMA StatusTallies ==
  ASSUME TallyInv, NEW v \in Visits, Status(v)
  PROVE  LogTypes' /\ RunInv' /\ EngagementAddsUp'
<1> DEFINE c == visit[v].who
<1>1. /\ visit[v].step = "status" /\ visit[v] \in Trips /\ c \in Contacts /\ Goto(v, "count")
      /\ UNCHANGED <<contact, stats, run, starting, delivered, booking, report, again, straddled, troubles>>
  BY OnTheWay DEF TallyInv, Status, KeepOthers, sending, Trips
<1>2. LinkInv /\ LogTypes /\ RunInv /\ EngagementAddsUp
  BY DEF TallyInv
<1>3. /\ \A w \in Visits \ {v} : visit'[w] = visit[w]
      /\ visit'[v].step = "count" /\ visit'[v].kind = visit[v].kind /\ visit'[v].run = visit[v].run
  BY <1>1, <1>2, Went
<1>4. \A k \in Kinds : Counts(v, k) <=> Counts(v, k)'
  BY <1>1, <1>3 DEF Counts
<1>5. CASE \E s \in {"opened", "clicked"} : Found(v) /\ SetStatus(c, s)
  <2>1. PICK s \in {"sent", "opened", "clicked"} : Found(v) /\ SetStatus(c, s)
    BY <1>5
  <2>2. log[c].run # 0
    BY <1>1, <1>2, <2>1 DEF Found, RunInv
  <2>3. /\ log' \in [Contacts -> Logs] /\ hidden' \in [Final -> Nat]
        /\ \A d \in Contacts : log'[d].run = log[d].run
        /\ \A d \in Contacts : log'[d].run = 0 => log'[d] = NoLog
    BY <1>1, <1>2, <2>1, <2>2, SetStatusIs
  <2>4. LogTypes'
    BY <1>1, <1>2, <2>3 DEF LogTypes
  <2>5. RunInv'
    BY <1>1, <1>2, <1>3, <2>3, RunsKept
  <2>6. EngagementAddsUp'
    <3>1. (\A k \in Kinds : Counting(k)' = Counting(k)) /\ Reporting' = Reporting
      BY <1>1, <1>3, <1>4 DEF Counting, Counts, Reporting
    <3> QED BY <1>1, <1>2, <2>1, <2>2, <3>1, Overwritten
  <2> QED BY <2>4, <2>5, <2>6
<1>6. CASE UNCHANGED <<log, hidden>>
  <2>1. LogTypes'
    BY <1>1, <1>2, <1>6 DEF LogTypes
  <2>2. RunInv'
    <3>1. \A d \in Contacts : log'[d].run = 0 => log'[d] = NoLog
      BY <1>2, <1>6 DEF RunInv
    <3> QED BY <1>1, <1>2, <1>3, <1>6, <3>1, RunsKept
  <2>3. EngagementAddsUp'
    BY <1>1, <1>2, <1>3, <1>4, <1>6, NothingCounted
  <2> QED BY <2>1, <2>2, <2>3
<1> QED BY <1>5, <1>6 DEF Status

\* The count of a request: one more in the report, one less due.
LEMMA CountTallies ==
  ASSUME TallyInv, NEW v \in Visits, Count(v)
  PROVE  LogTypes' /\ RunInv' /\ EngagementAddsUp'
<1> DEFINE k == visit[v].kind
<1>1. /\ visit[v].step = "count" /\ visit[v] \in Trips /\ k \in Kinds /\ After(v)
      /\ stats' = [stats EXCEPT ![k] = @ + 1]
      /\ UNCHANGED <<log, contact, run, starting, delivered, booking, report, hidden, again, straddled, troubles>>
  BY OnTheWay DEF TallyInv, Count, KeepOthers, sending, marks, Trips
<1>2. LinkInv /\ LogTypes /\ RunInv /\ EngagementAddsUp
  BY DEF TallyInv
<1>3. /\ \A w \in Visits \ {v} : visit'[w] = visit[w]
      /\ visit'[v].step = "idle" \/ visit'[v].run = visit[v].run
      /\ \A j : ~Counts(v, j)'
  BY <1>1, <1>2, Afterwards
<1>4. Counts(v, k) /\ \A j : j # k => ~Counts(v, j)
  BY <1>1 DEF Counts
<1> HIDE DEF k
<1>5. LogTypes'
  BY <1>1, <1>2 DEF LogTypes
<1>6. RunInv'
  <2>1. \A d \in Contacts : log'[d].run = 0 => log'[d] = NoLog
    BY <1>1, <1>2 DEF RunInv
  <2> QED BY <1>1, <1>2, <1>3, <2>1, RunsKept
<1>7. EngagementAddsUp'
  <2>1. \A j \in Kinds \cup {"bounce"} : stats[j] \in Nat /\ stats'[j] = IF j = k THEN stats[j] + 1 ELSE stats[j]
    BY <1>1, <1>2 DEF LogTypes
  <2>2. \A j \in Kinds : Cardinality(Counting(j)') = IF j = k THEN Cardinality(Counting(j)) - 1 ELSE Cardinality(Counting(j))
    BY <1>3, <1>4, VisitTally
  <2>3. \A j \in Kinds : stats'[j] + Cardinality(Counting(j)') = stats[j] + Cardinality(Counting(j))
    BY <2>1, <2>2, DueNumbers
  <2>4. stats'["bounce"] = stats["bounce"]
    BY <1>1, <2>1 DEF Kinds
  <2>5. Reporting' = Reporting /\ \A s : With(s)' = With(s)
    BY <1>1 DEF Reporting, With
  <2>6. /\ stats'["open"] + Cardinality(Counting("open")') = stats["open"] + Cardinality(Counting("open"))
        /\ stats'["click"] + Cardinality(Counting("click")') = stats["click"] + Cardinality(Counting("click"))
        /\ stats'["unsubscribe"] + Cardinality(Counting("unsubscribe")')
               = stats["unsubscribe"] + Cardinality(Counting("unsubscribe"))
    BY <2>3 DEF Kinds
  <2> QED BY <1>1, <1>2, <2>4, <2>5, <2>6 DEF EngagementAddsUp
<1> QED BY <1>5, <1>6, <1>7

-----------------------------------------------------------------------------
(* The provider.                                                            *)
\* A step of a report that writes no log.
LEMMA ReportPasses ==
  ASSUME TallyInv, NEW h \in Reports,
         FindLog(h) \/ FindContact(h) \/ BounceContact(h) \/ (\E m \in Contacts \X (1..MaxRuns) : Report(h, m))
  PROVE  LogTypes' /\ RunInv' /\ EngagementAddsUp'
<1>1. UNCHANGED <<log, stats, run, starting, delivered, booking, visit, hidden, again, straddled, troubles>>
  BY DEF FindLog, FindContact, BounceContact, Report, KeepVisits, sending, marks
<1>2. LogTypes /\ RunInv /\ EngagementAddsUp /\ DOMAIN report = Reports
  BY DEF TallyInv, LogTypes
<1>3. report[h].step # "idle" => report[h] \in Errands /\ report[h].who \in Contacts
  BY <1>2 DEF LogTypes, Errands, Idle
<1>4. contact' \in [Contacts -> Standings]
  BY <1>2 DEF FindLog, FindContact, BounceContact, Report, LogTypes, Standings
<1>5. PICK t \in {Idle} \cup Errands :
          /\ report' = [report EXCEPT ![h] = t]
          /\ report[h].step # "count" /\ t.step # "count"
          /\ t.step \notin {"idle", "find"} => t.log.run # 0
  <2>1. ASSUME NEW m \in Contacts \X (1..MaxRuns), Report(h, m)
        PROVE  \E t \in Errands : /\ report' = [report EXCEPT ![h] = t]
                                  /\ report[h].step # "count" /\ t.step = "find"
    <3> DEFINE t == [step |-> "find", who |-> m[1], log |-> NoLog, status |-> "none"]
    <3>1. t \in Errands /\ t.step = "find"
      BY DEF Errands, NoLog, Logs, Standings
    <3>2. report' = [report EXCEPT ![h] = t] /\ report[h].step # "count"
      BY <2>1 DEF Report
    <3> HIDE DEF t
    <3> QED BY <3>1, <3>2
  <2>2. CASE FindLog(h) /\ log[report[h].who] = NoLog
    BY <2>2 DEF FindLog, ReportEnds, Idle
  <2>3. CASE FindLog(h) /\ log[report[h].who] # NoLog
    <3> DEFINE t == [report[h] EXCEPT !.log = log[report[h].who], !.step = "load"]
    <3>1. /\ report[h].step = "find" /\ report' = [report EXCEPT ![h].log = log[report[h].who], ![h].step = "load"]
      BY <2>3 DEF FindLog
    <3>2. log[report[h].who] \in Logs /\ log[report[h].who].run # 0
      BY <1>2, <1>3, <2>3, <3>1 DEF LogTypes, RunInv
    <3>3. t \in Errands /\ t.step = "load" /\ t.log.run # 0
      BY <1>3, <3>1, <3>2 DEF Errands
    <3>4. report' = [report EXCEPT ![h] = t]
      BY <1>2, <3>1
    <3> HIDE DEF t
    <3> QED BY <3>1, <3>3, <3>4
  <2>4. CASE FindContact(h)
    <3> DEFINE t == [report[h] EXCEPT !.status = contact[report[h].who], !.step = "contact"]
    <3>1. /\ report[h].step = "load"
          /\ report' = [report EXCEPT ![h].status = contact[report[h].who], ![h].step = "contact"]
      BY <2>4 DEF FindContact
    <3>2. contact[report[h].who] \in Standings /\ report[h].log.run # 0
      BY <1>2, <1>3, <3>1 DEF LogTypes, RunInv
    <3>3. t \in Errands /\ t.step = "contact" /\ t.log.run # 0
      BY <1>3, <3>1, <3>2 DEF Errands
    <3>4. report' = [report EXCEPT ![h] = t]
      BY <1>2, <3>1
    <3> HIDE DEF t
    <3> QED BY <3>1, <3>3, <3>4
  <2>5. CASE BounceContact(h)
    <3> DEFINE t == [report[h] EXCEPT !.step = "log"]
    <3>1. report[h].step = "contact" /\ report' = [report EXCEPT ![h].step = "log"]
      BY <2>5 DEF BounceContact, ReportTo
    <3>2. t \in Errands /\ t.step = "log" /\ t.log.run # 0
      BY <1>2, <1>3, <3>1 DEF Errands, RunInv
    <3>4. report' = [report EXCEPT ![h] = t]
      BY <1>2, <3>1
    <3> HIDE DEF t
    <3> QED BY <3>1, <3>2, <3>4
  <2> QED BY <2>1, <2>2, <2>3, <2>4, <2>5
<1>6. report' \in [Reports -> {Idle} \cup Errands] /\ report'[h] = t /\ \A g \in Reports \ {h} : report'[g] = report[g]
  BY <1>2, <1>5 DEF LogTypes
<1>7. LogTypes'
  BY <1>1, <1>2, <1>4, <1>6 DEF LogTypes
<1>8. RunInv'
  BY <1>1, <1>2, <1>5, <1>6 DEF RunInv
<1>9. EngagementAddsUp'
  <2>1. Reporting' = Reporting
    BY <1>5, <1>6 DEF Reporting
  <2>2. \A k \in Kinds : Counting(k)' = Counting(k)
    BY <1>1 DEF Counting
  <2> QED BY <1>1, <1>2, <2>1, <2>2, Still
<1> QED BY <1>7, <1>8, <1>9

\* A report that fails.
LEMMA ReportTroubles ==
  ASSUME TallyInv, NEW h \in Reports, ReportFails(h)
  PROVE  LogTypes' /\ RunInv' /\ EngagementAddsUp'
<1>1. /\ report' = [report EXCEPT ![h] = Idle] /\ troubles' = troubles + 1
      /\ UNCHANGED <<log, contact, stats, run, starting, delivered, booking, visit, hidden, again, straddled>>
  BY DEF ReportFails, ReportEnds, KeepVisits, sending, marks
<1>2. LogTypes /\ RunInv
  BY DEF TallyInv
<1>3. LogTypes'
  BY <1>1, <1>2 DEF LogTypes
<1>4. RunInv'
  BY <1>1, <1>2 DEF RunInv, LogTypes, Idle
<1> QED BY <1>1, <1>2, <1>3, <1>4, Troubled

\* The report's save: the bounce it takes on to count is in the log now, unless the log had it.
LEMMA BounceTallies ==
  ASSUME TallyInv, NEW h \in Reports, BounceLog(h)
  PROVE  LogTypes' /\ RunInv' /\ EngagementAddsUp'
<1> DEFINE c == report[h].who
<1>1. /\ report[h].step = "log"
      /\ UNCHANGED <<contact, stats, run, starting, delivered, booking, visit, straddled, troubles>>
  BY DEF BounceLog, KeepVisits, sending
<1>2. LogTypes /\ RunInv /\ EngagementAddsUp /\ DOMAIN report = Reports
  BY DEF TallyInv, LogTypes
<1>3. report[h] \in Errands /\ c \in Contacts /\ report[h].log.run # 0
  BY <1>1, <1>2 DEF LogTypes, Errands, Idle, RunInv
<1>4. \A k : Counting(k)' = Counting(k)
  BY <1>1 DEF Counting
<1>5. CASE /\ log[c].run = report[h].log.run /\ SetStatus(c, "bounced") /\ ReportTo(h, "count")
           /\ again' = again + IF log[c].status = "bounced" THEN 1 ELSE 0
  <2> DEFINE t == [report[h] EXCEPT !.step = "count"]
  <2>1. t \in Errands /\ t.step = "count" /\ t.log = report[h].log
    BY <1>3 DEF Errands
  <2>2. report' = [report EXCEPT ![h] = t]
    BY <1>2, <1>5 DEF ReportTo
  <2> HIDE DEF t
  <2>3. /\ report' \in [Reports -> {Idle} \cup Errands] /\ report'[h] = t
        /\ \A g \in Reports \ {h} : report'[g] = report[g]
    BY <1>2, <2>1, <2>2 DEF LogTypes
  <2>4. /\ log' \in [Contacts -> Logs] /\ hidden' \in [Final -> Nat]
        /\ \A d \in Contacts \ {c} : log'[d] = log[d]
        /\ log'[c].seen = log[c].seen /\ log'[c].status = "bounced"
        /\ \A d \in Contacts : log'[d].run = log[d].run
        /\ \A d \in Contacts : log'[d].run = 0 => log'[d] = NoLog
        /\ \A f \in Final : hidden'[f] = hidden[f] + IF log[c].status = f /\ f # "bounced" THEN 1 ELSE 0
    BY <1>2, <1>3, <1>5, SetStatusIs
  <2>5. LogTypes'
    <3>1. again' \in Nat
      BY <1>2, <1>5 DEF LogTypes
    <3> QED BY <1>1, <1>2, <2>3, <2>4, <3>1 DEF LogTypes
  <2>6. RunInv'
    <3>1. starting = "no"
      BY <1>2, <1>3, <1>5 DEF RunInv, LogTypes, NoLog
    <3>2. \A m \in booking' : log'[m[1]].run = m[2]
      BY <1>1, <1>2, <2>4 DEF RunInv, LogTypes
    <3>3. \A g \in Reports : report'[g].step \notin {"idle", "find"} => report'[g].log.run # 0
      BY <1>2, <1>3, <2>1, <2>3 DEF RunInv
    <3> QED BY <1>1, <1>2, <2>4, <3>1, <3>2, <3>3 DEF RunInv
  <2>7. EngagementAddsUp'
    <3>1. Cardinality(Reporting) \in Nat /\ Cardinality(Reporting') = Cardinality(Reporting) + 1
      <4>1. report[h].step # "count" /\ report'[h].step = "count"
        BY <1>1, <2>1, <2>3
      <4> QED BY <2>3, <4>1, ReportTally
    <3>2. /\ Cardinality(Saw("open")') = Cardinality(Saw("open"))
          /\ Cardinality(Saw("click")') = Cardinality(Saw("click"))
      BY <1>3, <2>4, LogTally
    <3>3. /\ Cardinality(With("unsubscribed")) \in Nat
          /\ log[c].status # "unsubscribed" => Cardinality(With("unsubscribed")') = Cardinality(With("unsubscribed"))
          /\ log[c].status = "unsubscribed" => Cardinality(With("unsubscribed")') = Cardinality(With("unsubscribed")) - 1
      BY <1>3, <2>4, LogTally
    <3>4. /\ Cardinality(With("bounced")) \in Nat
          /\ log[c].status # "bounced" => Cardinality(With("bounced")') = Cardinality(With("bounced")) + 1
          /\ log[c].status = "bounced" => Cardinality(With("bounced")') = Cardinality(With("bounced"))
      BY <1>3, <2>4, LogTally
    <3>5. SUFFICES ASSUME starting # "reset", troubles = 0, ~straddled
                   PROVE  EngagementAddsUp'
      BY <1>1 DEF EngagementAddsUp
    <3> DEFINE gone == stats["unsubscribe"] + Cardinality(Counting("unsubscribe"))
               back == stats["bounce"] + Cardinality(Reporting)
    <3>6. /\ gone = Cardinality(With("unsubscribed")) + hidden["unsubscribed"]
          /\ back = Cardinality(With("bounced")) + hidden["bounced"] + again
      BY <1>2, <3>5 DEF EngagementAddsUp
    <3>7. /\ gone \in Nat /\ back \in Nat /\ again \in Nat
          /\ hidden["unsubscribed"] \in Nat /\ hidden["bounced"] \in Nat
      BY <1>2, DueNumbers DEF LogTypes, Kinds, Final
    <3>8. /\ gone = stats'["unsubscribe"] + Cardinality(Counting("unsubscribe")')
          /\ back + 1 = stats'["bounce"] + Cardinality(Reporting')
      BY <1>1, <1>2, <1>4, <3>1 DEF LogTypes
    <3> HIDE DEF gone, back
    <3>9. /\ hidden'["unsubscribed"] = hidden["unsubscribed"] + IF log[c].status = "unsubscribed" THEN 1 ELSE 0
          /\ hidden'["bounced"] = hidden["bounced"]
      BY <2>4, <3>7 DEF Final
    <3>10. gone = Cardinality(With("unsubscribed")') + hidden'["unsubscribed"]
      BY <3>3, <3>6, <3>7, <3>9
    <3>11. back + 1 = Cardinality(With("bounced")') + hidden'["bounced"] + again'
      BY <1>5, <3>4, <3>6, <3>7, <3>9
    <3>12. \A j \in {"open", "click"} :
               stats'[j] + Cardinality(Counting(j)') = Cardinality({d \in Contacts : j \in log'[d].seen})
      <4>1. TAKE j \in {"open", "click"}
      <4>2. stats[j] + Cardinality(Counting(j)) = Cardinality(Saw(j))
        BY <1>2, <3>5 DEF EngagementAddsUp, Saw
      <4>3. stats'[j] + Cardinality(Counting(j)') = Cardinality(Saw(j)')
        BY <1>1, <1>4, <3>2, <4>2
      <4> QED BY <4>3 DEF Saw
    <3> QED BY <3>8, <3>10, <3>11, <3>12 DEF EngagementAddsUp
  <2> QED BY <2>5, <2>6, <2>7
<1>6. CASE ReportEnds(h) /\ UNCHANGED <<log, hidden, again>>
  <2>1. report' \in [Reports -> {Idle} \cup Errands] /\ report'[h].step = "idle" /\ \A g \in Reports \ {h} : report'[g] = report[g]
    BY <1>2, <1>6 DEF ReportEnds, LogTypes, Idle
  <2>2. LogTypes'
    BY <1>1, <1>2, <1>6, <2>1 DEF LogTypes
  <2>3. RunInv'
    BY <1>1, <1>2, <1>6, <2>1 DEF RunInv
  <2>4. Reporting' = Reporting
    BY <1>1, <2>1 DEF Reporting
  <2>5. EngagementAddsUp'
    BY <1>1, <1>2, <1>4, <1>6, <2>4, Still
  <2> QED BY <2>2, <2>3, <2>5
<1> QED BY <1>5, <1>6 DEF BounceLog, Overlapped, marks

\* The count of a report.
LEMMA CountBounceTallies ==
  ASSUME TallyInv, NEW h \in Reports, CountBounce(h)
  PROVE  LogTypes' /\ RunInv' /\ EngagementAddsUp'
<1>1. /\ report[h].step = "count" /\ report' = [report EXCEPT ![h] = Idle]
      /\ stats' = [stats EXCEPT !["bounce"] = @ + 1]
      /\ UNCHANGED <<log, contact, run, starting, delivered, booking, visit, hidden, again, straddled, troubles>>
  BY DEF CountBounce, ReportEnds, KeepVisits, sending, marks
<1>2. LogTypes /\ RunInv /\ EngagementAddsUp
  BY DEF TallyInv
<1>3. /\ report' \in [Reports -> {Idle} \cup Errands] /\ report'[h].step = "idle"
      /\ \A g \in Reports \ {h} : report'[g] = report[g]
  BY <1>1, <1>2 DEF LogTypes, Idle
<1>4. LogTypes'
  BY <1>1, <1>2, <1>3 DEF LogTypes
<1>5. RunInv'
  BY <1>1, <1>2, <1>3 DEF RunInv
<1>6. EngagementAddsUp'
  <2>1. Cardinality(Reporting) \in Nat /\ Cardinality(Reporting') = Cardinality(Reporting) - 1
    BY <1>1, <1>3, ReportTally
  <2>2. /\ stats["bounce"] \in Nat /\ stats'["bounce"] = stats["bounce"] + 1
        /\ \A j \in Kinds : stats'[j] = stats[j]
    BY <1>1, <1>2 DEF LogTypes, Kinds
  <2>3. stats'["bounce"] + Cardinality(Reporting') = stats["bounce"] + Cardinality(Reporting)
    BY <2>1, <2>2
  <2>4. (\A k : Counting(k)' = Counting(k)) /\ \A s : With(s)' = With(s)
    BY <1>1 DEF Counting, With
  <2>5. stats'["open"] = stats["open"] /\ stats'["click"] = stats["click"] /\ stats'["unsubscribe"] = stats["unsubscribe"]
    BY <2>2 DEF Kinds
  <2> QED BY <1>1, <1>2, <2>3, <2>4, <2>5 DEF EngagementAddsUp
<1> QED BY <1>4, <1>5, <1>6

\* Every step keeps the numbers.
LEMMA TallyStep == ASSUME TallyInv, [Next]_vars PROVE TallyInv'
<1>1. LinkInv'
  BY LinkStep DEF TallyInv
<1>2. LogTypes' /\ RunInv' /\ EngagementAddsUp'
  <2>1. CASE \E c \in Contacts : Send(c) \/ LoadContact(c)
    BY <2>1, SendTally, PanelTally
  <2>2. CASE \E m \in Contacts \X (1..MaxRuns) :
                 \/ Book(m)
                 \/ \E v \in Visits, k \in Kinds, u \in Urls \cup {NoLink} : Visit(v, k, m, u)
                 \/ \E h \in Reports : Report(h, m)
    BY <2>2, BookTally, VisitTallies, ReportPasses
  <2>3. CASE WipeLogs \/ ResetStats \/ Dispatch \/ Reactivate \/ UNCHANGED vars
    BY <2>3, WipeTally, ResetTally, DispatchTally, PanelTally
  <2>4. CASE \E v \in Visits : VisitSteps(v) \/ VisitFails(v)
    BY <2>4, FirstTallies, StatusTallies, PassTallies, CountTallies, FailTallies DEF VisitSteps
  <2>5. CASE \E h \in Reports : ReportSteps(h) \/ ReportFails(h)
    BY <2>5, ReportPasses, BounceTallies, CountBounceTallies, ReportTroubles DEF ReportSteps
  <2> QED BY <2>1, <2>2, <2>3, <2>4, <2>5 DEF Next
<1> QED BY <1>1, <1>2 DEF TallyInv

\* Nothing is counted, and nothing shows.
LEMMA TallyStarts == ASSUME Init PROVE TallyInv
<1>1. LinkInv
  BY LinkStarts
<1>2. LogTypes
  BY DEF Init, LogTypes, NewLog, Logs, Standings, NoStats, NoneHidden
<1>3. RunInv
  BY DEF Init, RunInv, NewLog, Idle
<1>4. EngagementAddsUp
  <2>1. /\ Saw("open") = {} /\ Saw("click") = {}
        /\ With("unsubscribed") = {} /\ With("bounced") = {}
    BY NothingShows DEF Init, NewLog
  <2>2. (\A k : Counting(k) = {}) /\ Reporting = {}
    BY DEF Init, Counting, Reporting, Idle
  <2>3. /\ Cardinality(Saw("open")) = 0 /\ Cardinality(Saw("click")) = 0
        /\ Cardinality(With("unsubscribed")) = 0 /\ Cardinality(With("bounced")) = 0
    BY <2>1, FS_EmptySet
  <2>4. /\ Cardinality(Counting("open")) = 0 /\ Cardinality(Counting("click")) = 0
        /\ Cardinality(Counting("unsubscribe")) = 0 /\ Cardinality(Reporting) = 0
    BY <2>2, FS_EmptySet
  <2>5. stats["open"] = 0 /\ stats["click"] = 0 /\ stats["unsubscribe"] = 0 /\ stats["bounce"] = 0
    BY DEF Init, NoStats, Kinds
  <2>6. hidden["unsubscribed"] = 0 /\ hidden["bounced"] = 0 /\ again = 0
    BY DEF Init, NoneHidden, Final
  <2> QED BY <2>3, <2>4, <2>5, <2>6 DEF EngagementAddsUp, Saw
<1> QED BY <1>1, <1>2, <1>3, <1>4 DEF TallyInv

\* The numbers of a campaign's report are its recipients, for any number of them, of requests
\* and of webhooks at once: opens and clicks are counted once each, unsubscriptions and bounces
\* are those the logs show, those another status was written over and, a bounce, once more for
\* each webhook that overlapped another one; while nothing fails and no start overtakes a
\* request.
THEOREM EngagementCounted == Spec => []EngagementAddsUp
<1>1. Init => TallyInv
  BY TallyStarts
<1>2. TallyInv /\ [Next]_vars => TallyInv'
  BY TallyStep
<1>3. TallyInv => EngagementAddsUp
  BY DEF TallyInv
<1> QED BY <1>1, <1>2, <1>3, PTL DEF Spec
=============================================================================
