----------------------------- MODULE FormProofs -----------------------------
(***************************************************************************)
(* Three promises of FormWebhook, for any number of posts and addresses,   *)
(* any limits and any number of faults: what a submission says is what the *)
(* server accepted for it, a window answers an address once, and the       *)
(* numbers of the panel are the submissions.                               *)
(***************************************************************************)
EXTENDS FormWebhook, FiniteSetTheorems, TLAPS

-----------------------------------------------------------------------------
(* The invariant.                                                           *)
PostStates == [pc : PostPc, email : Emails \cup {NoEmail}, answer : Answers, opened : Int]
JobStates == [state : {"none", "waiting", "active", "done", "failed"}, made : Nat, stalled : BOOLEAN]

Types ==
    /\ post \in [Posts -> PostStates]
    /\ job \in [Posts -> JobStates]
    /\ work \in [Posts -> WorkPc]
    /\ sub \in [Posts -> SubStatus]
    /\ mails \in [Posts -> Int] /\ lost \in [Posts -> Int]
    /\ window \subseteq Emails /\ ended \in [Emails -> Nat]

Before == {"new", "receive", "hour", "window", "reject"}

\* A request: it answers once, creates its submission once, and hands over its job last.
Asked(p) ==
    /\ post[p].answer # "none" => post[p].pc = "answered"
    /\ post[p].pc \in Before \cup {"create"} => sub[p] = "none"
    /\ post[p].pc \in Before => post[p].opened < 0
    /\ post[p].pc \in {"hour", "window"} => post[p].email \in Emails
    /\ post[p].pc # "answered" => job[p].state = "none"

\* A delivery: only an active job is in a worker's hands, and what may still be sent is queued.
Settled(p) == lost[p] + (IF work[p] = "save" THEN 1 ELSE 0)
Delivered(p) ==
    /\ job[p].state # "active" => work[p] = "idle"
    /\ work[p] \in {"check", "reserve", "mailbox", "send", "save"} => sub[p] \in {"queued", "removed"}
    /\ sub[p] \in {"none", "queued", "failed", "rejected"} => mails[p] = Settled(p)
    /\ sub[p] = "sent" => mails[p] = lost[p] + 1

\* A window: who opened it has a submission, is about to, or broke off; its number is the
\* address's last one only while the key is there.
Stands(p) == sub[p] # "none" \/ post[p].pc = "create" \/ post[p].answer = "error"
Opener(p) ==
    post[p].opened >= 0 =>
        /\ post[p].email \in Emails
        /\ post[p].opened <= ended[post[p].email]
        /\ post[p].opened = ended[post[p].email] => post[p].email \in window
        /\ Stands(p)
Opened(e) == e \in window => \E q \in Posts : post[q].email = e /\ post[q].opened = ended[e]
Apart(p, q) == p # q /\ post[p].email = post[q].email /\ post[p].opened >= 0 => post[p].opened # post[q].opened
Echo(p) == post[p].answer = "duplicate" =>
    \E q \in Posts : post[q].email = post[p].email /\ post[q].opened >= 0

Windows ==
    /\ \A p \in Posts : Opener(p) /\ Echo(p)
    /\ \A e \in Emails : Opened(e)
    /\ \A p, q \in Posts : Apart(p, q)

FormInv == Types /\ (\A p \in Posts : Asked(p) /\ Delivered(p)) /\ Windows

-----------------------------------------------------------------------------
(* Requests.                                                                *)
LEMMA PostGoes ==
  ASSUME Types, NEW p \in Posts, NEW w \in PostPc, PostTo(p, w)
  PROVE  /\ post' \in [Posts -> PostStates]
         /\ post'[p].pc = w /\ post'[p].email = post[p].email
         /\ post'[p].answer = post[p].answer /\ post'[p].opened = post[p].opened
         /\ \A q \in Posts \ {p} : post'[q] = post[q]
BY DEF PostTo, Types, PostStates

\* An answer is the last step of a request.
LEMMA PostAnswers ==
  ASSUME Types, NEW p \in Posts, NEW a \in Answers, Answer(p, a)
  PROVE  /\ post' \in [Posts -> PostStates]
         /\ post'[p].pc = "answered" /\ post'[p].email = post[p].email
         /\ post'[p].answer = a /\ post'[p].opened = post[p].opened
         /\ \A q \in Posts \ {p} : post'[q] = post[q]
<1>1. "answered" \in PostPc
  BY DEF PostPc
<1>2. post[p] \in PostStates
  BY DEF Types
<1> DEFINE m == [post[p] EXCEPT !.pc = "answered", !.answer = a]
<1>3. m \in PostStates /\ m.pc = "answered" /\ m.email = post[p].email /\ m.answer = a /\ m.opened = post[p].opened
  BY <1>1, <1>2 DEF PostStates
<1>4. post' = [post EXCEPT ![p] = m]
  BY DEF Answer, Types, PostStates
<1> HIDE DEF m
<1> QED BY <1>3, <1>4 DEF Types

\* A step of a request that neither opens a window nor creates a submission.
Quiet(p) == Receive(p) \/ CountHour(p) \/ CountReceived(p) \/ RequestFails(p)
\* It moves its own post alone, keeps the window it opened, and never answers duplicate.
LEMMA QuietMoves ==
  ASSUME FormInv, NEW p \in Posts, Quiet(p)
  PROVE  /\ post' \in [Posts -> PostStates]
         /\ UNCHANGED <<sub, window, ended, sending>>
         /\ \A q \in Posts \ {p} : post'[q] = post[q]
         /\ post[p].pc # "answered"
         /\ post'[p].email = post[p].email /\ post'[p].opened = post[p].opened
         /\ post'[p].answer # "none" => post'[p].pc = "answered" /\ post'[p].answer # "duplicate"
         /\ post'[p].pc \in Before \cup {"create"} => post[p].pc \in Before
         /\ post'[p].pc \in {"hour", "window"} => post[p].email \in Emails
         /\ post[p].pc = "create" => post'[p].answer = "error"
<1>1. Types /\ Asked(p)
  BY DEF FormInv
<1>2. UNCHANGED <<sub, window, ended, sending>>
  BY DEF Quiet, Receive, CountHour, CountReceived, RequestFails
<1>3. CASE Receive(p)
  <2>1. PostAt(p, "receive")
    BY <1>3 DEF Receive
  <2>2. CASE Answer(p, "notFound")
    BY <1>1, <1>2, <2>1, <2>2, PostAnswers DEF PostAt, Answers, Before
  <2>3. CASE PostTo(p, IF post[p].email = NoEmail THEN "reject" ELSE "hour")
    <3>1. post[p].email # NoEmail => post[p].email \in Emails
      BY <1>1 DEF Types, PostStates
    <3> QED BY <1>1, <1>2, <2>1, <2>3, <3>1, PostGoes DEF PostAt, PostPc, Before, Asked
  <2> QED BY <1>3, <2>2, <2>3 DEF Receive
<1>4. CASE CountHour(p)
  <2>1. PostAt(p, "hour") /\ \E w \in {"window", "reject"} : PostTo(p, w)
    BY <1>4 DEF CountHour
  <2> QED BY <1>1, <1>2, <2>1, PostGoes DEF PostAt, PostPc, Before, Asked
<1>5. CASE CountReceived(p)
  <2>1. post[p].pc \in {"stats", "rejectStats"}
    BY <1>5 DEF CountReceived, PostAt
  <2>2. CASE PostTo(p, "enqueue")
    BY <1>1, <1>2, <2>1, <2>2, PostGoes DEF PostPc, Before, Asked
  <2>3. CASE Answer(p, "rejected")
    BY <1>1, <1>2, <2>1, <2>3, PostAnswers DEF Answers, Before
  <2> QED BY <1>5, <2>2, <2>3 DEF CountReceived
<1>6. CASE RequestFails(p)
  <2>1. Answer(p, "error") /\ post[p].pc # "answered"
    BY <1>6 DEF RequestFails
  <2> QED BY <1>1, <1>2, <2>1, PostAnswers DEF Answers, Before
<1> QED BY <1>3, <1>4, <1>5, <1>6 DEF Quiet

\* What every step of a request does to the posts and submissions of the others.
Others(p) == \A q \in Posts \ {p} : post'[q] = post[q] /\ sub'[q] = sub[q] /\ job'[q] = job[q]
KeepsMails == UNCHANGED <<work, mails, lost>>

\* Steps that only move a request.
LEMMA QuietKeeps == ASSUME FormInv, NEW p \in Posts, Quiet(p) PROVE FormInv'
<1>1. UNCHANGED <<sub, window, ended, job, work, mails, lost>>
  BY QuietMoves DEF sending
<1>2. Types'
  BY <1>1, QuietMoves DEF FormInv, Types
<1>3. ASSUME NEW q \in Posts PROVE Asked(q)' /\ Delivered(q)'
  <2>1. Asked(q) /\ Delivered(q)
    BY DEF FormInv
  <2>2. Delivered(q)'
    BY <1>1, <2>1 DEF Delivered, Settled
  <2>3. CASE q = p
    BY <1>1, <2>1, <2>2, <2>3, QuietMoves DEF Asked, Before
  <2>4. CASE q # p
    BY <1>1, <2>1, <2>2, <2>4, QuietMoves DEF Asked
  <2> QED BY <2>3, <2>4
<1>4. \A q \in Posts : post'[q].email = post[q].email /\ post'[q].opened = post[q].opened
  BY QuietMoves
<1>5. \A q \in Posts : Stands(q) => Stands(q)'
  BY <1>1, QuietMoves DEF Stands, FormInv, Asked
<1>6. \A q \in Posts : post'[q].answer = "duplicate" => post[q].answer = "duplicate"
  BY QuietMoves
<1>7. Windows'
  BY <1>1, <1>4, <1>5, <1>6 DEF FormInv, Windows, Opener, Opened, Apart, Echo
<1> QED BY <1>2, <1>3, <1>7 DEF FormInv

\* A post comes in with its address.
LEMMA ArriveKeeps == ASSUME FormInv, NEW p \in Posts, NEW e \in Emails \cup {NoEmail}, Arrive(p, e) PROVE FormInv'
<1>1. Types /\ Asked(p) /\ post[p] \in PostStates /\ post[p].pc = "new"
  BY DEF FormInv, Types, Arrive, PostAt
<1>2. UNCHANGED <<sub, window, ended, job, work, mails, lost>>
  BY DEF Arrive, sending
<1> DEFINE m == IF hook.exists /\ hook.active /\ hook.known
                THEN [post[p] EXCEPT !.pc = "receive", !.email = e]
                ELSE [post[p] EXCEPT !.pc = "answered", !.answer = "notFound"]
<1>3. post' = [post EXCEPT ![p] = m]
  BY DEF Arrive
<1>4. m \in PostStates /\ m.opened = post[p].opened /\ m.pc \in {"receive", "answered"}
      /\ (m.answer # "none" => m.pc = "answered" /\ m.answer # "duplicate")
  BY <1>1 DEF PostStates, PostPc, Answers, Asked
<1> HIDE DEF m
<1>5. Types' /\ post'[p] = m /\ \A q \in Posts \ {p} : post'[q] = post[q]
  BY <1>1, <1>2, <1>3, <1>4 DEF Types
<1>6. ~(post[p].opened >= 0)
  BY <1>1 DEF Asked, Before, PostStates
<1>7. ASSUME NEW q \in Posts PROVE Asked(q)' /\ Delivered(q)'
  <2>1. Asked(q) /\ Delivered(q)
    BY DEF FormInv
  <2>2. Delivered(q)'
    BY <1>2, <2>1 DEF Delivered, Settled
  <2>3. CASE q = p
    BY <1>1, <1>2, <1>4, <1>5, <1>6, <2>1, <2>2, <2>3 DEF Asked, Before
  <2>4. CASE q # p
    BY <1>2, <1>5, <2>1, <2>2, <2>4 DEF Asked
  <2> QED BY <2>3, <2>4
<1>8. ASSUME NEW q \in Posts PROVE Opener(q)'
  <2>1. CASE q = p
    BY <1>4, <1>5, <1>6, <2>1 DEF Opener
  <2>2. CASE q # p
    BY <1>2, <1>5, <2>2 DEF FormInv, Windows, Opener, Stands
  <2> QED BY <2>1, <2>2
<1>9. ASSUME NEW f \in Emails PROVE Opened(f)'
  <2>1. SUFFICES ASSUME f \in window PROVE \E q \in Posts : post'[q].email = f /\ post'[q].opened = ended[f]
    BY <1>2 DEF Opened
  <2>2. PICK q \in Posts : post[q].email = f /\ post[q].opened = ended[f]
    BY <2>1 DEF FormInv, Windows, Opened
  <2>3. ended[f] >= 0
    BY <1>1 DEF Types
  <2>4. q # p
    BY <1>6, <2>2, <2>3
  <2> QED BY <1>5, <2>2, <2>4
<1>10. ASSUME NEW q \in Posts, NEW r \in Posts PROVE Apart(q, r)'
  BY <1>4, <1>5, <1>6 DEF FormInv, Windows, Apart
<1>11. ASSUME NEW q \in Posts PROVE Echo(q)'
  <2>1. SUFFICES ASSUME post'[q].answer = "duplicate"
                 PROVE  \E r \in Posts : post'[r].email = post'[q].email /\ post'[r].opened >= 0
    BY DEF Echo
  <2>2. q # p
    BY <1>4, <1>5, <2>1
  <2>3. PICK r \in Posts : post[r].email = post[q].email /\ post[r].opened >= 0
    BY <1>5, <2>1, <2>2 DEF FormInv, Windows, Echo
  <2>4. r # p
    BY <1>6, <2>3
  <2> QED BY <1>5, <2>2, <2>3, <2>4
<1> QED BY <1>5, <1>7, <1>8, <1>9, <1>10, <1>11 DEF FormInv, Windows

\* set NX: the key is taken by one post, and the others are duplicates of that one.
LEMMA WindowKeeps == ASSUME FormInv, NEW p \in Posts, TakeWindow(p) PROVE FormInv'
<1>1. Types /\ Asked(p) /\ post[p] \in PostStates /\ post[p].pc = "window" /\ post[p].email \in Emails
  BY DEF FormInv, Types, TakeWindow, PostAt, Asked
<1>2. UNCHANGED <<sub, ended, job, work, mails, lost>>
  BY DEF TakeWindow, sending
<1>3. ~(post[p].opened >= 0) /\ sub[p] = "none"
  BY <1>1 DEF Asked, Before, PostStates
<1> DEFINE em == post[p].email
<1>4. CASE em \in window
  <2>1. Answer(p, "duplicate") /\ window' = window
    BY <1>4 DEF TakeWindow
  <2>2. /\ post' \in [Posts -> PostStates]
        /\ post'[p].pc = "answered" /\ post'[p].email = em
        /\ post'[p].answer = "duplicate" /\ post'[p].opened = post[p].opened
        /\ \A q \in Posts \ {p} : post'[q] = post[q]
    BY <1>1, <2>1, PostAnswers DEF Answers
  <2>3. Types'
    BY <1>1, <1>2, <2>1, <2>2 DEF Types
  <2>4. ASSUME NEW q \in Posts PROVE Asked(q)' /\ Delivered(q)'
    <3>1. Asked(q) /\ Delivered(q)
      BY DEF FormInv
    <3>2. Delivered(q)'
      BY <1>2, <3>1 DEF Delivered, Settled
    <3>3. Asked(q)'
      BY <1>2, <2>2, <3>1 DEF Asked, Before
    <3> QED BY <3>2, <3>3
  <2>5. \A q \in Posts : Opener(q)'
    BY <1>2, <1>3, <2>1, <2>2 DEF FormInv, Windows, Opener, Stands
  <2>6. \A f \in Emails : Opened(f)'
    BY <1>2, <2>1, <2>2 DEF FormInv, Windows, Opened
  <2>7. \A q, r \in Posts : Apart(q, r)'
    BY <2>2 DEF FormInv, Windows, Apart
  <2>8. ended[em] >= 0
    BY <1>1 DEF Types
  <2>9. \E q \in Posts : post[q].email = em /\ post[q].opened >= 0
    BY <1>1, <1>4, <2>8 DEF FormInv, Windows, Opened
  <2>10. \A q \in Posts : Echo(q)'
    BY <2>2, <2>9 DEF FormInv, Windows, Echo
  <2> QED BY <2>3, <2>4, <2>5, <2>6, <2>7, <2>10 DEF FormInv, Windows
<1>5. CASE em \notin window
  <2> DEFINE m == [post[p] EXCEPT !.pc = "create", !.opened = ended[em]]
  <2>1. ended[em] \in Nat /\ ended[em] \in Int /\ ended[em] >= 0
    BY <1>1 DEF Types
  <2>2. m \in PostStates /\ m.pc = "create" /\ m.opened = ended[em] /\ m.email = em /\ m.answer = post[p].answer
    BY <1>1, <2>1 DEF PostStates, PostPc
  <2>3. window' = window \cup {em} /\ post' = [post EXCEPT ![p] = m]
    BY <1>1, <1>5 DEF TakeWindow, Types, PostStates
  <2> HIDE DEF m
  <2>4. Types' /\ post'[p] = m /\ \A q \in Posts \ {p} : post'[q] = post[q]
    BY <1>1, <1>2, <2>2, <2>3 DEF Types
  <2>5. ASSUME NEW q \in Posts PROVE Asked(q)' /\ Delivered(q)'
    <3>1. Asked(q) /\ Delivered(q)
      BY DEF FormInv
    <3>2. Delivered(q)'
      BY <1>2, <3>1 DEF Delivered, Settled
    <3>3. Asked(q)'
      BY <1>1, <1>2, <1>3, <2>2, <2>4, <3>1 DEF Asked, Before
    <3> QED BY <3>2, <3>3
  <2>6. \A q \in Posts \ {p} : post[q].email = em /\ post[q].opened >= 0 => post[q].opened < ended[em]
    <3>1. SUFFICES ASSUME NEW q \in Posts, post[q].email = em, post[q].opened >= 0 PROVE post[q].opened < ended[em]
      OBVIOUS
    <3>2. post[q].opened <= ended[em] /\ post[q].opened # ended[em]
      BY <1>5, <3>1 DEF FormInv, Windows, Opener
    <3>3. post[q].opened \in Int
      BY <1>1 DEF Types, PostStates
    <3> QED BY <2>1, <3>2, <3>3
  <2>7. ASSUME NEW q \in Posts PROVE Opener(q)'
    <3>1. CASE q = p
      BY <1>1, <1>2, <2>1, <2>2, <2>3, <2>4, <3>1 DEF Opener, Stands
    <3>2. CASE q # p
      BY <1>2, <2>3, <2>4, <3>2 DEF FormInv, Windows, Opener, Stands
    <3> QED BY <3>1, <3>2
  <2>8. ASSUME NEW f \in Emails PROVE Opened(f)'
    <3>1. CASE f = em
      BY <1>2, <2>2, <2>4, <3>1 DEF Opened
    <3>2. CASE f # em
      <4>1. SUFFICES ASSUME f \in window PROVE \E q \in Posts : post'[q].email = f /\ post'[q].opened = ended[f]
        BY <1>2, <2>3, <3>2 DEF Opened
      <4>2. PICK q \in Posts : post[q].email = f /\ post[q].opened = ended[f]
        BY <4>1 DEF FormInv, Windows, Opened
      <4> QED BY <2>4, <3>2, <4>2
    <3> QED BY <3>1, <3>2
  <2>9. ASSUME NEW q \in Posts, NEW r \in Posts PROVE Apart(q, r)'
    <3>1. post[q].opened \in Int /\ post[r].opened \in Int /\ Apart(q, r)
      BY <1>1 DEF Types, PostStates, FormInv, Windows
    <3> QED BY <2>1, <2>2, <2>4, <2>6, <3>1 DEF Apart
  <2>10. ASSUME NEW q \in Posts PROVE Echo(q)'
    BY <1>1, <1>3, <2>1, <2>2, <2>4 DEF FormInv, Windows, Echo, Asked
  <2> QED BY <2>4, <2>5, <2>7, <2>8, <2>9, <2>10 DEF FormInv, Windows
<1> QED BY <1>4, <1>5

\* The submission is there before the request goes on.
LEMMA CreateKeeps == ASSUME FormInv, NEW p \in Posts, CreateSubmission(p) PROVE FormInv'
<1>1. Types /\ Asked(p) /\ Delivered(p) /\ post[p].pc \in {"create", "reject"}
  BY DEF FormInv, CreateSubmission, PostAt
<1>2. UNCHANGED <<window, ended, job, work, mails, lost>>
  BY DEF CreateSubmission, sending
<1>3. sub[p] = "none"
  BY <1>1 DEF Asked, Before
<1>4. PICK w \in {"stats", "rejectStats"} : PostTo(p, w)
  BY DEF CreateSubmission
<1>5. /\ post' \in [Posts -> PostStates]
      /\ post'[p].pc = w /\ post'[p].email = post[p].email
      /\ post'[p].answer = post[p].answer /\ post'[p].opened = post[p].opened
      /\ \A q \in Posts \ {p} : post'[q] = post[q]
  BY <1>1, <1>4, PostGoes DEF PostPc
<1>6. sub' \in [Posts -> SubStatus] /\ sub'[p] \in {"queued", "rejected"} /\ \A q \in Posts \ {p} : sub'[q] = sub[q]
  BY <1>1 DEF CreateSubmission, SubIs, Types, SubStatus
<1>7. Types'
  BY <1>1, <1>2, <1>5, <1>6 DEF Types
<1>8. ASSUME NEW q \in Posts PROVE Asked(q)' /\ Delivered(q)'
  <2>1. Asked(q) /\ Delivered(q)
    BY DEF FormInv
  <2>2. CASE q = p
    <3>1. job[p].state = "none" /\ work[p] = "idle"
      BY <1>1 DEF Asked, Delivered
    <3>2. Asked(p)'
      BY <1>1, <1>2, <1>5, <3>1 DEF Asked, Before
    <3>3. Delivered(p)'
      BY <1>1, <1>2, <1>3, <1>6, <3>1 DEF Delivered, Settled
    <3> QED BY <2>2, <3>2, <3>3
  <2>3. CASE q # p
    BY <1>2, <1>5, <1>6, <2>1, <2>3 DEF Asked, Delivered, Settled
  <2> QED BY <2>2, <2>3
<1>9. \A q \in Posts : post'[q].email = post[q].email /\ post'[q].opened = post[q].opened /\ post'[q].answer = post[q].answer
  BY <1>5
<1>10. \A q \in Posts : Stands(q) => Stands(q)'
  BY <1>5, <1>6 DEF Stands
<1>11. Windows'
  BY <1>2, <1>9, <1>10 DEF FormInv, Windows, Opener, Opened, Apart, Echo
<1> QED BY <1>7, <1>8, <1>11 DEF FormInv

\* The job is added to a submission that is queued.
LEMMA EnqueueKeeps == ASSUME FormInv, NEW p \in Posts, Enqueue(p) PROVE FormInv'
<1>1. Types /\ Asked(p) /\ Delivered(p) /\ post[p].pc = "enqueue"
  BY DEF FormInv, Enqueue, PostAt
<1>2. UNCHANGED <<sub, window, ended, work, mails, lost>>
  BY DEF Enqueue
<1>3. /\ post' \in [Posts -> PostStates]
      /\ post'[p].pc = "answered" /\ post'[p].email = post[p].email
      /\ post'[p].answer = "queued" /\ post'[p].opened = post[p].opened
      /\ \A q \in Posts \ {p} : post'[q] = post[q]
  BY <1>1, PostAnswers DEF Enqueue, Answers
<1>4. job' \in [Posts -> JobStates] /\ job'[p].state = "waiting" /\ \A q \in Posts \ {p} : job'[q] = job[q]
  BY <1>1 DEF Enqueue, JobState, Types, JobStates
<1>5. Types'
  BY <1>1, <1>2, <1>3, <1>4 DEF Types
<1>6. ASSUME NEW q \in Posts PROVE Asked(q)' /\ Delivered(q)'
  <2>1. Asked(q) /\ Delivered(q)
    BY DEF FormInv
  <2>2. CASE q = p
    <3>1. work[p] = "idle"
      BY <1>1 DEF Asked, Delivered
    <3> QED BY <1>1, <1>2, <1>3, <1>4, <2>1, <2>2, <3>1 DEF Asked, Delivered, Settled, Before
  <2>3. CASE q # p
    BY <1>2, <1>3, <1>4, <2>1, <2>3 DEF Asked, Delivered, Settled
  <2> QED BY <2>2, <2>3
<1>7. \A q \in Posts : post'[q].email = post[q].email /\ post'[q].opened = post[q].opened
  BY <1>3
<1>8. \A q \in Posts : Stands(q) => Stands(q)'
  BY <1>1, <1>2, <1>3 DEF Stands, Asked
<1>9. \A q \in Posts : post'[q].answer = "duplicate" => post[q].answer = "duplicate"
  BY <1>3
<1>10. Windows'
  BY <1>2, <1>7, <1>8, <1>9 DEF FormInv, Windows, Opener, Opened, Apart, Echo
<1> QED BY <1>5, <1>6, <1>10 DEF FormInv

-----------------------------------------------------------------------------
(* Outside: Redis forgets, the panel removes, the clock turns.              *)
LEMMA OutsideKeeps ==
  ASSUME FormInv, SwitchActive \/ Regenerate \/ RemoveHook \/ NextHour \/ UNCHANGED vars
  PROVE  FormInv'
<1>1. UNCHANGED <<sub, window, ended, post, job, work, mails, lost>>
  BY DEF SwitchActive, Regenerate, RemoveHook, NextHour, vars, visitors, sending
<1> QED BY <1>1 DEF FormInv, Types, Asked, Delivered, Settled, Windows, Opener, Stands, Opened, Apart, Echo

\* Submissions that are removed keep the messages they had.
LEMMA RemovalKeeps == ASSUME FormInv, RemoveSubmissions PROVE FormInv'
<1>1. UNCHANGED <<window, ended, post, job, work, mails, lost>>
  BY DEF RemoveSubmissions, visitors, sending
<1>2. sub' \in [Posts -> SubStatus] /\ \A p \in Posts : sub'[p] = IF sub[p] = "none" THEN "none" ELSE "removed"
  BY DEF RemoveSubmissions, SubStatus
<1>3. Types'
  BY <1>1, <1>2 DEF FormInv, Types
<1>4. \A p \in Posts : Asked(p)' /\ Delivered(p)'
  BY <1>1, <1>2 DEF FormInv, Asked, Delivered, Settled
<1>5. Windows'
  BY <1>1, <1>2 DEF FormInv, Windows, Opener, Stands, Opened, Apart, Echo
<1> QED BY <1>3, <1>4, <1>5 DEF FormInv

\* A key that expires ends its window: the next one has a number of its own.
LEMMA WindowEndsKeeps == ASSUME FormInv, NEW e \in Emails, WindowEnds(e) PROVE FormInv'
<1>1. UNCHANGED <<sub, post, job, work, mails, lost>>
  BY DEF WindowEnds, sending
<1>2. window' = window \ {e} /\ Types
  BY DEF WindowEnds, FormInv
<1>3. ended' \in [Emails -> Nat] /\ ended'[e] = ended[e] + 1 /\ \A f \in Emails \ {e} : ended'[f] = ended[f]
  BY <1>2 DEF WindowEnds, Types
<1>4. Types'
  BY <1>1, <1>2, <1>3 DEF Types
<1>5. \A p \in Posts : Asked(p)' /\ Delivered(p)'
  BY <1>1 DEF FormInv, Asked, Delivered, Settled
<1>6. ASSUME NEW p \in Posts PROVE Opener(p)'
  <2>1. post[p].opened \in Int /\ ended[e] \in Nat /\ Opener(p)
    BY <1>2 DEF Types, PostStates, FormInv, Windows
  <2>2. CASE post[p].email = e
    BY <1>1, <1>2, <1>3, <2>1, <2>2 DEF Opener, Stands
  <2>3. CASE post[p].email # e
    BY <1>1, <1>2, <1>3, <2>1, <2>3 DEF Opener, Stands
  <2> QED BY <2>2, <2>3
<1>7. Windows'
  BY <1>1, <1>2, <1>3, <1>6 DEF FormInv, Windows, Opened, Apart, Echo
<1> QED BY <1>4, <1>5, <1>7 DEF FormInv

-----------------------------------------------------------------------------
(* Deliveries.                                                              *)
Delivery(p) ==
    \/ TakeJob(p) \/ Check(p) \/ ReserveQuota(p) \/ WaitForQuota(p) \/ Mailbox(p) \/ Send(p) \/ SaveSent(p)
    \/ CountSent(p) \/ MarkFailed(p) \/ CountFailed(p) \/ StepFails(p) \/ WorkerDies(p)

\* A step of one delivery, and what it may do to the job.
Handled(p) ==
    /\ job' \in [Posts -> JobStates] /\ work' \in [Posts -> WorkPc] /\ sub' \in [Posts -> SubStatus]
    /\ mails' \in [Posts -> Int] /\ lost' \in [Posts -> Int]
    /\ \A q \in Posts \ {p} : /\ sub'[q] = sub[q] /\ job'[q] = job[q] /\ work'[q] = work[q]
                                 /\ mails'[q] = mails[q] /\ lost'[q] = lost[q]
    /\ Delivered(p)'
    /\ job[p].state # "none"
    /\ sub'[p] = "none" <=> sub[p] = "none"

\* A job changes its state and no other one does.
LEMMA JobGoes ==
  ASSUME Types, NEW p \in Posts, NEW s \in {"waiting", "active", "done", "failed"}, JobState(p, s)
  PROVE  job' \in [Posts -> JobStates] /\ job'[p].state = s /\ \A q \in Posts \ {p} : job'[q] = job[q]
BY DEF JobState, Types, JobStates

\* An error leads to the save of the failure, or to another attempt.
LEMMA JobThrown ==
  ASSUME Types, NEW p \in Posts, NEW permanent \in BOOLEAN, Throws(p, permanent)
  PROVE  /\ work' \in [Posts -> WorkPc] /\ \A q \in Posts \ {p} : work'[q] = work[q]
         /\ job' \in [Posts -> JobStates] /\ \A q \in Posts \ {p} : job'[q] = job[q]
         /\ \/ work'[p] = "failAfter" /\ job' = job
            \/ work'[p] = "idle" /\ job'[p].state = "waiting"
BY DEF Throws, WorkTo, Types, JobStates, WorkPc

\* A worker goes on with its job and with no other one.
LEMMA WorkGoes ==
  ASSUME Types, NEW p \in Posts, NEW w \in WorkPc, WorkTo(p, w)
  PROVE  work' \in [Posts -> WorkPc] /\ work'[p] = w /\ \A q \in Posts \ {p} : work'[q] = work[q]
BY DEF WorkTo, Types

\* The steps before the message leaves.
LEMMA HandsStep ==
  ASSUME FormInv, NEW p \in Posts,
         TakeJob(p) \/ Check(p) \/ ReserveQuota(p) \/ WaitForQuota(p) \/ Mailbox(p)
  PROVE  Handled(p) /\ UNCHANGED <<post, window, ended>>
<1>1. Types /\ Delivered(p)
  BY DEF FormInv
<1>2. UNCHANGED <<sub, post, window, ended, mails, lost>>
  BY DEF TakeJob, Check, ReserveQuota, WaitForQuota, Mailbox, visitors
<1>3. CASE TakeJob(p)
  <2>1. job[p].state = "waiting" /\ work[p] = "idle"
    BY <1>1, <1>3 DEF TakeJob, Delivered
  <2>2. CASE sub[p] # "queued"
    <3>1. JobState(p, "done") /\ work' = work
      BY <1>3, <2>2 DEF TakeJob
    <3> QED BY <1>1, <1>2, <2>1, <3>1, JobGoes DEF Handled, Delivered, Settled, Types
  <2>3. CASE sub[p] = "queued"
    <3>1. JobState(p, "active") /\ WorkTo(p, "check")
      BY <1>3, <2>3 DEF TakeJob
    <3> QED BY <1>1, <1>2, <2>1, <2>3, <3>1, JobGoes, WorkGoes DEF Handled, Delivered, Settled, Types, WorkPc
  <2> QED BY <2>2, <2>3
<1>4. CASE Check(p) \/ ReserveQuota(p) \/ Mailbox(p)
  <2>1. job' = job /\ work[p] \in {"check", "reserve", "mailbox"}
    BY <1>4 DEF Check, ReserveQuota, Mailbox, WorkAt
  <2>2. PICK w \in {"reserve", "mailbox", "send", "fail"} : WorkTo(p, w)
    BY <1>4 DEF Check, ReserveQuota, Mailbox
  <2> QED BY <1>1, <1>2, <2>1, <2>2, WorkGoes DEF Handled, Delivered, Settled, Types, WorkPc
<1>5. CASE WaitForQuota(p)
  <2>1. JobState(p, "waiting") /\ WorkTo(p, "idle") /\ work[p] = "reserve"
    BY <1>5 DEF WaitForQuota, WorkAt
  <2> QED BY <1>1, <1>2, <2>1, JobGoes, WorkGoes DEF Handled, Delivered, Settled, Types, WorkPc
<1> QED BY <1>3, <1>4, <1>5

\* The message, and the save that says so.
LEMMA SendStep == ASSUME FormInv, NEW p \in Posts, Send(p) \/ SaveSent(p) PROVE Handled(p) /\ UNCHANGED <<post, window, ended>>
<1>1. Types /\ Delivered(p)
  BY DEF FormInv
<1>2. UNCHANGED <<post, window, ended, lost>>
  BY DEF Send, SaveSent, visitors
<1>3. CASE Send(p)
  <2>1. work[p] = "send" /\ job[p].state = "active" /\ sub' = sub
    BY <1>1, <1>3 DEF Send, WorkAt, Delivered
  <2>2. CASE WorkTo(p, "save") /\ mails' = [mails EXCEPT ![p] = @ + 1] /\ UNCHANGED job
    <3>1. mails' \in [Posts -> Int] /\ mails'[p] = mails[p] + 1 /\ \A q \in Posts \ {p} : mails'[q] = mails[q]
      BY <1>1, <2>2 DEF Types
    <3>2. mails[p] \in Int /\ lost[p] \in Int
      BY <1>1 DEF Types
    <3> QED BY <1>1, <1>2, <2>1, <2>2, <3>1, <3>2, WorkGoes DEF Handled, Delivered, Settled, Types, WorkPc
  <2>3. CASE mails' = mails /\ \E permanent \in BOOLEAN : Throws(p, permanent)
    BY <1>1, <1>2, <2>1, <2>3, JobThrown DEF Handled, Delivered, Settled, Types
  <2> QED BY <1>3, <2>2, <2>3 DEF Send
<1>4. CASE SaveSent(p)
  <2>1. work[p] = "save" /\ job[p].state = "active" /\ mails' = mails /\ sub[p] \in {"queued", "removed"}
    BY <1>1, <1>4 DEF SaveSent, WorkAt, Delivered
  <2>2. CASE sub[p] = "removed"
    <3>1. Throws(p, FALSE) /\ sub' = sub
      BY <1>4, <2>2 DEF SaveSent
    <3> QED BY <1>1, <1>2, <2>1, <2>2, <3>1, JobThrown DEF Handled, Delivered, Settled, Types
  <2>3. CASE sub[p] = "queued"
    <3>1. sub' \in [Posts -> SubStatus] /\ sub'[p] = "sent" /\ (\A q \in Posts \ {p} : sub'[q] = sub[q])
          /\ WorkTo(p, "countSent") /\ job' = job
      BY <1>1, <1>4, <2>3 DEF SaveSent, SubIs, Types, SubStatus
    <3> QED BY <1>1, <1>2, <2>1, <2>3, <3>1, WorkGoes DEF Handled, Delivered, Settled, Types, WorkPc
  <2> QED BY <2>1, <2>2, <2>3
<1> QED BY <1>3, <1>4

\* The count of what became of it.
LEMMA EndStep ==
  ASSUME FormInv, NEW p \in Posts, CountSent(p) \/ MarkFailed(p) \/ CountFailed(p)
  PROVE  Handled(p) /\ UNCHANGED <<post, window, ended>>
<1>1. Types /\ Delivered(p)
  BY DEF FormInv
<1>2. UNCHANGED <<post, window, ended, mails, lost>>
  BY DEF CountSent, MarkFailed, CountFailed, visitors
<1>3. work[p] \in {"countSent", "fail", "failAfter", "countFailed", "countAfter"} /\ job[p].state = "active"
  BY <1>1 DEF CountSent, MarkFailed, CountFailed, WorkAt, Delivered
<1>4. CASE Ends(p) /\ sub' = sub
  BY <1>1, <1>2, <1>3, <1>4, JobGoes, WorkGoes DEF Ends, Handled, Delivered, Settled, Types, WorkPc
<1>5. CASE MarkFailed(p) /\ sub[p] = "queued"
  <2>1. sub' \in [Posts -> SubStatus] /\ sub'[p] = "failed" /\ \A q \in Posts \ {p} : sub'[q] = sub[q]
    BY <1>1, <1>5 DEF MarkFailed, SubIs, Types, SubStatus
  <2>2. job' = job /\ \E w \in {"countFailed", "countAfter"} : WorkTo(p, w)
    BY <1>5 DEF MarkFailed
  <2> QED BY <1>1, <1>2, <1>3, <1>5, <2>1, <2>2, WorkGoes DEF Handled, Delivered, Settled, Types, WorkPc
<1> QED BY <1>4, <1>5 DEF CountSent, MarkFailed, CountFailed

\* What breaks off after the server's answer is remembered as lost, wherever the job goes.
LEMMA BreakStep ==
  ASSUME FormInv, NEW p \in Posts, StepFails(p) \/ WorkerDies(p)
  PROVE  Handled(p) /\ UNCHANGED <<post, window, ended>>
<1>1. Types /\ Delivered(p)
  BY DEF FormInv
<1>2. UNCHANGED <<sub, post, window, ended, mails>> /\ work[p] # "idle" /\ job[p].state = "active"
  BY <1>1 DEF StepFails, WorkerDies, visitors, WorkAt, Delivered
<1>3. lost' \in [Posts -> Int] /\ lost'[p] = Settled(p) /\ \A q \in Posts \ {p} : lost'[q] = lost[q]
  <2>1. Breaks(p) /\ lost[p] \in Int
    BY <1>1 DEF StepFails, WorkerDies, Types
  <2>2. CASE work[p] = "save"
    BY <1>1, <2>1, <2>2 DEF Breaks, WorkAt, Settled, Types
  <2>3. CASE work[p] # "save"
    <3>1. lost' = lost
      BY <1>1, <2>1, <2>3 DEF Breaks, WorkAt, Types
    <3> QED BY <1>1, <2>1, <2>3, <3>1 DEF Settled, Types
  <2> QED BY <2>2, <2>3
<1>4. /\ work' \in [Posts -> WorkPc] /\ \A q \in Posts \ {p} : work'[q] = work[q]
      /\ job' \in [Posts -> JobStates] /\ \A q \in Posts \ {p} : job'[q] = job[q]
      /\ work'[p] \in {"idle", "failAfter"}
      /\ job'[p].state # "active" => work'[p] = "idle"
  <2>1. CASE Throws(p, FALSE)
    BY <1>1, <1>2, <2>1, JobThrown
  <2>2. CASE StepFails(p) /\ WorkTo(p, "idle") /\ FailsAttempt(p)
    <3>1. job' \in [Posts -> JobStates] /\ \A q \in Posts \ {p} : job'[q] = job[q]
      BY <1>1, <2>2 DEF FailsAttempt, Types, JobStates
    <3> QED BY <1>1, <2>2, <3>1, WorkGoes DEF WorkPc
  <2>3. CASE WorkerDies(p)
    <3> DEFINE m == [job[p] EXCEPT !.state = IF job[p].stalled THEN "failed" ELSE "waiting", !.stalled = TRUE]
    <3>1. m \in JobStates
      BY <1>1 DEF Types, JobStates
    <3>2. job' = [job EXCEPT ![p] = m]
      BY <1>1, <2>3 DEF WorkerDies, Types, JobStates
    <3> HIDE DEF m
    <3>3. job' \in [Posts -> JobStates] /\ \A q \in Posts \ {p} : job'[q] = job[q]
      BY <1>1, <3>1, <3>2 DEF Types
    <3> QED BY <1>1, <2>3, <3>3, WorkGoes DEF WorkerDies, WorkPc
  <2> QED BY <2>1, <2>2, <2>3 DEF StepFails
<1>5. sub[p] = "sent" => work[p] # "save"
  BY <1>1 DEF Delivered
<1>6. Delivered(p)'
  <2>1. Settled(p)' = Settled(p) /\ work'[p] # "save"
    BY <1>1, <1>3, <1>4 DEF Settled, Types
  <2>2. sub[p] = "sent" => lost'[p] = lost[p]
    BY <1>1, <1>3, <1>5 DEF Settled, Types
  <2> QED BY <1>1, <1>2, <1>4, <2>1, <2>2 DEF Delivered
<1> QED BY <1>1, <1>2, <1>3, <1>4, <1>6 DEF Handled, Types

\* All of a delivery.
LEMMA DeliveryKeeps == ASSUME FormInv, NEW p \in Posts, Delivery(p) PROVE FormInv'
<1>1. Handled(p) /\ UNCHANGED <<post, window, ended>>
  BY HandsStep, SendStep, EndStep, BreakStep DEF Delivery
<1>2. Types'
  BY <1>1 DEF FormInv, Types, Handled
<1>3. ASSUME NEW q \in Posts PROVE Asked(q)' /\ Delivered(q)'
  <2>1. Asked(q) /\ Delivered(q) /\ Asked(p)
    BY DEF FormInv
  <2>2. CASE q = p
    BY <1>1, <2>1, <2>2 DEF Handled, Asked, Before
  <2>3. CASE q # p
    BY <1>1, <2>1, <2>3 DEF Handled, Asked, Delivered, Settled
  <2> QED BY <2>2, <2>3
<1>4. \A q \in Posts : Stands(q) => Stands(q)'
  BY <1>1 DEF Handled, Stands
<1>5. Windows'
  BY <1>1, <1>4 DEF FormInv, Windows, Opener, Opened, Apart, Echo
<1> QED BY <1>2, <1>3, <1>5 DEF FormInv

-----------------------------------------------------------------------------
\* Every step keeps the invariant.
LEMMA FormStep == ASSUME FormInv, [Next]_vars PROVE FormInv'
<1>1. CASE \E p \in Posts : Quiet(p) \/ TakeWindow(p) \/ CreateSubmission(p) \/ Enqueue(p)
  BY <1>1, QuietKeeps, WindowKeeps, CreateKeeps, EnqueueKeeps
<1>2. CASE \E p \in Posts : Delivery(p)
  BY <1>2, DeliveryKeeps
<1>3. CASE \E p \in Posts, e \in Emails \cup {NoEmail} : Arrive(p, e)
  BY <1>3, ArriveKeeps
<1>4. CASE RemoveSubmissions \/ \E e \in Emails : WindowEnds(e)
  BY <1>4, RemovalKeeps, WindowEndsKeeps
<1>5. CASE SwitchActive \/ Regenerate \/ RemoveHook \/ NextHour \/ UNCHANGED vars
  BY <1>5, OutsideKeeps
<1> QED BY <1>1, <1>2, <1>3, <1>4, <1>5 DEF Next, RequestSteps, WorkerSteps, Panel, Quiet, Delivery

\* Nothing was posted yet.
LEMMA FormStarts == ASSUME Init PROVE FormInv
<1>1. Types
  BY DEF Init, Types, PostStates, JobStates, PostPc, Answers, WorkPc, SubStatus
<1>2. \A p \in Posts : Asked(p) /\ Delivered(p)
  BY DEF Init, Asked, Delivered, Settled, Before
<1>3. Windows
  BY DEF Init, Windows, Opener, Opened, Apart, Echo
<1> QED BY <1>1, <1>2, <1>3 DEF FormInv

\* The invariant always holds.
LEMMA FormInvariant == Spec => []FormInv
<1>1. Init => FormInv
  BY FormStarts
<1>2. FormInv /\ [Next]_vars => FormInv'
  BY FormStep
<1> QED BY <1>1, <1>2, PTL DEF Spec

\* However many deliveries break off, are repeated or are given up, a submission that says
\* sent has one message more than those that broke off after the server took them, and any
\* other has those alone (formWebhook.service deliver, formEmail.worker).
THEOREM FateMatches == Spec => []MailsMatchFate
<1>1. FormInv => MailsMatchFate
  BY DEF FormInv, Delivered, Settled, MailsMatchFate, WorkAt
<1> QED BY <1>1, FormInvariant, PTL

\* However many posts of one address race, one of them has the window, and a post that is
\* called a duplicate has one before it (formWebhook.service firstInWindow, receive).
THEOREM WindowsHold == Spec => []OnePerWindow
<1>1. FormInv => OnePerWindow
  BY DEF FormInv, Windows, Opener, Stands, Apart, Echo, OnePerWindow, PostAt
<1> QED BY <1>1, FormInvariant, PTL

-----------------------------------------------------------------------------
(* StatsAddUp.  Between the write of a submission and the $inc of its hook  *)
(* the count is due: by the request that created it, or by the worker that  *)
(* decided its fate.  A count that is due may be given up in a failure, so  *)
(* the numbers are never above the submissions.                             *)
Hooks == [exists : BOOLEAN, active : BOOLEAN, known : BOOLEAN,
          received : Nat, sent : Nat, failed : Nat, rejected : Nat]
Live == hook.exists /\ admin = "idle"

Broken == {"countFailed", "countAfter"}
Made == SubStatus \ {"none"}
Creating == {"stats", "rejectStats"}
Due(steps) == Cardinality({p \in Posts : post[p].pc \in steps})
Doing(steps) == Cardinality({p \in Posts : work[p] \in steps})
Balance(count, due, have) == count + due <= have /\ (faults = 0 => count + due = have)

Balances ==
    /\ Balance(hook.received, Due(Creating), HowMany(Made))
    /\ Balance(hook.rejected, Due({"rejectStats"}), HowMany({"rejected"}))
    /\ Balance(hook.sent, Doing({"countSent"}), HowMany({"sent"}))
    /\ Balance(hook.failed, Doing(Broken), HowMany({"failed"}))

\* Submissions are removed on the way to the removal of their hook alone.
StatsInv ==
    /\ FormInv /\ hook \in Hooks /\ faults \in Nat
    /\ Live => Balances /\ \A p \in Posts : sub[p] # "removed"

\* Two sets that differ in one element at most.
LEMMA OneApart ==
  ASSUME NEW U, IsFiniteSet(U), NEW S \in SUBSET U, NEW T \in SUBSET U, NEW x \in U,
         \A y \in U \ {x} : y \in S <=> y \in T
  PROVE  /\ Cardinality(S) \in Nat /\ Cardinality(T) \in Nat
         /\ Cardinality(T) + (IF x \in S THEN 1 ELSE 0) = Cardinality(S) + (IF x \in T THEN 1 ELSE 0)
<1>1. IsFiniteSet(S) /\ IsFiniteSet(T)
  BY FS_Subset
<1>2. Cardinality(S) \in Nat /\ Cardinality(T) \in Nat
  BY <1>1, FS_CardinalityType
<1>3. (x \in S <=> x \in T) => T = S
  OBVIOUS
<1>4. ASSUME x \notin S, x \in T PROVE Cardinality(T) = Cardinality(S) + 1
  <2>1. T = S \cup {x}
    BY <1>4
  <2> QED BY <1>1, <1>4, <2>1, FS_AddElement
<1>5. ASSUME x \in S, x \notin T PROVE Cardinality(T) = Cardinality(S) - 1
  <2>1. T = S \ {x}
    BY <1>5
  <2> QED BY <1>1, <1>5, <2>1, FS_RemoveElement
<1> QED BY <1>2, <1>3, <1>4, <1>5

\* What one post adds to a number.
One(condition) == IF condition THEN 1 ELSE 0
\* A step of one post changes each number by what it moves itself.
LEMMA Tallies ==
  ASSUME NEW p \in Posts, \A q \in Posts \ {p} : post'[q] = post[q] /\ sub'[q] = sub[q] /\ work'[q] = work[q], NEW S
  PROVE  /\ Due(S) \in Nat /\ Due(S)' \in Nat
         /\ Due(S)' + One(post[p].pc \in S) = Due(S) + One(post'[p].pc \in S)
         /\ Doing(S) \in Nat /\ Doing(S)' \in Nat
         /\ Doing(S)' + One(work[p] \in S) = Doing(S) + One(work'[p] \in S)
         /\ HowMany(S) \in Nat /\ HowMany(S)' \in Nat
         /\ HowMany(S)' + One(sub[p] \in S) = HowMany(S) + One(sub'[p] \in S)
<1>1. /\ Due(S) \in Nat /\ Due(S)' \in Nat
      /\ Due(S)' + One(post[p].pc \in S) = Due(S) + One(post'[p].pc \in S)
  <2> DEFINE A == {q \in Posts : post[q].pc \in S}
             B == {q \in Posts : post'[q].pc \in S}
  <2>1. /\ A \in SUBSET Posts /\ B \in SUBSET Posts /\ \A q \in Posts \ {p} : q \in A <=> q \in B
        /\ p \in A <=> post[p].pc \in S
        /\ p \in B <=> post'[p].pc \in S
    OBVIOUS
  <2>2. Due(S) = Cardinality(A) /\ Due(S)' = Cardinality(B)
    BY DEF Due
  <2> HIDE DEF A, B
  <2> QED BY <2>1, <2>2, FormAssumption, OneApart DEF One
<1>2. /\ Doing(S) \in Nat /\ Doing(S)' \in Nat
      /\ Doing(S)' + One(work[p] \in S) = Doing(S) + One(work'[p] \in S)
  <2> DEFINE A == {q \in Posts : work[q] \in S}
             B == {q \in Posts : work'[q] \in S}
  <2>1. /\ A \in SUBSET Posts /\ B \in SUBSET Posts /\ \A q \in Posts \ {p} : q \in A <=> q \in B
        /\ p \in A <=> work[p] \in S
        /\ p \in B <=> work'[p] \in S
    OBVIOUS
  <2>2. Doing(S) = Cardinality(A) /\ Doing(S)' = Cardinality(B)
    BY DEF Doing
  <2> HIDE DEF A, B
  <2> QED BY <2>1, <2>2, FormAssumption, OneApart DEF One
<1>3. /\ HowMany(S) \in Nat /\ HowMany(S)' \in Nat
      /\ HowMany(S)' + One(sub[p] \in S) = HowMany(S) + One(sub'[p] \in S)
  <2> DEFINE A == {q \in Posts : sub[q] \in S}
             B == {q \in Posts : sub'[q] \in S}
  <2>1. /\ A \in SUBSET Posts /\ B \in SUBSET Posts /\ \A q \in Posts \ {p} : q \in A <=> q \in B
        /\ p \in A <=> sub[p] \in S
        /\ p \in B <=> sub'[p] \in S
    OBVIOUS
  <2>2. HowMany(S) = Cardinality(A) /\ HowMany(S)' = Cardinality(B)
    BY DEF HowMany
  <2> HIDE DEF A, B
  <2> QED BY <2>1, <2>2, FormAssumption, OneApart DEF One
<1> QED BY <1>1, <1>2, <1>3

\* What a step does to one count: exactly what it does to the submission, or less when it fails.
Fits(rise, was, is, had, has) ==
    /\ rise \in Int
    /\ rise + One(is) - One(was) <= One(has) - One(had)
    /\ faults' = 0 => rise + One(is) - One(was) = One(has) - One(had)

\* The step of one post that keeps the four balances.
Local(p) ==
    /\ Fits(hook'.received - hook.received, post[p].pc \in Creating, post'[p].pc \in Creating, sub[p] \in Made, sub'[p] \in Made)
    /\ Fits(hook'.rejected - hook.rejected, post[p].pc \in {"rejectStats"}, post'[p].pc \in {"rejectStats"},
            sub[p] \in {"rejected"}, sub'[p] \in {"rejected"})
    /\ Fits(hook'.sent - hook.sent, work[p] \in {"countSent"}, work'[p] \in {"countSent"}, sub[p] \in {"sent"}, sub'[p] \in {"sent"})
    /\ Fits(hook'.failed - hook.failed, work[p] \in Broken, work'[p] \in Broken, sub[p] \in {"failed"}, sub'[p] \in {"failed"})

\* It does keep them.
LEMMA Rebalances ==
  ASSUME StatsInv, FormInv', hook' \in Hooks, faults' \in Nat, faults' >= faults, NEW p \in Posts,
         \A q \in Posts \ {p} : post'[q] = post[q] /\ sub'[q] = sub[q] /\ work'[q] = work[q],
         Live' => Live /\ Local(p) /\ sub'[p] # "removed"
  PROVE  StatsInv'
<1>1. SUFFICES ASSUME Live' PROVE Balances' /\ \A q \in Posts : sub'[q] # "removed"
  BY DEF StatsInv
<1>2. Live /\ Local(p) /\ Balances /\ hook \in Hooks /\ faults \in Nat
  BY <1>1 DEF StatsInv
<1>3. \A q \in Posts : sub'[q] # "removed"
  BY <1>1, <1>2 DEF StatsInv
<1>4. /\ hook.received \in Nat /\ hook.rejected \in Nat /\ hook.sent \in Nat /\ hook.failed \in Nat
      /\ hook'.received \in Nat /\ hook'.rejected \in Nat /\ hook'.sent \in Nat /\ hook'.failed \in Nat
  BY <1>2 DEF Hooks
<1>5. faults' = 0 => faults = 0
  BY <1>2
<1>6. Balance(hook.received, Due(Creating), HowMany(Made))'
  <2>1. /\ Due(Creating) \in Nat /\ Due(Creating)' \in Nat /\ HowMany(Made) \in Nat /\ HowMany(Made)' \in Nat
        /\ Due(Creating)' + One(post[p].pc \in Creating) = Due(Creating) + One(post'[p].pc \in Creating)
        /\ HowMany(Made)' + One(sub[p] \in Made) = HowMany(Made) + One(sub'[p] \in Made)
    BY Tallies
  <2>2. /\ Balance(hook.received, Due(Creating), HowMany(Made))
        /\ Fits(hook'.received - hook.received, post[p].pc \in Creating, post'[p].pc \in Creating, sub[p] \in Made, sub'[p] \in Made)
    BY <1>2 DEF Balances, Local
  <2> QED BY <1>4, <1>5, <2>1, <2>2 DEF Balance, Fits, One
<1>7. Balance(hook.rejected, Due({"rejectStats"}), HowMany({"rejected"}))'
  <2>1. /\ Due({"rejectStats"}) \in Nat /\ Due({"rejectStats"})' \in Nat /\ HowMany({"rejected"}) \in Nat /\ HowMany({"rejected"})' \in Nat
        /\ Due({"rejectStats"})' + One(post[p].pc \in {"rejectStats"}) = Due({"rejectStats"}) + One(post'[p].pc \in {"rejectStats"})
        /\ HowMany({"rejected"})' + One(sub[p] \in {"rejected"}) = HowMany({"rejected"}) + One(sub'[p] \in {"rejected"})
    BY Tallies
  <2>2. /\ Balance(hook.rejected, Due({"rejectStats"}), HowMany({"rejected"}))
        /\ Fits(hook'.rejected - hook.rejected, post[p].pc \in {"rejectStats"}, post'[p].pc \in {"rejectStats"}, sub[p] \in {"rejected"}, sub'[p] \in {"rejected"})
    BY <1>2 DEF Balances, Local
  <2> QED BY <1>4, <1>5, <2>1, <2>2 DEF Balance, Fits, One
<1>8. Balance(hook.sent, Doing({"countSent"}), HowMany({"sent"}))'
  <2>1. /\ Doing({"countSent"}) \in Nat /\ Doing({"countSent"})' \in Nat /\ HowMany({"sent"}) \in Nat /\ HowMany({"sent"})' \in Nat
        /\ Doing({"countSent"})' + One(work[p] \in {"countSent"}) = Doing({"countSent"}) + One(work'[p] \in {"countSent"})
        /\ HowMany({"sent"})' + One(sub[p] \in {"sent"}) = HowMany({"sent"}) + One(sub'[p] \in {"sent"})
    BY Tallies
  <2>2. /\ Balance(hook.sent, Doing({"countSent"}), HowMany({"sent"}))
        /\ Fits(hook'.sent - hook.sent, work[p] \in {"countSent"}, work'[p] \in {"countSent"}, sub[p] \in {"sent"}, sub'[p] \in {"sent"})
    BY <1>2 DEF Balances, Local
  <2> QED BY <1>4, <1>5, <2>1, <2>2 DEF Balance, Fits, One
<1>9. Balance(hook.failed, Doing(Broken), HowMany({"failed"}))'
  <2>1. /\ Doing(Broken) \in Nat /\ Doing(Broken)' \in Nat /\ HowMany({"failed"}) \in Nat /\ HowMany({"failed"})' \in Nat
        /\ Doing(Broken)' + One(work[p] \in Broken) = Doing(Broken) + One(work'[p] \in Broken)
        /\ HowMany({"failed"})' + One(sub[p] \in {"failed"}) = HowMany({"failed"}) + One(sub'[p] \in {"failed"})
    BY Tallies
  <2>2. /\ Balance(hook.failed, Doing(Broken), HowMany({"failed"}))
        /\ Fits(hook'.failed - hook.failed, work[p] \in Broken, work'[p] \in Broken, sub[p] \in {"failed"}, sub'[p] \in {"failed"})
    BY <1>2 DEF Balances, Local
  <2> QED BY <1>4, <1>5, <2>1, <2>2 DEF Balance, Fits, One
<1> QED BY <1>3, <1>6, <1>7, <1>8, <1>9 DEF Balances

\* A step that changes no submission, no number, and nothing that is due.
LEMMA Unmoved ==
  ASSUME StatsInv, FormInv', NEW p \in Posts,
         \A q \in Posts \ {p} : post'[q] = post[q] /\ work'[q] = work[q],
         UNCHANGED <<hook, sub, admin, faults>>,
         post[p].pc = post'[p].pc \/ (post[p].pc \notin Creating /\ post'[p].pc \notin Creating),
         work[p] = work'[p] \/ (work[p] \notin Broken \cup {"countSent"} /\ work'[p] \notin Broken \cup {"countSent"})
  PROVE  StatsInv'
<1>1. Live' => Live /\ sub'[p] # "removed"
  BY DEF Live, StatsInv
<1>2. hook \in Hooks /\ faults \in Nat
  BY DEF StatsInv
<1>3. Local(p)
  <2>1. /\ hook'.received - hook.received = 0 /\ hook'.rejected - hook.rejected = 0
        /\ hook'.sent - hook.sent = 0 /\ hook'.failed - hook.failed = 0
    BY <1>2 DEF Hooks
  <2>2. /\ post[p].pc \in Creating <=> post'[p].pc \in Creating
        /\ post[p].pc \in {"rejectStats"} <=> post'[p].pc \in {"rejectStats"}
        /\ work[p] \in {"countSent"} <=> work'[p] \in {"countSent"}
        /\ work[p] \in Broken <=> work'[p] \in Broken
    BY DEF Creating, Broken
  <2>3. Fits(hook'.received - hook.received, post[p].pc \in Creating, post'[p].pc \in Creating, sub[p] \in Made, sub'[p] \in Made)
    BY <2>1, <2>2 DEF Fits, One
  <2>4. Fits(hook'.rejected - hook.rejected, post[p].pc \in {"rejectStats"}, post'[p].pc \in {"rejectStats"},
             sub[p] \in {"rejected"}, sub'[p] \in {"rejected"})
    BY <2>1, <2>2 DEF Fits, One
  <2>5. Fits(hook'.sent - hook.sent, work[p] \in {"countSent"}, work'[p] \in {"countSent"}, sub[p] \in {"sent"}, sub'[p] \in {"sent"})
    BY <2>1, <2>2 DEF Fits, One
  <2>6. Fits(hook'.failed - hook.failed, work[p] \in Broken, work'[p] \in Broken, sub[p] \in {"failed"}, sub'[p] \in {"failed"})
    BY <2>1, <2>2 DEF Fits, One
  <2> QED BY <2>3, <2>4, <2>5, <2>6 DEF Local
<1> QED BY <1>1, <1>2, <1>3, Rebalances

\* A step that fails: what was due may be given up, and the failure is on record.
LEMMA GivenUp ==
  ASSUME StatsInv, FormInv', NEW p \in Posts,
         \A q \in Posts \ {p} : post'[q] = post[q] /\ work'[q] = work[q],
         UNCHANGED <<hook, sub, admin>>, faults' = faults + 1,
         post[p].pc = post'[p].pc \/ post'[p].pc \notin Creating,
         work[p] = work'[p] \/ work'[p] \notin Broken \cup {"countSent"}
  PROVE  StatsInv'
<1>1. Live' => Live /\ sub'[p] # "removed"
  BY DEF Live, StatsInv
<1>2. hook \in Hooks /\ faults \in Nat /\ faults' \in Nat /\ faults' >= faults /\ faults' # 0
  BY DEF StatsInv
<1>3. Local(p)
  <2>1. /\ hook'.received - hook.received = 0 /\ hook'.rejected - hook.rejected = 0
        /\ hook'.sent - hook.sent = 0 /\ hook'.failed - hook.failed = 0
    BY <1>2 DEF Hooks
  <2> QED BY <1>2, <2>1 DEF Local, Fits, One, Creating, Broken
<1> QED BY <1>1, <1>2, <1>3, Rebalances

\* The $inc of one number of a hook that exists.
LEMMA HookCounts ==
  ASSUME hook \in Hooks, hook.exists
  PROVE  /\ LET h == Incremented("received") IN
            /\ h \in Hooks /\ h.exists /\ h.received = hook.received + 1
            /\ h.sent = hook.sent /\ h.failed = hook.failed /\ h.rejected = hook.rejected
         /\ LET h == Incremented("sent") IN
            /\ h \in Hooks /\ h.exists /\ h.received = hook.received
            /\ h.sent = hook.sent + 1 /\ h.failed = hook.failed /\ h.rejected = hook.rejected
         /\ LET h == Incremented("failed") IN
            /\ h \in Hooks /\ h.exists /\ h.received = hook.received
            /\ h.sent = hook.sent /\ h.failed = hook.failed + 1 /\ h.rejected = hook.rejected
BY DEF Incremented, Hooks

\* The submission, and its count that is due from now on.
LEMMA CreateCounts == ASSUME StatsInv, FormInv', NEW p \in Posts, CreateSubmission(p) PROVE StatsInv'
<1>1. /\ Types /\ Asked(p) /\ post[p].pc \in {"create", "reject"} /\ hook \in Hooks /\ faults \in Nat
      /\ UNCHANGED <<hook, work, admin, faults>>
  BY DEF StatsInv, FormInv, CreateSubmission, PostAt, sending, calm
<1>2. sub[p] = "none"
  BY <1>1 DEF Asked, Before
<1>3. /\ \A q \in Posts \ {p} : post'[q] = post[q] /\ sub'[q] = sub[q]
      /\ \/ post'[p].pc = "stats" /\ sub'[p] = "queued"
         \/ post'[p].pc = "rejectStats" /\ sub'[p] = "rejected"
  <2>1. CASE post[p].pc = "create"
    <3>1. PostTo(p, "stats") /\ SubIs(p, "queued")
      BY <2>1 DEF CreateSubmission, PostAt
    <3> QED BY <1>1, <3>1, PostGoes DEF SubIs, Types, PostPc
  <2>2. CASE post[p].pc = "reject"
    <3>1. PostTo(p, "rejectStats") /\ SubIs(p, "rejected")
      BY <2>2 DEF CreateSubmission, PostAt
    <3> QED BY <1>1, <3>1, PostGoes DEF SubIs, Types, PostPc
  <2> QED BY <1>1, <2>1, <2>2
<1>4. Live' => Live /\ sub'[p] # "removed"
  BY <1>1, <1>3 DEF Live
<1>5. Local(p)
  <2>1. /\ hook'.received - hook.received = 0 /\ hook'.rejected - hook.rejected = 0
        /\ hook'.sent - hook.sent = 0 /\ hook'.failed - hook.failed = 0
    BY <1>1 DEF Hooks
  <2> QED BY <1>1, <1>2, <1>3, <2>1 DEF Local, Fits, One, Creating, Broken, Made, SubStatus
<1> QED BY <1>1, <1>3, <1>4, <1>5, Rebalances

\* The count of what came in.
LEMMA ReceivedCounts == ASSUME StatsInv, FormInv', NEW p \in Posts, CountReceived(p) PROVE StatsInv'
<1>1. /\ Types /\ post[p].pc \in Creating /\ hook \in Hooks /\ faults \in Nat
      /\ UNCHANGED <<sub, work, admin, faults>>
  BY DEF StatsInv, FormInv, CountReceived, PostAt, sending, calm, Creating
<1>2. (\A q \in Posts \ {p} : post'[q] = post[q]) /\ post'[p].pc \in {"enqueue", "answered"}
  BY <1>1, PostGoes, PostAnswers DEF CountReceived, PostPc, Answers
<1>3. CASE ~hook.exists
  <2>1. hook' = hook
    BY <1>3 DEF CountReceived, Incremented
  <2> QED BY <1>1, <1>2, <1>3, <2>1, Rebalances DEF Live
<1>4. CASE hook.exists /\ post[p].pc = "stats"
  <2>1. hook' = Incremented("received")
    BY <1>4 DEF CountReceived, PostAt
  <2>2. /\ hook' \in Hooks /\ hook'.exists /\ hook'.received = hook.received + 1
        /\ hook'.sent = hook.sent /\ hook'.failed = hook.failed /\ hook'.rejected = hook.rejected
    BY <1>1, <1>4, <2>1, HookCounts
  <2>3. /\ hook'.received - hook.received = 1 /\ hook'.rejected - hook.rejected = 0
        /\ hook'.sent - hook.sent = 0 /\ hook'.failed - hook.failed = 0
    BY <1>1, <2>2 DEF Hooks
  <2>4. Local(p)
    BY <1>1, <1>2, <1>4, <2>3 DEF Local, Fits, One, Creating, Broken
  <2>5. Live' => Live /\ sub'[p] # "removed"
    BY <1>1, <1>4 DEF Live, StatsInv
  <2> QED BY <1>1, <1>2, <2>2, <2>4, <2>5, Rebalances
<1>5. CASE hook.exists /\ post[p].pc = "rejectStats"
  <2>1. hook' = [hook EXCEPT !.received = @ + 1, !.rejected = @ + 1]
    BY <1>5 DEF CountReceived, PostAt
  <2>2. /\ hook' \in Hooks /\ hook'.exists /\ hook'.received = hook.received + 1
        /\ hook'.sent = hook.sent /\ hook'.failed = hook.failed /\ hook'.rejected = hook.rejected + 1
    <3>1. hook' = [hook EXCEPT !.received = hook.received + 1, !.rejected = hook.rejected + 1]
      BY <1>1, <2>1 DEF Hooks
    <3>2. hook.received + 1 \in Nat /\ hook.rejected + 1 \in Nat
      BY <1>1 DEF Hooks
    <3> QED BY <1>1, <1>5, <3>1, <3>2 DEF Hooks
  <2>3. /\ hook'.received - hook.received = 1 /\ hook'.rejected - hook.rejected = 1
        /\ hook'.sent - hook.sent = 0 /\ hook'.failed - hook.failed = 0
    BY <1>1, <2>2 DEF Hooks
  <2>4. Local(p)
    BY <1>1, <1>2, <1>5, <2>3 DEF Local, Fits, One, Creating, Broken
  <2>5. Live' => Live /\ sub'[p] # "removed"
    BY <1>1, <1>5 DEF Live, StatsInv
  <2> QED BY <1>1, <1>2, <2>2, <2>4, <2>5, Rebalances
<1> QED BY <1>1, <1>3, <1>4, <1>5 DEF Creating

\* The save that decides the fate of a submission that is queued: sent or failed, to be counted.
LEMMA FateCounts ==
  ASSUME StatsInv, FormInv', NEW p \in Posts, SaveSent(p) \/ MarkFailed(p), sub[p] = "queued"
  PROVE  StatsInv'
<1>1. /\ Types /\ hook \in Hooks /\ faults \in Nat /\ work[p] \in {"save", "fail", "failAfter"}
      /\ UNCHANGED <<hook, post, admin, faults>>
  BY DEF StatsInv, FormInv, SaveSent, MarkFailed, WorkAt, visitors, calm
<1>2. /\ \A q \in Posts \ {p} : work'[q] = work[q] /\ sub'[q] = sub[q]
      /\ \/ work'[p] = "countSent" /\ sub'[p] = "sent"
         \/ work'[p] \in Broken /\ sub'[p] = "failed"
  <2>1. CASE SaveSent(p)
    <3>1. WorkTo(p, "countSent") /\ SubIs(p, "sent")
      BY <2>1 DEF SaveSent
    <3> QED BY <1>1, <3>1, WorkGoes DEF SubIs, Types, WorkPc
  <2>2. CASE MarkFailed(p)
    <3>1. PICK w \in Broken : WorkTo(p, w) /\ SubIs(p, "failed")
      BY <2>2 DEF MarkFailed, Broken
    <3> QED BY <1>1, <3>1, WorkGoes DEF SubIs, Types, WorkPc, Broken
  <2> QED BY <2>1, <2>2
<1>3. Live' => Live /\ sub'[p] # "removed"
  BY <1>1, <1>2 DEF Live
<1>4. Local(p)
  <2>1. /\ hook'.received - hook.received = 0 /\ hook'.rejected - hook.rejected = 0
        /\ hook'.sent - hook.sent = 0 /\ hook'.failed - hook.failed = 0
    BY <1>1 DEF Hooks
  <2> QED BY <1>1, <1>2, <2>1 DEF Local, Fits, One, Creating, Broken, Made, SubStatus
<1> QED BY <1>1, <1>2, <1>3, <1>4, Rebalances

\* The count of that fate.
LEMMA FateCounted ==
  ASSUME StatsInv, FormInv', NEW p \in Posts, CountSent(p) \/ CountFailed(p)
  PROVE  StatsInv'
<1>1. /\ Types /\ hook \in Hooks /\ faults \in Nat /\ WorkTo(p, "idle")
      /\ UNCHANGED <<sub, post, admin, faults>>
  BY DEF StatsInv, FormInv, CountSent, CountFailed, visitors, calm, Ends
<1>2. (\A q \in Posts \ {p} : work'[q] = work[q]) /\ work'[p] = "idle"
  BY <1>1, WorkGoes DEF WorkPc
<1>3. CASE ~hook.exists
  <2>1. hook' = hook
    BY <1>3 DEF CountSent, CountFailed, Incremented
  <2> QED BY <1>1, <1>2, <1>3, <2>1, Rebalances DEF Live
<1>4. CASE hook.exists
  <2>1. Live' => Live /\ sub'[p] # "removed"
    BY <1>1, <1>4 DEF Live, StatsInv
  <2>2. CASE CountSent(p)
    <3>1. hook' = Incremented("sent") /\ work[p] = "countSent"
      BY <2>2 DEF CountSent, WorkAt
    <3>2. /\ hook' \in Hooks /\ hook'.received = hook.received
          /\ hook'.sent = hook.sent + 1 /\ hook'.failed = hook.failed /\ hook'.rejected = hook.rejected
      BY <1>1, <1>4, <3>1, HookCounts
    <3>3. /\ hook'.received - hook.received = 0 /\ hook'.rejected - hook.rejected = 0
          /\ hook'.sent - hook.sent = 1 /\ hook'.failed - hook.failed = 0
      BY <1>1, <3>2 DEF Hooks
    <3>4. Local(p)
      BY <1>1, <1>2, <3>1, <3>3 DEF Local, Fits, One, Creating, Broken
    <3> QED BY <1>1, <1>2, <2>1, <3>2, <3>4, Rebalances
  <2>3. CASE CountFailed(p)
    <3>1. hook' = Incremented("failed") /\ work[p] \in Broken
      BY <2>3 DEF CountFailed, WorkAt, Broken
    <3>2. /\ hook' \in Hooks /\ hook'.received = hook.received
          /\ hook'.sent = hook.sent /\ hook'.failed = hook.failed + 1 /\ hook'.rejected = hook.rejected
      BY <1>1, <1>4, <3>1, HookCounts
    <3>3. /\ hook'.received - hook.received = 0 /\ hook'.rejected - hook.rejected = 0
          /\ hook'.sent - hook.sent = 0 /\ hook'.failed - hook.failed = 1
      BY <1>1, <3>2 DEF Hooks
    <3>4. Local(p)
      BY <1>1, <1>2, <3>1, <3>3 DEF Local, Fits, One, Creating, Broken
    <3> QED BY <1>1, <1>2, <2>1, <3>2, <3>4, Rebalances
  <2> QED BY <2>2, <2>3
<1> QED BY <1>3, <1>4

\* Requests that write nothing that is counted.
LEMMA AskingCounts ==
  ASSUME StatsInv, FormInv', NEW p \in Posts,
         \/ \E e \in Emails \cup {NoEmail} : Arrive(p, e)
         \/ Receive(p) \/ CountHour(p) \/ TakeWindow(p) \/ Enqueue(p)
  PROVE  StatsInv'
<1>1. UNCHANGED <<hook, sub, admin, faults, work>>
  BY DEF Arrive, Receive, CountHour, TakeWindow, Enqueue, sending, calm
<1>2. Types
  BY DEF StatsInv, FormInv
<1>3. (\A q \in Posts \ {p} : post'[q] = post[q]) /\ post[p].pc \notin Creating /\ post'[p].pc \notin Creating
  <2>1. post[p] \in PostStates /\ DOMAIN post = Posts /\ post[p].pc \notin Creating
    <3>1. post[p].pc \in {"new", "receive", "hour", "window", "enqueue"}
      BY Zenon DEF Arrive, Receive, CountHour, TakeWindow, Enqueue, PostAt
    <3> QED BY <1>2, <3>1 DEF Types, Creating
  <2>2. CASE \E w \in {"receive", "reject", "hour", "window"} : PostTo(p, w)
    BY <1>2, <2>1, <2>2, PostGoes DEF PostPc, Creating
  <2>3. CASE \E a \in Answers : Answer(p, a)
    BY <1>2, <2>1, <2>3, PostAnswers DEF Creating
  <2>4. CASE post' = [post EXCEPT ![p].pc = "create", ![p].opened = ended[post[p].email]]
    <3> DEFINE m == [post[p] EXCEPT !.pc = "create", !.opened = ended[post[p].email]]
    <3>1. post' = [post EXCEPT ![p] = m] /\ m.pc = "create"
      BY <2>1, <2>4 DEF PostStates
    <3> HIDE DEF m
    <3> QED BY <2>1, <3>1 DEF Creating
  <2>5. CASE \E e \in Emails \cup {NoEmail} : Arrive(p, e)
    <3>1. PICK e \in Emails \cup {NoEmail} : Arrive(p, e)
      BY <2>5
    <3> DEFINE m == IF hook.exists /\ hook.active /\ hook.known
                    THEN [post[p] EXCEPT !.pc = "receive", !.email = e]
                    ELSE [post[p] EXCEPT !.pc = "answered", !.answer = "notFound"]
    <3>2. post' = [post EXCEPT ![p] = m] /\ m.pc \in {"receive", "answered"}
      BY <2>1, <3>1 DEF Arrive, PostStates
    <3> HIDE DEF m
    <3> QED BY <2>1, <3>2 DEF Creating
  <2> QED BY <2>2, <2>3, <2>4, <2>5 DEF Receive, CountHour, TakeWindow, Enqueue, Answers
<1> QED BY <1>1, <1>3, Unmoved

\* Deliveries up to the save.
LEMMA SendingCounts ==
  ASSUME StatsInv, FormInv', NEW p \in Posts,
         \/ TakeJob(p) \/ Check(p) \/ ReserveQuota(p) \/ WaitForQuota(p) \/ Mailbox(p) \/ Send(p)
         \/ (SaveSent(p) \/ MarkFailed(p)) /\ sub[p] # "queued"
  PROVE  StatsInv'
<1>1. UNCHANGED <<hook, post, admin, faults>> /\ Types /\ Delivered(p)
  BY DEF TakeJob, Check, ReserveQuota, WaitForQuota, Mailbox, Send, SaveSent, MarkFailed, visitors, calm, StatsInv, FormInv
<1> DEFINE Early == {"idle", "check", "reserve", "mailbox", "send", "save", "fail", "failAfter"}
<1>2. /\ sub' = sub
      /\ \/ work' = work
         \/ work[p] \in Early /\ \E w \in Early : WorkTo(p, w)
  <2>1. CASE TakeJob(p)
    <3>1. job[p].state = "waiting"
      BY <2>1 DEF TakeJob
    <3>2. work[p] = "idle"
      BY <1>1, <3>1 DEF Delivered
    <3> QED BY <2>1, <3>2 DEF TakeJob
  <2>2. CASE Check(p) \/ ReserveQuota(p) \/ WaitForQuota(p) \/ Mailbox(p)
    BY <2>2 DEF Check, ReserveQuota, WaitForQuota, Mailbox, WorkAt
  <2>3. CASE Send(p)
    BY <2>3 DEF Send, WorkAt, Throws
  <2>4. CASE SaveSent(p) /\ sub[p] # "queued"
    <3>1. work[p] = "save" /\ sub[p] = "removed"
      BY <1>1, <2>4 DEF SaveSent, WorkAt, Delivered
    <3> QED BY <2>4, <3>1 DEF SaveSent, Throws
  <2>5. CASE MarkFailed(p) /\ sub[p] # "queued"
    BY <2>5 DEF MarkFailed, WorkAt, Ends
  <2> QED BY <2>1, <2>2, <2>3, <2>4, <2>5
<1>3. \/ work' = work
      \/ (\A q \in Posts \ {p} : work'[q] = work[q]) /\ work[p] \notin Broken \cup {"countSent"} /\ work'[p] \notin Broken \cup {"countSent"}
  <2>1. SUFFICES ASSUME work[p] \in Early, NEW w \in Early, WorkTo(p, w)
                 PROVE  (\A q \in Posts \ {p} : work'[q] = work[q]) /\ work[p] \notin Broken \cup {"countSent"} /\ work'[p] \notin Broken \cup {"countSent"}
    BY <1>2
  <2> QED BY <1>1, <2>1, WorkGoes DEF WorkPc, Broken
<1> QED BY <1>1, <1>2, <1>3, Unmoved

\* What fails gives up its count.
LEMMA FailureCounts ==
  ASSUME StatsInv, FormInv', NEW p \in Posts, RequestFails(p) \/ StepFails(p) \/ WorkerDies(p)
  PROVE  StatsInv'
<1>1. UNCHANGED <<hook, sub, admin>> /\ faults' = faults + 1 /\ Types
  BY DEF RequestFails, StepFails, WorkerDies, StatsInv, FormInv
<1>2. CASE RequestFails(p)
  <2>1. work' = work /\ (\A q \in Posts \ {p} : post'[q] = post[q]) /\ post'[p].pc = "answered"
    BY <1>1, <1>2, PostAnswers DEF RequestFails, Answers, sending
  <2> QED BY <1>1, <2>1, GivenUp DEF Creating
<1>3. CASE StepFails(p) \/ WorkerDies(p)
  <2>1. post' = post /\ \E w \in {"idle", "failAfter"} : WorkTo(p, w)
    BY <1>3 DEF StepFails, WorkerDies, visitors, Throws
  <2>2. (\A q \in Posts \ {p} : work'[q] = work[q]) /\ work'[p] \notin Broken \cup {"countSent"}
    BY <1>1, <2>1, WorkGoes DEF WorkPc, Broken
  <2> QED BY <1>1, <2>1, <2>2, GivenUp
<1> QED BY <1>2, <1>3

\* The panel, the clock and Redis count nothing; a hook whose submissions are removed goes too.
LEMMA AsideCounts ==
  ASSUME StatsInv, FormInv',
         \/ SwitchActive \/ Regenerate \/ RemoveSubmissions \/ RemoveHook \/ NextHour
         \/ (\E e \in Emails : WindowEnds(e)) \/ UNCHANGED vars
  PROVE  StatsInv'
<1>1. hook' \in Hooks /\ faults' = faults
  BY DEF SwitchActive, Regenerate, RemoveSubmissions, RemoveHook, NextHour, WindowEnds, vars, calm, StatsInv, Hooks
<1>2. CASE RemoveSubmissions \/ RemoveHook
  <2>1. ~Live'
    BY <1>2 DEF RemoveSubmissions, RemoveHook, Live, StatsInv, Hooks
  <2> QED BY <1>1, <2>1 DEF StatsInv
<1>3. CASE SwitchActive \/ Regenerate \/ NextHour \/ (\E e \in Emails : WindowEnds(e)) \/ UNCHANGED vars
  <2>1. /\ UNCHANGED <<post, sub, work, admin>> /\ hook'.exists = hook.exists
        /\ hook'.received = hook.received /\ hook'.rejected = hook.rejected
        /\ hook'.sent = hook.sent /\ hook'.failed = hook.failed
    BY <1>3 DEF SwitchActive, Regenerate, NextHour, WindowEnds, vars, visitors, sending, StatsInv, Hooks
  <2>2. \A S : Due(S)' = Due(S) /\ Doing(S)' = Doing(S) /\ HowMany(S)' = HowMany(S)
    BY <2>1 DEF Due, Doing, HowMany
  <2>3. Balances => Balances'
    BY <1>1, <2>1, <2>2 DEF Balances, Balance
  <2> QED BY <1>1, <2>1, <2>3 DEF StatsInv, Live
<1> QED BY <1>2, <1>3

\* Every step keeps the balances.
LEMMA StatsStep == ASSUME StatsInv, [Next]_vars PROVE StatsInv'
<1>1. FormInv'
  BY FormStep DEF StatsInv
<1>2. CASE \E p \in Posts :
               \/ \E e \in Emails \cup {NoEmail} : Arrive(p, e)
               \/ Receive(p) \/ CountHour(p) \/ TakeWindow(p) \/ Enqueue(p)
  BY <1>1, <1>2, AskingCounts
<1>3. CASE \E p \in Posts : CreateSubmission(p) \/ CountReceived(p)
  BY <1>1, <1>3, CreateCounts, ReceivedCounts
<1>4. CASE \E p \in Posts : \/ TakeJob(p) \/ Check(p) \/ ReserveQuota(p) \/ WaitForQuota(p) \/ Mailbox(p) \/ Send(p)
                            \/ SaveSent(p) \/ MarkFailed(p)
  BY <1>1, <1>4, SendingCounts, FateCounts
<1>5. CASE \E p \in Posts : CountSent(p) \/ CountFailed(p)
  BY <1>1, <1>5, FateCounted
<1>6. CASE \E p \in Posts : RequestFails(p) \/ StepFails(p) \/ WorkerDies(p)
  BY <1>1, <1>6, FailureCounts
<1>7. CASE Panel \/ NextHour \/ (\E e \in Emails : WindowEnds(e)) \/ UNCHANGED vars
  BY <1>1, <1>7, AsideCounts DEF Panel
<1> QED BY <1>2, <1>3, <1>4, <1>5, <1>6, <1>7 DEF Next, RequestSteps, WorkerSteps

\* No submission, no number, nothing due.
LEMMA StatsStart == ASSUME Init PROVE StatsInv
<1>1. hook \in Hooks /\ faults \in Nat
  BY DEF Init, Hooks
<1>2. \A S : {p \in Posts : post[p].pc \in S} = {} \/ "new" \in S
  BY DEF Init
<1>3. \A S : {p \in Posts : work[p] \in S} = {} \/ "idle" \in S
  BY DEF Init
<1>4. \A S : {p \in Posts : sub[p] \in S} = {} \/ "none" \in S
  BY DEF Init
<1>5. /\ Due(Creating) = 0 /\ Due({"rejectStats"}) = 0 /\ Doing({"countSent"}) = 0 /\ Doing(Broken) = 0
      /\ HowMany(Made) = 0 /\ HowMany({"rejected"}) = 0 /\ HowMany({"sent"}) = 0 /\ HowMany({"failed"}) = 0
  BY <1>2, <1>3, <1>4, FS_EmptySet DEF Due, Doing, HowMany, Creating, Broken, Made, SubStatus
<1>6. Balances
  BY <1>5 DEF Balances, Balance, Init
<1>7. \A p \in Posts : sub[p] # "removed"
  BY DEF Init
<1> QED BY <1>1, <1>6, <1>7, FormStarts DEF StatsInv

\* The numbers of the panel are never above the submissions, however posts, deliveries and
\* failures interleave, and they are the submissions when nothing runs and nothing failed.
THEOREM NumbersAreSubmissions == Spec => []StatsAddUp
<1>1. Init => StatsInv
  BY StatsStart
<1>2. StatsInv /\ [Next]_vars => StatsInv'
  BY StatsStep
<1>3. StatsInv => StatsAddUp
  <2>1. SUFFICES ASSUME StatsInv, Live PROVE StatsAddUp
    BY DEF StatsAddUp, Live
  <2>2. Balances /\ hook \in Hooks
    BY <2>1 DEF StatsInv
  <2>3. \A S : {p \in Posts : post[p].pc \in S} \in SUBSET Posts /\ {p \in Posts : work[p] \in S} \in SUBSET Posts
               /\ {p \in Posts : sub[p] \in S} \in SUBSET Posts
    OBVIOUS
  <2>4. \A S : Due(S) \in Nat /\ Doing(S) \in Nat /\ HowMany(S) \in Nat
    BY <2>3, FormAssumption, FS_Subset, FS_CardinalityType DEF Due, Doing, HowMany
  <2>5. AtRest => Due(Creating) = 0 /\ Due({"rejectStats"}) = 0 /\ Doing({"countSent"}) = 0 /\ Doing(Broken) = 0
    <3>1. SUFFICES ASSUME AtRest
                   PROVE  /\ {p \in Posts : post[p].pc \in Creating} = {} /\ {p \in Posts : post[p].pc \in {"rejectStats"}} = {}
                          /\ {p \in Posts : work[p] \in {"countSent"}} = {} /\ {p \in Posts : work[p] \in Broken} = {}
      BY FS_EmptySet DEF Due, Doing
    <3> QED BY <3>1 DEF AtRest, WorkAt, Creating, Broken
  <2> QED BY <2>2, <2>4, <2>5 DEF StatsAddUp, Balances, Balance, Hooks, Made
<1> QED BY <1>1, <1>2, <1>3, PTL DEF Spec
=============================================================================
