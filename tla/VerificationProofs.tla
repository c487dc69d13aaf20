------------------------- MODULE VerificationProofs -------------------------
(***************************************************************************)
(* Theorems of Verification, for any number of requests, contacts, single  *)
(* addresses, workers and retries: the provider accepts the list of a      *)
(* document once (UploadedOnce), a document that says done has written     *)
(* every verdict of its list (DoneMeansApplied), what is charged for stays *)
(* within the month's quota (BilledWithinQuota) and at rest the counter    *)
(* says what was charged for (QuotaMatchesBilling).                        *)
(*                                                                         *)
(* The invariant of the first two says, of every BullMQ job, where its     *)
(* document may be while the job is at a given point (TaskFits): that is   *)
(* what the checks of the status in TakeStep establish and what no other   *)
(* job of the document may upset.  Two uploads of a document live side by  *)
(* side only when one gave the work to the other (OneUpload).  All of it   *)
(* holds as long as a crash and a refusal for the rate of requests have    *)
(* not both happened (Calm), as in the two properties.                     *)
(*                                                                         *)
(* The invariant of the other two keeps books (BooksHold): the difference  *)
(* between the counter and the bill is shared out among the documents and  *)
(* the single addresses, and every share is bounded by where the one job   *)
(* that acts for the document is (Book).  It needs the first invariant,    *)
(* and sums over the set of requests (Sum).                                *)
(***************************************************************************)
EXTENDS Verification, FiniteSetTheorems, WellFoundedInduction, TLAPS

Calm == troubles = 0 \/ refused = 0
Past == {"verifying", "applying", "done", "failed"}

Docs == [status : {"none"} \cup Active \cup Ended, reserved : Int, batch : SUBSET Contacts]
Jobs == [pc : TaskPc, v : Requests \cup {"none"}, step : Steps, attempt : Nat, doc : Docs,
         left : SUBSET Contacts, stalled : BOOLEAN]

Types ==
    /\ task \in [Tasks -> Jobs]
    /\ \A t \in Tasks : task[t].pc # "idle" => task[t].v \in Requests
    /\ vjob \in [Requests -> Docs]
    /\ checked \in [Requests -> SUBSET Contacts]
    /\ accepted \in [Requests -> Nat]
    /\ caller \in [Callers -> [pc : CallerPc, amount : Int]]
    /\ pending \subseteq Contacts
    /\ refused \in Nat /\ troubles \in Nat

(* Where a step may be, by its kind, and what its copy of the document says. *)
OnlyUpload == {"saveUploading", "read", "releaseUnused", "upload", "saveEmpty", "saveQueued",
               "saveVerifying", "giveBack"}
OnlyPoll   == {"progress", "refund", "saveApplying", "enqueueApply"}
OnlyApply  == {"download", "write", "releaseUnknown", "saveDone", "deleteList"}
Uploading  == {"read", "releaseUnused", "upload", "saveEmpty", "saveVerifying"}

StepFits(x) ==
    /\ x.pc \in OnlyUpload => x.step = "upload"
    /\ x.pc \in OnlyPoll => x.step = "poll"
    /\ x.pc \in OnlyApply => x.step = "apply"
    /\ x.pc = "enqueuePoll" => x.step \in {"upload", "poll"}

CopyFits(x, rf) ==
    /\ x.pc \in {"saveUploading", "saveQueued", "giveBack"} => x.doc.status = "queued"
    /\ x.pc = "retry" /\ x.step = "upload" => x.doc.status = "queued"
    /\ x.pc \in Uploading => x.doc.status = "uploading"
    /\ x.pc \in {"enqueuePoll", "progress", "saveApplying"} => x.doc.status = "verifying"
    /\ x.pc \in {"enqueueApply", "download", "write", "releaseUnknown", "saveDone"}
          => x.doc.status = "applying"
    /\ x.pc = "saveQueued" \/ (x.pc = "retry" /\ x.step = "upload") => rf > 0

(* What a step finds in its document d, with a lists of it accepted and the *)
(* verdicts of the contacts of k written.                                   *)
Early == {"saveUploading", "read", "releaseUnused", "upload", "saveEmpty", "saveQueued", "retry",
          "giveBack"}

UploadFits(x, d, a) ==
    /\ x.pc = "saveUploading" => d.status = "queued"
    /\ x.pc \in Uploading \cup {"saveQueued"} => d.status = "uploading"
    /\ x.pc = "enqueuePoll" => d.status \in Past
    /\ x.pc \in Early => a = 0

ApplyFits(x, d, k) ==
    /\ x.pc \in {"download", "write", "releaseUnknown", "saveDone"} => x.doc.batch = d.batch
    /\ x.pc = "write" => x.doc.batch \ x.left \subseteq k
    /\ x.pc \in {"releaseUnknown", "saveDone"} => x.doc.batch \subseteq k

TaskFits(x, d, a, k, rf) ==
    /\ StepFits(x) /\ CopyFits(x, rf)
    /\ x.step = "upload" => UploadFits(x, d, a)
    /\ x.step # "upload" => d.status \in Past
    /\ x.step = "apply" => ApplyFits(x, d, k)

Live(t, r) == task[t].pc # "idle" /\ task[t].v = r

(* Two uploads of a document: one has passed the work on. *)
OneUpload ==
    \A t, u \in Tasks :
        /\ t # u
        /\ task[t].pc # "idle" /\ task[u].pc # "idle"
        /\ task[t].v = task[u].v /\ task[t].step = "upload" /\ task[u].step = "upload"
        => refused > 0 /\ (task[t].pc = "finish" \/ task[u].pc = "finish")

(* A request that has not added its upload yet: nothing runs for it. *)
Untouched(r) ==
    /\ accepted[r] = 0
    /\ \A t \in Tasks : ~Live(t, r)
    /\ vjob[r].status = IF CallerAt(r, "enqueue") THEN "queued" ELSE "none"

DocFits(d, a, k) ==
    /\ a <= 1
    /\ d.status = "queued" => a = 0
    /\ d.status = "done" => d.batch \subseteq k

Fit ==
    /\ \A t \in Tasks : task[t].pc # "idle" =>
           TaskFits(task[t], vjob[task[t].v], accepted[task[t].v], checked[task[t].v], refused)
    /\ OneUpload
    /\ \A r \in Requests : caller[r].pc # "end" => Untouched(r)
    /\ \A r \in Requests : DocFits(vjob[r], accepted[r], checked[r])

VerificationInv == Types /\ (Calm => Fit)

-----------------------------------------------------------------------------
(* What a step of one job changes, as far as the invariant sees.            *)
Frame(t) ==
    LET v == task[t].v IN
    /\ \A u \in Tasks \ {t} : task'[u] = task[u]
    /\ task'[t].pc # "idle" => task'[t].v = v /\ task'[t].step = task[t].step
    /\ \A r \in Requests \ {v} : vjob'[r] = vjob[r] /\ accepted'[r] = accepted[r]
                                 /\ checked'[r] = checked[r]
    /\ caller' = caller
    /\ refused' >= refused /\ troubles' >= troubles

Change(t) ==
    LET v == task[t].v IN
    /\ task[t].pc = "finish" => task'[t].pc = "idle" \/ refused' = 0
    /\ \/ vjob'[v] = vjob[v]
       \/ vjob[v].status \in Past /\ vjob'[v].status \in Past /\ vjob'[v].batch = vjob[v].batch
       \/ vjob[v].status \notin Past /\ task[t].pc # "finish"
    /\ \/ accepted'[v] = accepted[v]
       \/ task[t].step = "upload" /\ task[t].pc \in Early /\ accepted'[v] = 1
    /\ checked[v] \subseteq checked'[v]

Fits(t) ==
    LET v == task[t].v IN
    /\ task'[t].pc # "idle" =>
           TaskFits(task'[t], vjob'[v], accepted'[v], checked'[v], refused')
    /\ DocFits(vjob'[v], accepted'[v], checked'[v])

\* A job that changes its document in these ways leaves every other job of it fitting.
LEMMA Moves ==
  ASSUME VerificationInv, Types', Calm', NEW t \in Tasks, task[t].pc # "idle",
         Frame(t), Change(t), Fits(t)
  PROVE  Fit'
<1> DEFINE v == task[t].v
<1>1. Calm /\ Fit /\ v \in Requests /\ refused \in Nat /\ refused' \in Nat
  BY DEF VerificationInv, Types, Calm, Frame
<1>2. TaskFits(task[t], vjob[v], accepted[v], checked[v], refused)
  BY <1>1 DEF Fit
<1>3. ASSUME NEW u \in Tasks, u # t, task[u].pc # "idle", task[u].v = v
      PROVE  TaskFits(task[u], vjob'[v], accepted'[v], checked'[v], refused')
  <2>1. TaskFits(task[u], vjob[v], accepted[v], checked[v], refused)
    BY <1>1, <1>3 DEF Fit
  <2>2. StepFits(task[u]) /\ CopyFits(task[u], refused')
    BY <2>1, <1>1 DEF TaskFits, CopyFits, Frame
  <2>3. ASSUME task[u].step = "upload" PROVE UploadFits(task[u], vjob'[v], accepted'[v])
    <3>1. task[t].step = "upload" /\ task[t].pc # "finish" => task[u].pc = "finish"
      BY <1>1, <1>3, <2>3 DEF Fit, OneUpload
    <3>2. UploadFits(task[u], vjob[v], accepted[v])
      BY <2>1, <2>3 DEF TaskFits
    <3>3. CASE task[u].pc = "finish"
      BY <3>3 DEF UploadFits, Uploading, Early
    <3>4. CASE task[u].pc # "finish"
      <4>1. vjob[v].status \in Past \/ task[t].step = "upload"
        BY <1>2 DEF TaskFits
      <4>2. accepted'[v] = accepted[v]
        BY <3>1, <3>4 DEF Change, Early
      <4>3. \/ vjob'[v] = vjob[v]
            \/ vjob[v].status \in Past /\ vjob'[v].status \in Past
        BY <3>1, <3>4, <4>1 DEF Change
      <4> QED BY <3>2, <4>2, <4>3 DEF UploadFits, Past
    <3> QED BY <3>3, <3>4
  <2>4. ASSUME task[u].step # "upload"
        PROVE  /\ vjob'[v].status \in Past
               /\ vjob'[v].batch = vjob[v].batch
    BY <2>1, <2>4 DEF TaskFits, Change
  <2>5. ASSUME task[u].step = "apply" PROVE ApplyFits(task[u], vjob'[v], checked'[v])
    <3>1. ApplyFits(task[u], vjob[v], checked[v])
      BY <2>1, <2>5 DEF TaskFits
    <3>2. vjob'[v].batch = vjob[v].batch /\ checked[v] \subseteq checked'[v]
      BY <2>4, <2>5 DEF Change
    <3> QED BY <3>1, <3>2 DEF ApplyFits
  <2> QED BY <2>2, <2>3, <2>4, <2>5 DEF TaskFits
<1>4. ASSUME NEW u \in Tasks, task'[u].pc # "idle"
      PROVE  TaskFits(task'[u], vjob'[task'[u].v], accepted'[task'[u].v], checked'[task'[u].v],
                      refused')
  <2>1. CASE u = t
    BY <1>4, <2>1 DEF Frame, Fits
  <2>2. CASE u # t /\ task[u].v = v
    BY <1>3, <1>4, <2>2 DEF Frame
  <2>3. CASE u # t /\ task[u].v # v
    <3> DEFINE r == task[u].v
    <3>1. task'[u] = task[u] /\ r \in Requests
      BY <1>4, <2>3 DEF Frame, VerificationInv, Types
    <3>2. vjob'[r] = vjob[r] /\ accepted'[r] = accepted[r] /\ checked'[r] = checked[r]
      BY <2>3, <3>1 DEF Frame
    <3>3. TaskFits(task[u], vjob[r], accepted[r], checked[r], refused)
      BY <1>1, <1>4, <3>1 DEF Fit
    <3>4. TaskFits(task[u], vjob[r], accepted[r], checked[r], refused')
      BY <1>1, <3>3 DEF TaskFits, CopyFits, Frame
    <3> QED BY <3>1, <3>2, <3>4
  <2> QED BY <2>1, <2>2, <2>3
<1>5. OneUpload'
  <2> SUFFICES ASSUME NEW a \in Tasks, NEW b \in Tasks, a # b,
                      task'[a].pc # "idle", task'[b].pc # "idle", task'[a].v = task'[b].v,
                      task'[a].step = "upload", task'[b].step = "upload"
               PROVE  refused' > 0 /\ (task'[a].pc = "finish" \/ task'[b].pc = "finish")
    BY DEF OneUpload
  <2>1. ASSUME NEW c \in Tasks, c \in {a, b}
        PROVE  task[c].pc # "idle" /\ task[c].v = task'[c].v /\ task[c].step = task'[c].step
    BY <2>1 DEF Frame
  <2>2. refused > 0 /\ (task[a].pc = "finish" \/ task[b].pc = "finish")
    BY <1>1, <2>1 DEF Fit, OneUpload
  <2>3. refused' > 0
    BY <2>2, <1>1 DEF Frame
  <2>4. task[t].pc # "finish" \/ task'[t].pc = "idle"
    BY <2>3 DEF Change
  <2> QED BY <2>2, <2>3, <2>4 DEF Frame
<1>6. ASSUME NEW r \in Requests, caller'[r].pc # "end" PROVE Untouched(r)'
  <2>1. caller[r].pc # "end" /\ Untouched(r)
    BY <1>1, <1>6 DEF Frame, Fit
  <2>2. r # v
    BY <2>1 DEF Untouched, Live
  <2>3. /\ vjob'[r] = vjob[r] /\ accepted'[r] = accepted[r]
        /\ CallerAt(r, "enqueue")' <=> CallerAt(r, "enqueue")
    BY <2>2 DEF Frame, CallerAt
  <2>4. \A u \in Tasks : ~Live(u, r)'
    BY <2>1, <2>2 DEF Frame, Untouched, Live
  <2> QED BY <2>1, <2>3, <2>4 DEF Untouched
<1>7. ASSUME NEW r \in Requests PROVE DocFits(vjob'[r], accepted'[r], checked'[r])
  BY <1>1 DEF Fit, Frame, Fits
<1> QED BY <1>4, <1>5, <1>6, <1>7 DEF Fit

\* A job that BullMQ is given waits, and fits whatever its document says; the job that
\* gave it has nothing left to do.
LEMMA Adds ==
  ASSUME VerificationInv, Types', Calm',
         UNCHANGED <<vjob, accepted, checked, refused, troubles>>,
         NEW n \in Tasks, task[n].pc = "idle", task'[n].pc = "waiting",
         NEW r \in Requests, task'[n].v = r,
         \A u \in Tasks \ {n} :
             \/ task'[u] = task[u]
             \/ /\ task[u].pc # "idle" /\ task'[u].pc = "finish"
                /\ task'[u].v = task[u].v /\ task'[u].step = task[u].step,
         caller'[r].pc = "end", \A q \in Requests \ {r} : caller'[q] = caller[q],
         task'[n].step = "upload" =>
             \A u \in Tasks : Live(u, r) /\ task[u].step = "upload"
                                  => refused > 0 /\ task'[u].pc = "finish",
         task'[n].step # "upload" => vjob[r].status \in Past
  PROVE  Fit'
<1>1. Calm /\ Fit
  BY DEF VerificationInv, Calm
<1>2. ASSUME NEW u \in Tasks, task'[u].pc # "idle"
      PROVE  TaskFits(task'[u], vjob[task'[u].v], accepted[task'[u].v], checked[task'[u].v], refused)
  <2>1. CASE u = n
    BY <2>1 DEF TaskFits, StepFits, CopyFits, UploadFits, ApplyFits, OnlyUpload, OnlyPoll,
                OnlyApply, Uploading, Early
  <2>2. CASE u # n
    <3>1. TaskFits(task[u], vjob[task[u].v], accepted[task[u].v], checked[task[u].v], refused)
      BY <1>1, <1>2, <2>2 DEF Fit
    <3>2. CASE task'[u] = task[u]
      BY <3>1, <3>2
    <3>3. CASE task'[u].pc = "finish" /\ task'[u].v = task[u].v /\ task'[u].step = task[u].step
      BY <3>1, <3>3 DEF TaskFits, StepFits, CopyFits, UploadFits, ApplyFits, OnlyUpload, OnlyPoll,
                        OnlyApply, Uploading, Early
    <3> QED BY <2>2, <3>2, <3>3
  <2> QED BY <2>1, <2>2
<1>3. OneUpload'
  <2> SUFFICES ASSUME NEW a \in Tasks, NEW b \in Tasks, a # b,
                      task'[a].pc # "idle", task'[b].pc # "idle", task'[a].v = task'[b].v,
                      task'[a].step = "upload", task'[b].step = "upload"
               PROVE  refused > 0 /\ (task'[a].pc = "finish" \/ task'[b].pc = "finish")
    BY DEF OneUpload
  <2>1. CASE a = n
    BY <2>1 DEF Live
  <2>2. CASE b = n
    BY <2>2 DEF Live
  <2>3. CASE a # n /\ b # n
    <3>1. /\ task[a].pc # "idle" /\ task[b].pc # "idle" /\ task[a].v = task[b].v
          /\ task[a].step = "upload" /\ task[b].step = "upload"
      BY <2>3
    <3>2. refused > 0 /\ (task[a].pc = "finish" \/ task[b].pc = "finish")
      BY <1>1, <3>1 DEF Fit, OneUpload
    <3> QED BY <2>3, <3>2
  <2> QED BY <2>1, <2>2, <2>3
<1>4. ASSUME NEW q \in Requests, caller'[q].pc # "end" PROVE Untouched(q)'
  <2>1. q # r /\ caller'[q] = caller[q] /\ Untouched(q)
    BY <1>1, <1>4 DEF Fit
  <2>2. \A u \in Tasks : ~Live(u, q)'
    BY <2>1 DEF Untouched, Live
  <2> QED BY <2>1, <2>2 DEF Untouched, CallerAt
<1> QED BY <1>1, <1>2, <1>3, <1>4 DEF Fit

\* A request moves on without a job or a document of its own, or writes its document.
LEMMA CallerMoves ==
  ASSUME VerificationInv, Types', Calm', NEW c \in Callers,
         UNCHANGED <<task, accepted, checked, refused, troubles>>,
         \A q \in Callers \ {c} : caller'[q] = caller[q],
         \A q \in Requests \ {c} : vjob'[q] = vjob[q],
         caller[c].pc # "end",
         c \in Requests => /\ vjob'[c].status \in {vjob[c].status, "queued"}
                           /\ caller'[c].pc # "end" =>
                                vjob'[c].status = IF CallerAt(c, "enqueue")' THEN "queued" ELSE "none"
  PROVE  Fit'
<1>1. Calm /\ Fit
  BY DEF VerificationInv, Calm
<1>2. c \in Requests => Untouched(c)
  BY <1>1 DEF Fit
<1>3. ASSUME NEW u \in Tasks, task[u].pc # "idle" PROVE vjob'[task[u].v] = vjob[task[u].v]
  BY <1>2, <1>3 DEF Untouched, Live, VerificationInv, Types
<1>4. \A u \in Tasks : task[u].pc # "idle" =>
          TaskFits(task[u], vjob'[task[u].v], accepted[task[u].v], checked[task[u].v], refused)
  BY <1>1, <1>3 DEF Fit
<1>5. OneUpload'
  BY <1>1 DEF Fit, OneUpload
<1>6. ASSUME NEW q \in Requests, caller'[q].pc # "end" PROVE Untouched(q)'
  <2>1. CASE q = c
    BY <1>2, <1>6, <2>1 DEF Untouched, Live
  <2>2. CASE q # c
    BY <1>1, <1>6, <2>2 DEF Fit, Untouched, Live, CallerAt, Callers
  <2> QED BY <2>1, <2>2
<1>7. ASSUME NEW q \in Requests PROVE DocFits(vjob'[q], accepted[q], checked[q])
  <2>1. CASE q = c
    <3>1. accepted[q] = 0 /\ vjob[q].status \in {"queued", "none"}
      BY <1>2, <2>1 DEF Untouched
    <3> QED BY <3>1, <2>1 DEF DocFits
  <2>2. CASE q # c
    BY <1>1, <2>2 DEF Fit
  <2> QED BY <2>1, <2>2
<1> QED BY <1>4, <1>5, <1>6, <1>7 DEF Fit

-----------------------------------------------------------------------------
(* The operators of the steps.                                              *)

\* A step that only moves on.
LEMMA GotoIs ==
  ASSUME task \in [Tasks -> Jobs], NEW t \in Tasks, NEW w \in TaskPc, Goto(t, w)
  PROVE  /\ task' \in [Tasks -> Jobs]
         /\ \A u \in Tasks \ {t} : task'[u] = task[u]
         /\ task'[t].pc = w /\ task'[t].v = task[t].v /\ task'[t].step = task[t].step
         /\ task'[t].doc = task[t].doc /\ task'[t].left = task[t].left
BY DEF Goto, Jobs

\* A save sets the fields it has and keeps the others.
LEMMA WithStatus ==
  ASSUME NEW d \in Docs, NEW s \in {"none"} \cup Active \cup Ended
  PROVE  /\ With(d, [status |-> s]) \in Docs /\ With(d, [status |-> s]).status = s
         /\ With(d, [status |-> s]).reserved = d.reserved /\ With(d, [status |-> s]).batch = d.batch
<1>1. With(d, [status |-> s]) = [status |-> s, reserved |-> d.reserved, batch |-> d.batch]
  BY DEF With, Docs
<1>2. [status |-> s, reserved |-> d.reserved, batch |-> d.batch] \in Docs
  BY DEF Docs
<1> QED BY <1>1, <1>2

\* A document with a new status and reservation.
LEMMA WithReserved ==
  ASSUME NEW d \in Docs, NEW s \in {"none"} \cup Active \cup Ended, NEW n \in Int
  PROVE  /\ With(d, [status |-> s, reserved |-> n]) \in Docs /\ With(d, [status |-> s, reserved |-> n]).status = s
         /\ With(d, [status |-> s, reserved |-> n]).reserved = n /\ With(d, [status |-> s, reserved |-> n]).batch = d.batch
<1>1. With(d, [status |-> s, reserved |-> n]) = [status |-> s, reserved |-> n, batch |-> d.batch]
  BY DEF With, Docs
<1>2. [status |-> s, reserved |-> n, batch |-> d.batch] \in Docs
  BY DEF Docs
<1> QED BY <1>1, <1>2

\* A document with a new status, reservation and list.
LEMMA WithAll ==
  ASSUME NEW d \in Docs, NEW s \in {"none"} \cup Active \cup Ended, NEW n \in Int, NEW b \in SUBSET Contacts
  PROVE  /\ With(d, [status |-> s, reserved |-> n, batch |-> b]) \in Docs /\ With(d, [status |-> s, reserved |-> n, batch |-> b]).status = s
         /\ With(d, [status |-> s, reserved |-> n, batch |-> b]).reserved = n /\ With(d, [status |-> s, reserved |-> n, batch |-> b]).batch = b
<1>1. With(d, [status |-> s, reserved |-> n, batch |-> b]) = [status |-> s, reserved |-> n, batch |-> b]
  BY DEF With, Docs
<1>2. [status |-> s, reserved |-> n, batch |-> b] \in Docs
  BY DEF Docs
<1> QED BY <1>1, <1>2

\* A document with a new reservation.
LEMMA WithHeld ==
  ASSUME NEW d \in Docs, NEW n \in Int
  PROVE  /\ With(d, [reserved |-> n]) \in Docs /\ With(d, [reserved |-> n]).status = d.status
         /\ With(d, [reserved |-> n]).reserved = n /\ With(d, [reserved |-> n]).batch = d.batch
<1>1. With(d, [reserved |-> n]) = [status |-> d.status, reserved |-> n, batch |-> d.batch]
  BY DEF With, Docs
<1>2. [status |-> d.status, reserved |-> n, batch |-> d.batch] \in Docs
  BY DEF Docs
<1> QED BY <1>1, <1>2

\* A document with a new list.
LEMMA WithBatch ==
  ASSUME NEW d \in Docs, NEW b \in SUBSET Contacts
  PROVE  /\ With(d, [batch |-> b]) \in Docs /\ With(d, [batch |-> b]).status = d.status
         /\ With(d, [batch |-> b]).reserved = d.reserved /\ With(d, [batch |-> b]).batch = b
<1>1. With(d, [batch |-> b]) = [status |-> d.status, reserved |-> d.reserved, batch |-> b]
  BY DEF With, Docs
<1>2. [status |-> d.status, reserved |-> d.reserved, batch |-> b] \in Docs
  BY DEF Docs
<1> QED BY <1>1, <1>2

\* A step that writes its copy of the document only.
LEMMA CopyIs ==
  ASSUME task \in [Tasks -> Jobs], NEW t \in Tasks, NEW e \in Docs, NEW w \in TaskPc,
         task' = [task EXCEPT ![t].doc = e, ![t].pc = w]
  PROVE  /\ task' \in [Tasks -> Jobs] /\ \A u \in Tasks \ {t} : task'[u] = task[u]
         /\ task'[t].pc = w /\ task'[t].v = task[t].v /\ task'[t].step = task[t].step
         /\ task'[t].doc = e /\ task'[t].left = task[t].left
BY DEF Jobs

\* A save writes the document and its copy, and no other.
LEMMA SaveIs ==
  ASSUME task \in [Tasks -> Jobs], vjob \in [Requests -> Docs], NEW t \in Tasks,
         task[t].v \in Requests, NEW fields, NEW w \in TaskPc,
         With(task[t].doc, fields) \in Docs, With(vjob[task[t].v], fields) \in Docs,
         Save(t, fields, w)
  PROVE  /\ task' \in [Tasks -> Jobs] /\ vjob' \in [Requests -> Docs]
         /\ \A u \in Tasks \ {t} : task'[u] = task[u]
         /\ task'[t].pc = w /\ task'[t].v = task[t].v /\ task'[t].step = task[t].step
         /\ task'[t].doc = With(task[t].doc, fields) /\ task'[t].left = task[t].left
         /\ \A r \in Requests \ {task[t].v} : vjob'[r] = vjob[r]
         /\ vjob'[task[t].v] = With(vjob[task[t].v], fields)
         /\ UNCHANGED <<caller, pending, accepted, checked, refused, troubles>>
<1> DEFINE e == With(task[t].doc, fields)
           d == With(vjob[task[t].v], fields)
<1>1. task' = [task EXCEPT ![t].doc = e, ![t].pc = w]
  BY DEF Save
<1>2. vjob' = [vjob EXCEPT ![task[t].v] = d]
  BY DEF Save
<1>3. UNCHANGED <<caller, pending, accepted, checked, refused, troubles>>
  BY DEF Save, envVars, provider, KeepHistory
<1> HIDE DEF e, d
<1>4. /\ task' \in [Tasks -> Jobs]
      /\ \A u \in Tasks \ {t} : task'[u] = task[u]
      /\ task'[t].pc = w /\ task'[t].v = task[t].v /\ task'[t].step = task[t].step
      /\ task'[t].doc = e /\ task'[t].left = task[t].left
  <2>1. e \in Docs
    BY DEF e
  <2> QED BY <1>1, <2>1 DEF Jobs
<1>5. /\ vjob' \in [Requests -> Docs] /\ vjob'[task[t].v] = d
      /\ \A r \in Requests \ {task[t].v} : vjob'[r] = vjob[r]
  BY <1>2 DEF d
<1> QED BY <1>3, <1>4, <1>5 DEF e, d

\* A new job takes a free place; an upload that BullMQ knows is not added.
LEMMA EnqueueIs ==
  ASSUME NEW tasks \in [Tasks -> Jobs], NEW v \in Requests, NEW step \in Steps, NEW n \in Nat,
         Enqueue(tasks, v, step, n)
  PROVE  /\ task' \in [Tasks -> Jobs]
         /\ \/ task' = tasks /\ step = "upload"
            \/ \E m \in Tasks : /\ tasks[m].pc = "idle"
                                /\ task' = [tasks EXCEPT ![m] = Waiting(v, step, n, FALSE)]
<1> DEFINE free == {t \in Tasks : tasks[t].pc = "idle"}
           m == CHOOSE t \in free : TRUE
<1>2. Waiting(v, step, n, FALSE) \in Jobs
  BY DEF Waiting, Jobs, TaskPc, Docs, NoDoc
<1>3. CASE task' = tasks /\ step = "upload"
  BY <1>3
<1>4. CASE free # {} /\ task' = [tasks EXCEPT ![m] = Waiting(v, step, n, FALSE)]
  <2>1. m \in free
    BY <1>4
  <2> QED BY <1>2, <1>4, <2>1
<1> QED BY <1>3, <1>4 DEF Enqueue

-----------------------------------------------------------------------------
(* Steps by what they change.                                               *)

\* A step that has nothing left to do with its document but to say that it failed.
LEMMA TailFits ==
  ASSUME NEW x, NEW d, NEW a, NEW k, NEW rf, x.pc \in {"fail", "finish", "listener", "waiting"},
         x.step # "upload" => d.status \in Past
  PROVE  TaskFits(x, d, a, k, rf)
BY DEF TaskFits, StepFits, CopyFits, UploadFits, ApplyFits, OnlyUpload, OnlyPoll, OnlyApply,
       Uploading, Early

\* What the invariant says of a job that is there.
LEMMA Now ==
  ASSUME VerificationInv, Calm, NEW t \in Tasks, task[t].pc # "idle"
  PROVE  /\ task[t].v \in Requests
         /\ TaskFits(task[t], vjob[task[t].v], accepted[task[t].v], checked[task[t].v], refused)
         /\ DocFits(vjob[task[t].v], accepted[task[t].v], checked[task[t].v])
         /\ Fit
BY DEF VerificationInv, Types, Fit

\* A step that leaves the documents alone.
LEMMA PlainMoves ==
  ASSUME VerificationInv, NEW t \in Tasks, task[t].pc \notin {"idle", "finish"},
         task' \in [Tasks -> Jobs], \A u \in Tasks \ {t} : task'[u] = task[u],
         task'[t].pc # "idle", task'[t].v = task[t].v, task'[t].step = task[t].step,
         UNCHANGED <<vjob, caller, accepted, checked, refused>>,
         pending' \subseteq Contacts, troubles' \in Nat, troubles' >= troubles,
         Calm' => TaskFits(task'[t], vjob[task[t].v], accepted[task[t].v], checked[task[t].v],
                           refused)
  PROVE  VerificationInv'
<1>1. Types'
  BY DEF VerificationInv, Types
<1>2. ASSUME Calm' PROVE Fit'
  <2>1. Calm
    BY <1>2 DEF Calm, VerificationInv, Types
  <2>2. Frame(t) /\ Change(t)
    BY DEF Frame, Change, VerificationInv, Types
  <2>3. Fits(t)
    BY <1>2, <2>1, Now DEF Fits
  <2> QED BY <1>1, <1>2, <2>2, <2>3, Moves
<1> QED BY <1>1, <1>2 DEF VerificationInv

\* A step that saves its document.
LEMMA SaveMoves ==
  ASSUME VerificationInv, NEW t \in Tasks, task[t].pc \notin {"idle", "finish"},
         NEW fields, NEW w \in TaskPc \ {"idle"}, Save(t, fields, w),
         NEW e \in Docs, e = With(task[t].doc, fields),
         NEW d \in Docs, d = With(vjob[task[t].v], fields),
         Calm =>
            /\ \/ vjob[task[t].v].status \notin Past
               \/ d.status \in Past /\ d.batch = vjob[task[t].v].batch
            /\ DocFits(d, accepted[task[t].v], checked[task[t].v])
            /\ \A x \in Jobs : x.pc = w /\ x.step = task[t].step /\ x.doc = e
                   => TaskFits(x, d, accepted[task[t].v], checked[task[t].v], refused)
  PROVE  VerificationInv'
<1>0. task[t].v \in Requests /\ task \in [Tasks -> Jobs] /\ vjob \in [Requests -> Docs]
  BY DEF VerificationInv, Types
<1>1. /\ task' \in [Tasks -> Jobs] /\ vjob' \in [Requests -> Docs]
      /\ \A u \in Tasks \ {t} : task'[u] = task[u]
      /\ task'[t].pc = w /\ task'[t].v = task[t].v /\ task'[t].step = task[t].step
      /\ task'[t].doc = e
      /\ \A r \in Requests \ {task[t].v} : vjob'[r] = vjob[r]
      /\ vjob'[task[t].v] = d
      /\ UNCHANGED <<caller, pending, accepted, checked, refused, troubles>>
  <2> w \in TaskPc
    OBVIOUS
  <2> QED BY <1>0, SaveIs, Zenon
<1>2. Types'
  BY <1>1 DEF VerificationInv, Types
<1>3. ASSUME Calm' PROVE Fit'
  <2>1. Calm
    BY <1>1, <1>3 DEF Calm
  <2>2. Frame(t)
    BY <1>1 DEF Frame, VerificationInv, Types
  <2>3. Change(t)
    BY <1>1, <2>1 DEF Change
  <2>4. task'[t] \in Jobs
    BY <1>1
  <2>5. Fits(t)
    BY <1>1, <2>1, <2>4 DEF Fits
  <2> QED BY <1>2, <1>3, <2>2, <2>3, <2>5, Moves
<1> QED BY <1>2, <1>3 DEF VerificationInv

\* The same, for a job that gives its work to another one.
LEMMA HandsOver ==
  ASSUME NEW t \in Tasks, Finished(t) \in [Tasks -> Jobs], task[t].v \in Requests,
         NEW step \in Steps, NEW n \in Nat, Enqueue(Finished(t), task[t].v, step, n)
  PROVE  \/ task' = Finished(t)
         \/ \E m \in Tasks :
                /\ Finished(t)[m].pc = "idle"
                /\ task' = [Finished(t) EXCEPT ![m] = Waiting(task[t].v, step, n, FALSE)]
BY EnqueueIs

\* And for a request.
LEMMA RequestAdds ==
  ASSUME task \in [Tasks -> Jobs], NEW r \in Requests, Enqueue(task, r, "upload", 0)
  PROVE  \/ task' = task
         \/ \E m \in Tasks : /\ task[m].pc = "idle"
                             /\ task' = [task EXCEPT ![m] = Waiting(r, "upload", 0, FALSE)]
<1>1. "upload" \in Steps /\ 0 \in Nat
  BY DEF Steps
<1> QED BY <1>1, EnqueueIs

\* A step that gives its work to a new job, and ends.
LEMMA PassesOn ==
  ASSUME VerificationInv, NEW t \in Tasks, task[t].pc \notin {"idle", "finish"},
         NEW step \in Steps, NEW n \in Nat,
         Enqueue(Finished(t), task[t].v, step, n),
         UNCHANGED <<vjob, caller, pending, accepted, checked, refused, troubles>>,
         Calm => IF step = "upload" THEN task[t].step = "upload" /\ refused > 0
                 ELSE vjob[task[t].v].status \in Past
  PROVE  VerificationInv'
<1> DEFINE v == task[t].v
<1>0. v \in Requests /\ task \in [Tasks -> Jobs]
  BY DEF VerificationInv, Types
<1>1. /\ Finished(t) \in [Tasks -> Jobs] /\ \A u \in Tasks \ {t} : Finished(t)[u] = task[u]
      /\ Finished(t)[t].pc = "finish" /\ Finished(t)[t].v = v /\ Finished(t)[t].step = task[t].step
  BY <1>0 DEF Jobs, TaskPc, Finished
<1>3. ASSUME Calm PROVE task[t].step # "upload" => vjob[v].status \in Past
  BY <1>3, Now DEF TaskFits
<1>4. CASE task' = Finished(t)
  <2>1. task'[t].pc = "finish" /\ task'[t].v = v /\ task'[t].step = task[t].step
    BY <1>1, <1>4
  <2>2. ASSUME Calm' PROVE TaskFits(task'[t], vjob[v], accepted[v], checked[v], refused)
    <3>1. Calm
      BY <2>2 DEF Calm
    <3> QED BY <1>3, <2>1, <3>1, TailFits
  <2>3. troubles' \in Nat /\ troubles' >= troubles /\ pending' \subseteq Contacts
    BY DEF VerificationInv, Types
  <2> QED BY <1>1, <1>4, <2>1, <2>2, <2>3, PlainMoves
<1>5. ASSUME NEW m \in Tasks, Finished(t)[m].pc = "idle",
             task' = [Finished(t) EXCEPT ![m] = Waiting(v, step, n, FALSE)],
             task' \in [Tasks -> Jobs]
      PROVE  VerificationInv'
  <2>1. /\ m # t /\ task[m].pc = "idle"
        /\ task'[m].pc = "waiting" /\ task'[m].v = v /\ task'[m].step = step
    BY <1>1, <1>5 DEF Waiting
  <2>2. \A u \in Tasks \ {m} :
           \/ task'[u] = task[u]
           \/ /\ task[u].pc # "idle" /\ task'[u].pc = "finish"
              /\ task'[u].v = task[u].v /\ task'[u].step = task[u].step
    BY <1>1, <1>5
  <2>3. Types'
    BY <1>0, <1>5, <2>1, <2>2 DEF VerificationInv, Types
  <2>4. ASSUME Calm' PROVE Fit'
    <3>1. Calm /\ Fit
      BY <2>4 DEF Calm, VerificationInv
    <3>2. caller'[v].pc = "end"
      BY <1>0, <3>1 DEF Fit, Untouched, Live
    <3>3. step = "upload" => \A u \in Tasks : Live(u, v) /\ task[u].step = "upload"
                                  => refused > 0 /\ task'[u].pc = "finish"
      <4> SUFFICES ASSUME step = "upload", NEW u \in Tasks, Live(u, v), task[u].step = "upload"
                   PROVE  refused > 0 /\ task'[u].pc = "finish"
        OBVIOUS
      <4>1. CASE u = t
        BY <1>1, <1>5, <2>1, <3>1, <4>1
      <4>2. CASE u # t
        <5>1. task[u].pc = "finish"
          BY <3>1, <4>2 DEF Fit, OneUpload, Live
        <5> QED BY <1>1, <1>5, <2>1, <3>1, <4>2, <5>1
      <4> QED BY <4>1, <4>2
    <3>4. step # "upload" => vjob[v].status \in Past
      BY <3>1
    <3>5. \A q \in Requests \ {v} : caller'[q] = caller[q]
      OBVIOUS
    <3> QED BY <1>0, <2>1, <2>2, <2>3, <2>4, <3>2, <3>3, <3>4, <3>5, Adds
  <2> QED BY <2>3, <2>4 DEF VerificationInv
<1>6. task' \in [Tasks -> Jobs]
  BY <1>0, <1>1, EnqueueIs
<1>7. \/ task' = Finished(t)
      \/ \E m \in Tasks : /\ Finished(t)[m].pc = "idle"
                          /\ task' = [Finished(t) EXCEPT ![m] = Waiting(v, step, n, FALSE)]
  BY <1>0, <1>1, HandsOver
<1> QED BY <1>4, <1>5, <1>6, <1>7

-----------------------------------------------------------------------------
(* The steps of the worker.                                                 *)

\* A job that is taken up looks at the status first.
LEMMA TakeStepKeeps ==
  ASSUME VerificationInv, NEW t \in Tasks, TakeStep(t)
  PROVE  VerificationInv'
<1> DEFINE v == task[t].v
           d == vjob[v]
           w == FirstPc(task[t].step, d.status)
<1>1. /\ v \in Requests /\ d \in Docs /\ task \in [Tasks -> Jobs]
      /\ task[t].pc = "waiting" /\ task[t].step \in Steps
  BY DEF VerificationInv, Types, TakeStep, At, Jobs
<1>2. w \in {"fail", "saveUploading", "progress", "download", "finish"}
  BY DEF FirstPc
<1>3. task' = [task EXCEPT ![t].doc = d, ![t].pc = w]
  BY DEF TakeStep
<1>4. UNCHANGED <<vjob, caller, accepted, checked, refused, troubles, pending>>
  BY DEF TakeStep, docVars, envVars, provider, KeepHistory
<1> HIDE DEF w, d
<1>5. /\ task' \in [Tasks -> Jobs] /\ \A u \in Tasks \ {t} : task'[u] = task[u]
      /\ task'[t].pc = w /\ task'[t].v = v /\ task'[t].step = task[t].step /\ task'[t].doc = d
  <2>1. w \in TaskPc
    BY <1>2 DEF TaskPc
  <2> QED BY <1>1, <1>3, <2>1 DEF Jobs
<1>6. ASSUME Calm PROVE TaskFits(task'[t], d, accepted[v], checked[v], refused)
  <2>1. /\ task[t].step # "upload" => d.status \in Past
        /\ d.status = "queued" => accepted[v] = 0
    BY <1>1, <1>6, Now DEF TaskFits, DocFits, d
  <2>2. CASE w \in {"fail", "finish"}
    BY <1>5, <2>1, <2>2, TailFits
  <2>3. CASE w = "saveUploading"
    <3>1. task[t].step = "upload" /\ d.status = "queued"
      BY <2>3 DEF w, FirstPc
    <3> QED BY <1>5, <2>1, <2>3, <3>1 DEF TaskFits, StepFits, CopyFits, UploadFits, Uploading,
                                       OnlyUpload, OnlyPoll, OnlyApply
  <2>4. CASE w = "progress"
    <3>1. task[t].step = "poll" /\ d.status = "verifying"
      BY <2>4 DEF w, FirstPc
    <3> QED BY <1>5, <2>4, <3>1 DEF TaskFits, StepFits, CopyFits, Uploading, Past,
                                       OnlyUpload, OnlyPoll, OnlyApply
  <2>5. CASE w = "download"
    <3>1. task[t].step = "apply" /\ d.status = "applying"
      BY <2>5 DEF w, FirstPc
    <3> QED BY <1>5, <2>5, <3>1 DEF TaskFits, StepFits, CopyFits, ApplyFits, Uploading, Past,
                                       OnlyUpload, OnlyPoll, OnlyApply
  <2> QED BY <1>2, <2>2, <2>3, <2>4, <2>5
<1>7. troubles' \in Nat /\ troubles' >= troubles /\ pending' \subseteq Contacts
  BY <1>4 DEF VerificationInv, Types
<1>8. Calm' => Calm
  BY <1>4 DEF Calm
<1> QED BY <1>1, <1>2, <1>4, <1>5, <1>6, <1>7, <1>8, PlainMoves DEF d

\* Steps that only move on, to a point w.
LEMMA GotoKeeps ==
  ASSUME VerificationInv, NEW t \in Tasks, task[t].pc \notin {"idle", "finish"},
         NEW w \in TaskPc \ {"idle"}, Goto(t, w),
         UNCHANGED <<vjob, caller, accepted, checked, refused>>,
         pending' \subseteq Contacts, troubles' \in Nat, troubles' >= troubles,
         Calm /\ Calm' => \A x \in Jobs :
             x.pc = w /\ x.step = task[t].step /\ x.doc = task[t].doc /\ x.left = task[t].left
             => TaskFits(x, vjob[task[t].v], accepted[task[t].v], checked[task[t].v], refused)
  PROVE  VerificationInv'
<1>1. task \in [Tasks -> Jobs]
  BY DEF VerificationInv, Types
<1>2. /\ task' \in [Tasks -> Jobs] /\ \A u \in Tasks \ {t} : task'[u] = task[u]
      /\ task'[t].pc = w /\ task'[t].v = task[t].v /\ task'[t].step = task[t].step
      /\ task'[t].doc = task[t].doc /\ task'[t].left = task[t].left
  BY <1>1, GotoIs
<1>3. Calm' => Calm
  BY DEF Calm, VerificationInv, Types
<1>4. task'[t] \in Jobs
  BY <1>2
<1> QED BY <1>2, <1>3, <1>4, PlainMoves

\* An error of the step: what follows, and that it fits where it is not to be repeated.
LEMMA ErrorIs ==
  ASSUME NEW x \in Jobs, NEW transient \in BOOLEAN
  PROVE  /\ AfterError(x, transient) \in {"retry", "giveBack", "fail"}
         /\ AfterError(x, transient) = "giveBack" => x.doc.status = "queued"
         /\ ~transient => AfterError(x, transient) # "retry"
         /\ x.step = "upload" /\ x.doc.status = "uploading" => AfterError(x, transient) = "fail"
         /\ x.doc.status = "queued" => AfterError(x, transient) # "fail"
BY DEF AfterError

\* "giveBack" and "retry" of an upload, of a document that was not accepted.
LEMMA QueuedFits ==
  ASSUME NEW x, NEW d, NEW a, NEW k, NEW rf, x.step = "upload", x.doc.status = "queued", a = 0,
         x.pc = "giveBack" \/ (x.pc = "retry" /\ rf > 0)
  PROVE  TaskFits(x, d, a, k, rf)
BY DEF TaskFits, StepFits, CopyFits, UploadFits, ApplyFits, OnlyUpload, OnlyPoll, OnlyApply,
       Uploading, Early

\* "retry" of the other steps.
LEMMA RetryFits ==
  ASSUME NEW x, NEW d, NEW a, NEW k, NEW rf, x.step # "upload", x.pc = "retry",
         d.status \in Past
  PROVE  TaskFits(x, d, a, k, rf)
BY DEF TaskFits, StepFits, CopyFits, UploadFits, ApplyFits, OnlyUpload, OnlyPoll, OnlyApply,
       Uploading, Early

\* The types of a job, for the steps below.
LEMMA Typed ==
  ASSUME VerificationInv, NEW t \in Tasks
  PROVE  /\ task \in [Tasks -> Jobs] /\ vjob \in [Requests -> Docs]
         /\ task[t] \in Jobs /\ task[t].doc \in Docs
         /\ task[t].pc # "idle" => task[t].v \in Requests /\ vjob[task[t].v] \in Docs
         /\ pending \subseteq Contacts /\ refused \in Nat /\ troubles \in Nat
         /\ accepted \in [Requests -> Nat] /\ checked \in [Requests -> SUBSET Contacts]
BY DEF VerificationInv, Types, Jobs

\* The end of a step leaves its document.
LEMMA FinishKeeps ==
  ASSUME VerificationInv, NEW t \in Tasks, Finish(t)
  PROVE  VerificationInv'
<1>1. NoTask \in Jobs /\ NoTask.pc = "idle"
  BY DEF NoTask, Jobs, TaskPc, Steps, Docs, NoDoc
<1>2. task' = [task EXCEPT ![t] = NoTask] /\ task[t].pc = "finish"
  BY DEF Finish, At
<1>3. UNCHANGED <<vjob, caller, accepted, checked, refused, troubles, pending>>
  BY DEF Finish, docVars, envVars, provider, KeepHistory
<1>4. Types'
  BY <1>1, <1>2, <1>3 DEF VerificationInv, Types
<1>5. ASSUME Calm' PROVE Fit'
  <2>1. Calm
    BY <1>3, <1>5 DEF Calm
  <2>2. Frame(t) /\ Change(t)
    BY <1>1, <1>2, <1>3, Typed DEF Frame, Change
  <2>3. Fits(t)
    BY <1>1, <1>2, <1>3, <2>1, Now, Typed DEF Fits
  <2> QED BY <1>2, <1>4, <1>5, <2>2, <2>3, Moves
<1> QED BY <1>4, <1>5 DEF VerificationInv

\* Giving back what a shorter list does not need leaves the document's place.
LEMMA ReleaseUnusedKeeps ==
  ASSUME VerificationInv, NEW t \in Tasks, ReleaseUnused(t)
  PROVE  VerificationInv'
<1> DEFINE w == AfterRead(task[t].doc.batch)
<1>1. task[t].pc = "releaseUnused" /\ Goto(t, w) /\ w \in {"saveEmpty", "upload"}
  BY DEF ReleaseUnused, Release, At, AfterRead
<1>2. UNCHANGED <<vjob, caller, accepted, checked, refused, troubles, pending>>
  BY DEF ReleaseUnused, Release, docVars, envVars, provider, KeepHistory
<1> HIDE DEF w
<1>3. ASSUME Calm, NEW x \in Jobs, x.pc = w, x.step = task[t].step, x.doc = task[t].doc
      PROVE  TaskFits(x, vjob[task[t].v], accepted[task[t].v], checked[task[t].v], refused)
  <2>1. TaskFits(task[t], vjob[task[t].v], accepted[task[t].v], checked[task[t].v], refused)
    BY <1>1, <1>3, Now
  <2> QED BY <1>1, <1>3, <2>1 DEF TaskFits, StepFits, CopyFits, UploadFits, OnlyUpload, OnlyPoll,
                                  OnlyApply, Uploading, Early
<1> QED BY <1>1, <1>2, <1>3, Typed, GotoKeeps DEF TaskPc

\* Giving back what the provider did not verify comes after the verdicts.
LEMMA ReleaseUnknownKeeps ==
  ASSUME VerificationInv, NEW t \in Tasks, ReleaseUnknown(t)
  PROVE  VerificationInv'
<1>1. task[t].pc = "releaseUnknown" /\ Goto(t, "saveDone")
  BY DEF ReleaseUnknown, Release, At
<1>2. UNCHANGED <<vjob, caller, accepted, checked, refused, troubles, pending>>
  BY DEF ReleaseUnknown, Release, docVars, envVars, provider, KeepHistory
<1>3. ASSUME Calm, NEW x \in Jobs, x.pc = "saveDone", x.step = task[t].step, x.doc = task[t].doc
      PROVE  TaskFits(x, vjob[task[t].v], accepted[task[t].v], checked[task[t].v], refused)
  <2>1. TaskFits(task[t], vjob[task[t].v], accepted[task[t].v], checked[task[t].v], refused)
    BY <1>1, <1>3, Now
  <2> QED BY <1>1, <1>3, <2>1 DEF TaskFits, StepFits, CopyFits, ApplyFits, OnlyUpload, OnlyPoll,
                                  OnlyApply, Uploading, Early
<1> QED BY <1>1, <1>2, <1>3, Typed, GotoKeeps DEF TaskPc

\* The list is deleted at the provider when its document is done.
LEMMA DeleteListKeeps ==
  ASSUME VerificationInv, NEW t \in Tasks, DeleteList(t)
  PROVE  VerificationInv'
<1>1. task[t].pc = "deleteList" /\ Goto(t, "finish")
  BY DEF DeleteList, At
<1>2. UNCHANGED <<vjob, caller, accepted, checked, refused, troubles, pending>>
  BY DEF DeleteList, docVars, envVars, KeepHistory
<1>3. ASSUME Calm, NEW x \in Jobs, x.pc = "finish", x.step = task[t].step
      PROVE  TaskFits(x, vjob[task[t].v], accepted[task[t].v], checked[task[t].v], refused)
  <2>1. TaskFits(task[t], vjob[task[t].v], accepted[task[t].v], checked[task[t].v], refused)
    BY <1>1, <1>3, Now
  <2> QED BY <1>3, <2>1, TailFits DEF TaskFits
<1> QED BY <1>1, <1>2, <1>3, Typed, GotoKeeps DEF TaskPc

\* GiveBack and Refund: the copy of the document holds nothing any more.
LEMMA GiveBackKeeps ==
  ASSUME VerificationInv, NEW t \in Tasks, GiveBack(t) \/ Refund(t)
  PROVE  VerificationInv'
<1> DEFINE e == With(task[t].doc, [reserved |-> 0])
<1>1. task[t].pc \in {"giveBack", "refund"}
  BY DEF GiveBack, Refund, At
<1>2. task' = [task EXCEPT ![t].doc = e, ![t].pc = "fail"]
  BY Typed DEF GiveBack, Refund
<1>3. UNCHANGED <<vjob, caller, accepted, checked, refused, troubles, pending>>
  BY DEF GiveBack, Refund, docVars, envVars, provider, KeepHistory
<1>4. e \in Docs
  BY Typed, WithHeld
<1> HIDE DEF e
<1>5. /\ task' \in [Tasks -> Jobs] /\ \A u \in Tasks \ {t} : task'[u] = task[u]
      /\ task'[t].pc = "fail" /\ task'[t].v = task[t].v /\ task'[t].step = task[t].step
  BY <1>2, <1>4, Typed, CopyIs DEF TaskPc
<1>6. ASSUME Calm
      PROVE  TaskFits(task'[t], vjob[task[t].v], accepted[task[t].v], checked[task[t].v], refused)
  <2>1. TaskFits(task[t], vjob[task[t].v], accepted[task[t].v], checked[task[t].v], refused)
    BY <1>1, <1>6, Now
  <2>2. task[t].step # "upload" => vjob[task[t].v].status \in Past
    BY <2>1 DEF TaskFits
  <2> QED BY <1>5, <2>2, TailFits
<1>7. Calm' => Calm
  BY <1>3 DEF Calm
<1>8. troubles' \in Nat /\ troubles' >= troubles /\ pending' \subseteq Contacts
  BY <1>3, Typed
<1> QED BY <1>1, <1>3, <1>5, <1>6, <1>7, <1>8, PlainMoves

\* The upload reads the contacts anew: the copy gets its list before the provider does.
LEMMA ReadPendingKeeps ==
  ASSUME VerificationInv, NEW t \in Tasks, ReadPending(t)
  PROVE  VerificationInv'
<1> DEFINE w == IF task[t].doc.reserved > Cardinality(pending) THEN "releaseUnused"
                ELSE AfterRead(pending)
           e == With(task[t].doc, [batch |-> pending])
<1>1. task[t].pc = "read" /\ task' = [task EXCEPT ![t].doc = e, ![t].pc = w]
  BY DEF ReadPending, At
<1>2. UNCHANGED <<vjob, caller, accepted, checked, refused, troubles, pending>>
  BY DEF ReadPending, docVars, envVars, provider, KeepHistory
<1>3. w \in {"releaseUnused", "saveEmpty", "upload"}
  BY DEF AfterRead
<1>0. e \in Docs /\ e.status = task[t].doc.status
  BY Typed, WithBatch
<1> HIDE DEF w, e
<1>4. /\ task' \in [Tasks -> Jobs] /\ \A u \in Tasks \ {t} : task'[u] = task[u]
      /\ task'[t].pc = w /\ task'[t].v = task[t].v /\ task'[t].step = task[t].step
      /\ task'[t].doc.status = task[t].doc.status
  <2>1. w \in TaskPc
    BY <1>3 DEF TaskPc
  <2>2. e \in Docs /\ task \in [Tasks -> Jobs]
        /\ task' = [task EXCEPT ![t].doc = e, ![t].pc = w]
    BY <1>0, <1>1, Typed
  <2>3. /\ task' \in [Tasks -> Jobs] /\ \A u \in Tasks \ {t} : task'[u] = task[u]
        /\ task'[t].pc = w /\ task'[t].v = task[t].v /\ task'[t].step = task[t].step
        /\ task'[t].doc = e
    BY <2>1, <2>2 DEF Jobs
  <2> QED BY <1>0, <2>3
<1>5. ASSUME Calm
      PROVE  TaskFits(task'[t], vjob[task[t].v], accepted[task[t].v], checked[task[t].v], refused)
  <2>1. TaskFits(task[t], vjob[task[t].v], accepted[task[t].v], checked[task[t].v], refused)
    BY <1>1, <1>5, Now
  <2>2. task[t].step = "upload" /\ task[t].doc.status = "uploading"
        /\ vjob[task[t].v].status = "uploading" /\ accepted[task[t].v] = 0
    BY <1>1, <2>1 DEF TaskFits, StepFits, CopyFits, UploadFits, OnlyUpload, Uploading, Early
  <2> QED BY <1>3, <1>4, <2>2 DEF TaskFits, StepFits, CopyFits, UploadFits, OnlyUpload, OnlyPoll,
                                  OnlyApply, Uploading, Early
<1>6. Calm' => Calm
  BY <1>2 DEF Calm
<1>7. troubles' \in Nat /\ troubles' >= troubles /\ pending' \subseteq Contacts
  BY <1>2, Typed
<1>8. task'[t].pc # "idle"
  BY <1>3, <1>4
<1>9. task[t].pc \notin {"idle", "finish"}
  BY <1>1
<1> QED BY <1>2, <1>4, <1>5, <1>6, <1>7, <1>8, <1>9, PlainMoves

-----------------------------------------------------------------------------
(* The saves.                                                               *)
LEMMA SaveUploadingKeeps ==
  ASSUME VerificationInv, NEW t \in Tasks, SaveUploading(t)
  PROVE  VerificationInv'
<1> DEFINE fields == [status |-> "uploading"]
           v == task[t].v
           e == With(task[t].doc, fields)
           d == With(vjob[v], fields)
<1>1. task[t].pc = "saveUploading" /\ Save(t, fields, "read")
  BY DEF SaveUploading, At
<1>2. /\ e \in Docs /\ e.status = "uploading"
      /\ d \in Docs /\ d.status = "uploading"
  BY <1>1, Typed, WithStatus DEF Active
<1>3. ASSUME Calm
      PROVE  /\ vjob[v].status \notin Past
             /\ DocFits(d, accepted[v], checked[v])
             /\ \A x \in Jobs : x.pc = "read" /\ x.step = task[t].step /\ x.doc = e
                    => TaskFits(x, d, accepted[v], checked[v], refused)
  <2>1. TaskFits(task[t], vjob[v], accepted[v], checked[v], refused)
    BY <1>1, <1>3, Now
  <2>2. task[t].step = "upload" /\ vjob[v].status = "queued" /\ accepted[v] = 0
    BY <1>1, <2>1 DEF TaskFits, StepFits, UploadFits, OnlyUpload, Early
  <2> QED BY <1>2, <2>2 DEF DocFits, TaskFits, StepFits, CopyFits, UploadFits, OnlyUpload, OnlyPoll,
                            OnlyApply, Uploading, Early, Past
<1>4. "read" \in TaskPc \ {"idle"} /\ task[t].pc \notin {"idle", "finish"}
  BY <1>1 DEF TaskPc
<1> HIDE DEF e, d, fields
<1> QED BY <1>1, <1>2, <1>3, <1>4, SaveMoves DEF e, d

\* A list nobody is left in is done without an upload.
LEMMA SaveEmptyKeeps ==
  ASSUME VerificationInv, NEW t \in Tasks, SaveEmpty(t)
  PROVE  VerificationInv'
<1> DEFINE fields == [status |-> "done", reserved |-> 0, batch |-> {}]
           v == task[t].v
           e == With(task[t].doc, fields)
           d == With(vjob[v], fields)
<1>1. task[t].pc = "saveEmpty" /\ Save(t, fields, "finish")
  BY DEF SaveEmpty, At
<1>2. /\ e \in Docs /\ e.status = "done"
      /\ d \in Docs /\ d.status = "done" /\ d.batch = {}
  <2>1. "done" \in {"none"} \cup Active \cup Ended /\ {} \in SUBSET Contacts /\ 0 \in Int
    BY DEF Ended
  <2>2. task[t].doc \in Docs /\ vjob[v] \in Docs
    BY <1>1, Typed
  <2>3. e \in Docs /\ e.status = "done"
    BY <2>1, <2>2, WithAll
  <2>4. d \in Docs /\ d.status = "done" /\ d.batch = {}
    BY <2>1, <2>2, WithAll
  <2> QED BY <2>3, <2>4
<1>3. ASSUME Calm
      PROVE  /\ vjob[v].status \notin Past
             /\ DocFits(d, accepted[v], checked[v])
             /\ \A x \in Jobs : x.pc = "finish" /\ x.step = task[t].step /\ x.doc = e
                    => TaskFits(x, d, accepted[v], checked[v], refused)
  <2>1. /\ TaskFits(task[t], vjob[v], accepted[v], checked[v], refused)
        /\ DocFits(vjob[v], accepted[v], checked[v])
    BY <1>1, <1>3, Now
  <2>2. task[t].step = "upload" /\ vjob[v].status = "uploading" /\ accepted[v] = 0
    BY <1>1, <2>1 DEF TaskFits, StepFits, UploadFits, OnlyUpload, Early, Uploading
  <2> QED BY <1>2, <2>1, <2>2 DEF DocFits, TaskFits, StepFits, CopyFits, UploadFits, ApplyFits,
                            OnlyUpload, OnlyPoll, OnlyApply, Uploading, Early, Past
<1>4. "finish" \in TaskPc \ {"idle"} /\ task[t].pc \notin {"idle", "finish"}
  BY <1>1 DEF TaskPc
<1> HIDE DEF e, d, fields
<1> QED BY <1>1, <1>2, <1>3, <1>4, SaveMoves DEF e, d

\* The upload is recorded after the provider accepted it.
LEMMA SaveVerifyingKeeps ==
  ASSUME VerificationInv, NEW t \in Tasks, SaveVerifying(t)
  PROVE  VerificationInv'
<1> DEFINE fields == [status |-> "verifying", reserved |-> Cardinality(task[t].doc.batch),
                       batch |-> task[t].doc.batch]
           v == task[t].v
           e == With(task[t].doc, fields)
           d == With(vjob[v], fields)
<1>1. task[t].pc = "saveVerifying" /\ Save(t, fields, "enqueuePoll")
  BY DEF SaveVerifying, At
<1>2. /\ e \in Docs /\ e.status = "verifying"
      /\ d \in Docs /\ d.status = "verifying"
  <2>1. task[t].doc.batch \in SUBSET Contacts
    BY Typed DEF Docs
  <2>2. Cardinality(task[t].doc.batch) \in Int
    BY <2>1, VerificationAssumption, FS_Subset, FS_CardinalityType
  <2>3. "verifying" \in {"none"} \cup Active \cup Ended
    BY DEF Active
  <2>4. task[t].doc \in Docs /\ vjob[v] \in Docs
    BY <1>1, Typed
  <2>5. e \in Docs /\ e.status = "verifying"
    BY <2>1, <2>2, <2>3, <2>4, WithAll
  <2>6. d \in Docs /\ d.status = "verifying"
    BY <2>1, <2>2, <2>3, <2>4, WithAll
  <2> QED BY <2>5, <2>6
<1>3. ASSUME Calm
      PROVE  /\ vjob[v].status \notin Past
             /\ DocFits(d, accepted[v], checked[v])
             /\ \A x \in Jobs : x.pc = "enqueuePoll" /\ x.step = task[t].step /\ x.doc = e
                    => TaskFits(x, d, accepted[v], checked[v], refused)
  <2>1. /\ TaskFits(task[t], vjob[v], accepted[v], checked[v], refused)
        /\ DocFits(vjob[v], accepted[v], checked[v])
    BY <1>1, <1>3, Now
  <2>2. task[t].step = "upload" /\ vjob[v].status = "uploading"
    BY <1>1, <2>1 DEF TaskFits, StepFits, UploadFits, OnlyUpload, Uploading
  <2> QED BY <1>2, <2>1, <2>2 DEF DocFits, TaskFits, StepFits, CopyFits, UploadFits, ApplyFits,
                            OnlyUpload, OnlyPoll, OnlyApply, Uploading, Early, Past
<1>4. "enqueuePoll" \in TaskPc \ {"idle"} /\ task[t].pc \notin {"idle", "finish"}
  BY <1>1 DEF TaskPc
<1> HIDE DEF e, d, fields
<1> QED BY <1>1, <1>2, <1>3, <1>4, SaveMoves DEF e, d

\* The poll hands over to the apply step.
LEMMA SaveApplyingKeeps ==
  ASSUME VerificationInv, NEW t \in Tasks, SaveApplying(t)
  PROVE  VerificationInv'
<1> DEFINE fields == [status |-> "applying"]
           v == task[t].v
           e == With(task[t].doc, fields)
           d == With(vjob[v], fields)
<1>1. task[t].pc = "saveApplying" /\ Save(t, fields, "enqueueApply")
  BY DEF SaveApplying, At
<1>2. /\ e \in Docs /\ e.status = "applying"
      /\ d \in Docs /\ d.status = "applying" /\ d.batch = vjob[v].batch
  BY <1>1, Typed, WithStatus DEF Active
<1>3. ASSUME Calm
      PROVE  /\ d.status \in Past /\ d.batch = vjob[v].batch
             /\ DocFits(d, accepted[v], checked[v])
             /\ \A x \in Jobs : x.pc = "enqueueApply" /\ x.step = task[t].step /\ x.doc = e
                    => TaskFits(x, d, accepted[v], checked[v], refused)
  <2>1. /\ TaskFits(task[t], vjob[v], accepted[v], checked[v], refused)
        /\ DocFits(vjob[v], accepted[v], checked[v])
    BY <1>1, <1>3, Now
  <2>2. task[t].step = "poll"
    BY <1>1, <2>1 DEF TaskFits, StepFits, OnlyPoll
  <2> QED BY <1>2, <2>1, <2>2 DEF DocFits, TaskFits, StepFits, CopyFits, UploadFits, ApplyFits,
                            OnlyUpload, OnlyPoll, OnlyApply, Uploading, Early, Past
<1>4. "enqueueApply" \in TaskPc \ {"idle"} /\ task[t].pc \notin {"idle", "finish"}
  BY <1>1 DEF TaskPc
<1> HIDE DEF e, d, fields
<1> QED BY <1>1, <1>2, <1>3, <1>4, SaveMoves DEF e, d

\* Done is saved by the step that wrote the last verdict.
LEMMA SaveDoneKeeps ==
  ASSUME VerificationInv, NEW t \in Tasks, SaveDone(t)
  PROVE  VerificationInv'
<1> DEFINE fields == [status |-> "done"]
           v == task[t].v
           e == With(task[t].doc, fields)
           d == With(vjob[v], fields)
<1>1. task[t].pc = "saveDone" /\ Save(t, fields, "deleteList")
  BY DEF SaveDone, At
<1>2. /\ e \in Docs /\ e.status = "done"
      /\ d \in Docs /\ d.status = "done" /\ d.batch = vjob[v].batch
  BY <1>1, Typed, WithStatus DEF Ended
<1>3. ASSUME Calm
      PROVE  /\ d.status \in Past /\ d.batch = vjob[v].batch
             /\ DocFits(d, accepted[v], checked[v])
             /\ \A x \in Jobs : x.pc = "deleteList" /\ x.step = task[t].step /\ x.doc = e
                    => TaskFits(x, d, accepted[v], checked[v], refused)
  <2>1. /\ TaskFits(task[t], vjob[v], accepted[v], checked[v], refused)
        /\ DocFits(vjob[v], accepted[v], checked[v])
    BY <1>1, <1>3, Now
  <2>2. task[t].step = "apply" /\ vjob[v].batch \subseteq checked[v]
    BY <1>1, <2>1 DEF TaskFits, StepFits, ApplyFits, OnlyApply
  <2> QED BY <1>2, <2>1, <2>2 DEF DocFits, TaskFits, StepFits, CopyFits, UploadFits, ApplyFits,
                            OnlyUpload, OnlyPoll, OnlyApply, Uploading, Early, Past
<1>4. "deleteList" \in TaskPc \ {"idle"} /\ task[t].pc \notin {"idle", "finish"}
  BY <1>1 DEF TaskPc
<1> HIDE DEF e, d, fields
<1> QED BY <1>1, <1>2, <1>3, <1>4, SaveMoves DEF e, d

\* A document that fails leaves its steps nothing to do.
LEMMA FailKeeps ==
  ASSUME VerificationInv, NEW t \in Tasks, Fail(t)
  PROVE  VerificationInv'
<1> DEFINE fields == [status |-> "failed", reserved |-> IF task[t].doc.reserved = 0 THEN 0
                                                       ELSE vjob[task[t].v].reserved]
           v == task[t].v
           e == With(task[t].doc, fields)
           d == With(vjob[v], fields)
<1>1. task[t].pc = "fail" /\ Save(t, fields, "finish")
  BY DEF Fail, At
<1>2. /\ e \in Docs /\ e.status = "failed"
      /\ d \in Docs /\ d.status = "failed" /\ d.batch = vjob[v].batch
  <2>1. fields.reserved \in Int /\ fields = [status |-> "failed", reserved |-> fields.reserved]
    BY <1>1, Typed DEF Docs
  <2> QED BY <1>1, <2>1, Typed, WithReserved DEF Ended
<1>3. ASSUME Calm
      PROVE  /\ \/ vjob[v].status \notin Past
                \/ d.status \in Past /\ d.batch = vjob[v].batch
             /\ DocFits(d, accepted[v], checked[v])
             /\ \A x \in Jobs : x.pc = "finish" /\ x.step = task[t].step /\ x.doc = e
                    => TaskFits(x, d, accepted[v], checked[v], refused)
  <2>1. /\ TaskFits(task[t], vjob[v], accepted[v], checked[v], refused)
        /\ DocFits(vjob[v], accepted[v], checked[v])
    BY <1>1, <1>3, Now
  <2>2. task[t].step # "upload" => vjob[v].status \in Past
    BY <2>1 DEF TaskFits
  <2> QED BY <1>2, <2>1, <2>2 DEF DocFits, TaskFits, StepFits, CopyFits, UploadFits, ApplyFits,
                            OnlyUpload, OnlyPoll, OnlyApply, Uploading, Early, Past
<1>4. "finish" \in TaskPc \ {"idle"} /\ task[t].pc \notin {"idle", "finish"}
  BY <1>1 DEF TaskPc
<1> HIDE DEF e, d, fields
<1> QED BY <1>1, <1>2, <1>3, <1>4, SaveMoves DEF e, d

\* A refused upload goes back to the queue with nothing accepted.
LEMMA SaveQueuedKeeps ==
  ASSUME VerificationInv, NEW t \in Tasks, SaveQueued(t)
  PROVE  VerificationInv'
<1> DEFINE fields == [status |-> "queued"]
           v == task[t].v
           e == With(task[t].doc, fields)
           d == With(vjob[v], fields)
           w == AfterError(task[t], TRUE)
<1>1. task[t].pc = "saveQueued" /\ Save(t, fields, w)
  BY DEF SaveQueued, At
<1>2. /\ e \in Docs /\ e.status = "queued"
      /\ d \in Docs /\ d.status = "queued"
  BY <1>1, Typed, WithStatus DEF Active
<1>3. /\ w \in {"retry", "giveBack", "fail"}
      /\ task[t].doc.status = "queued" => w # "fail"
  BY Typed, ErrorIs
<1>4. w \in TaskPc \ {"idle"} /\ task[t].pc \notin {"idle", "finish"}
  BY <1>1, <1>3 DEF TaskPc
<1> HIDE DEF e, d, fields, w
<1>5. ASSUME Calm
      PROVE  /\ vjob[v].status \notin Past
             /\ DocFits(d, accepted[v], checked[v])
             /\ \A x \in Jobs : x.pc = w /\ x.step = task[t].step /\ x.doc = e
                    => TaskFits(x, d, accepted[v], checked[v], refused)
  <2>1. TaskFits(task[t], vjob[v], accepted[v], checked[v], refused)
    BY <1>1, <1>5, Now
  <2>2. /\ task[t].step = "upload" /\ vjob[v].status = "uploading" /\ accepted[v] = 0
        /\ task[t].doc.status = "queued" /\ refused > 0
    BY <1>1, <2>1 DEF TaskFits, StepFits, CopyFits, UploadFits, OnlyUpload, Early, Uploading
  <2>3. DocFits(d, accepted[v], checked[v])
    BY <1>2, <2>2 DEF DocFits
  <2>4. ASSUME NEW x \in Jobs, x.pc = w, x.step = task[t].step, x.doc = e
        PROVE  TaskFits(x, d, accepted[v], checked[v], refused)
    BY <1>2, <1>3, <2>2, <2>4, QueuedFits
  <2> QED BY <2>2, <2>3, <2>4 DEF Past
<1> QED BY <1>1, <1>2, <1>4, <1>5, SaveMoves DEF e, d

-----------------------------------------------------------------------------
(* The steps that add a job.                                                *)
LEMMA EnqueuePollKeeps ==
  ASSUME VerificationInv, NEW t \in Tasks, EnqueuePoll(t)
  PROVE  VerificationInv'
<1>1. task[t].pc = "enqueuePoll" /\ Enqueue(Finished(t), task[t].v, "poll", 0)
  BY DEF EnqueuePoll, At
<1>2. UNCHANGED <<vjob, caller, accepted, checked, refused, troubles, pending>>
  BY DEF EnqueuePoll, docVars, envVars, provider, KeepHistory
<1>3. ASSUME Calm PROVE vjob[task[t].v].status \in Past
  BY <1>1, <1>3, Now DEF TaskFits, UploadFits
<1>4. "poll" \in Steps /\ 0 \in Nat
  BY DEF Steps
<1> QED BY <1>1, <1>2, <1>3, <1>4, PassesOn

\* The apply step finds its document applying, or past it.
LEMMA EnqueueApplyKeeps ==
  ASSUME VerificationInv, NEW t \in Tasks, EnqueueApply(t)
  PROVE  VerificationInv'
<1>1. task[t].pc = "enqueueApply" /\ Enqueue(Finished(t), task[t].v, "apply", 0)
  BY DEF EnqueueApply, At
<1>2. UNCHANGED <<vjob, caller, accepted, checked, refused, troubles, pending>>
  BY DEF EnqueueApply, docVars, envVars, provider, KeepHistory
<1>3. ASSUME Calm PROVE vjob[task[t].v].status \in Past
  BY <1>1, <1>3, Now DEF TaskFits, StepFits, OnlyPoll
<1>4. "apply" \in Steps /\ 0 \in Nat
  BY DEF Steps
<1> QED BY <1>1, <1>2, <1>3, <1>4, PassesOn

\* An attempt that failed starts over with the copy it began with.
LEMMA RetryKeeps ==
  ASSUME VerificationInv, NEW t \in Tasks, Retry(t)
  PROVE  VerificationInv'
<1> DEFINE n == task[t].attempt + 1
<1>1. task[t].pc = "retry" /\ Enqueue(Finished(t), task[t].v, task[t].step, n)
  BY DEF Retry, At
<1>2. UNCHANGED <<vjob, caller, accepted, checked, refused, troubles, pending>>
  BY DEF Retry, docVars, envVars, provider, KeepHistory
<1>3. ASSUME Calm PROVE IF task[t].step = "upload" THEN refused > 0
                        ELSE vjob[task[t].v].status \in Past
  BY <1>1, <1>3, Now DEF TaskFits, CopyFits
<1>4. task[t].step \in Steps /\ n \in Nat
  BY Typed DEF Jobs
<1> QED BY <1>1, <1>2, <1>3, <1>4, PassesOn

-----------------------------------------------------------------------------
(* The round trips to the provider.                                         *)

\* The upload: accepted once, as nothing of the document is under way but this job.
LEMMA UploadListKeeps ==
  ASSUME VerificationInv, NEW t \in Tasks, UploadList(t)
  PROVE  VerificationInv'
<1> DEFINE v == task[t].v
<1>1. task[t].pc = "upload" /\ v \in Requests /\ accepted \in [Requests -> Nat] /\ refused \in Nat
  BY Typed DEF UploadList, At
<1>2. UNCHANGED <<vjob, caller, checked, troubles, pending>>
  BY DEF UploadList, docVars, envVars
<1>3. ASSUME Calm
      PROVE  /\ task[t].step = "upload" /\ task[t].doc.status = "uploading"
             /\ vjob[v].status = "uploading" /\ accepted[v] = 0
    BY <1>1, <1>3, Now DEF TaskFits, StepFits, CopyFits, UploadFits, OnlyUpload, Early, Uploading
<1>4. ASSUME NEW w \in {"saveVerifying", "retry", "giveBack", "fail"}, Goto(t, w),
             Calm => w \in {"saveVerifying", "fail"},
             accepted' = [accepted EXCEPT ![v] = @ + 1], refused' = refused
      PROVE  VerificationInv'
  <2>1. w \in TaskPc
    BY <1>4 DEF TaskPc
  <2>2. /\ task' \in [Tasks -> Jobs] /\ \A u \in Tasks \ {t} : task'[u] = task[u]
        /\ task'[t].pc = w /\ task'[t].v = v /\ task'[t].step = task[t].step
        /\ task'[t].doc = task[t].doc
    BY <1>4, <2>1, Typed, GotoIs
  <2>3. /\ accepted' \in [Requests -> Nat] /\ accepted'[v] = accepted[v] + 1
        /\ \A r \in Requests \ {v} : accepted'[r] = accepted[r]
    BY <1>1, <1>4
  <2>4. Types'
    BY <1>1, <1>2, <1>4, <2>2, <2>3 DEF VerificationInv, Types
  <2>5. ASSUME Calm' PROVE Fit'
    <3>1. Calm
      BY <1>2, <1>4, <2>5 DEF Calm
    <3>2. w \in {"saveVerifying", "fail"} /\ accepted'[v] = 1
      BY <1>3, <1>4, <2>3, <3>1
    <3>3. Frame(t)
      BY <1>1, <1>2, <1>4, <2>2, <2>3, Typed DEF Frame
    <3>4. Change(t)
      BY <1>1, <1>2, <1>3, <3>1, <3>2 DEF Change, Early
    <3>5. TaskFits(task'[t], vjob'[v], accepted'[v], checked'[v], refused')
      BY <1>2, <1>3, <2>2, <3>1, <3>2 DEF TaskFits, StepFits, CopyFits, UploadFits, ApplyFits,
         OnlyUpload, OnlyPoll, OnlyApply, Uploading, Early
    <3>6. Fits(t)
      BY <1>2, <1>3, <2>2, <3>1, <3>2, <3>5 DEF Fits, DocFits
    <3> QED BY <1>1, <2>4, <2>5, <3>3, <3>4, <3>6, Moves
  <2> QED BY <2>4, <2>5 DEF VerificationInv
<1>5. ASSUME NEW transient \in BOOLEAN
      PROVE  /\ AfterError(task[t], transient) \in {"saveVerifying", "retry", "giveBack", "fail"}
             /\ Calm => AfterError(task[t], transient) = "fail"
  BY <1>3, Typed, ErrorIs
<1>6. CASE accepted' = [accepted EXCEPT ![v] = @ + 1] /\ Goto(t, "saveVerifying") /\ UNCHANGED refused
  BY <1>4, <1>6
<1>7. CASE /\ accepted' = [accepted EXCEPT ![v] = @ + 1]
           /\ Goto(t, AfterError(task[t], TRUE)) /\ UNCHANGED refused
  BY <1>4, <1>5, <1>7
<1>8. CASE Goto(t, AfterError(task[t], FALSE)) /\ UNCHANGED <<provider, refused>>
  <2> DEFINE w == AfterError(task[t], FALSE)
  <2>1. w \in TaskPc \ {"idle"} /\ (Calm => w = "fail")
    BY <1>5 DEF TaskPc
  <2>2. Goto(t, w)
    BY <1>8
  <2> HIDE DEF w
  <2>3. ASSUME Calm, NEW x \in Jobs, x.pc = w, x.step = task[t].step
        PROVE  TaskFits(x, vjob[v], accepted[v], checked[v], refused)
    BY <1>3, <2>1, <2>3, TailFits
  <2>4. UNCHANGED <<vjob, caller, accepted, checked, refused>>
    BY <1>2, <1>8 DEF provider
  <2>5. troubles' \in Nat /\ troubles' >= troubles /\ pending' \subseteq Contacts
    BY <1>2, Typed
  <2> QED BY <1>1, <2>1, <2>2, <2>3, <2>4, <2>5, GotoKeeps
<1>9. CASE /\ task' = [task EXCEPT ![t].doc = With(@, [status |-> "queued"]), ![t].pc = "saveQueued"]
           /\ refused' = refused + 1 /\ UNCHANGED provider
  <2> DEFINE e == With(task[t].doc, [status |-> "queued"])
  <2>1. e \in Docs /\ e.status = "queued"
    BY Typed, WithStatus DEF Active
  <2>2. task' = [task EXCEPT ![t].doc = e, ![t].pc = "saveQueued"]
    BY <1>9, Typed
  <2> HIDE DEF e
  <2>3. /\ task' \in [Tasks -> Jobs] /\ \A u \in Tasks \ {t} : task'[u] = task[u]
        /\ task'[t].pc = "saveQueued" /\ task'[t].v = v /\ task'[t].step = task[t].step
        /\ task'[t].doc = e
    BY <2>1, <2>2, Typed DEF Jobs, TaskPc
  <2>4. accepted' = accepted /\ refused' = refused + 1
    BY <1>9 DEF provider
  <2>5. Types'
    BY <1>1, <1>2, <2>3, <2>4 DEF VerificationInv, Types
  <2>6. ASSUME Calm' PROVE Fit'
    <3>1. Calm
      BY <1>1, <1>2, <2>4, <2>6 DEF Calm
    <3>2. Frame(t)
      BY <1>1, <1>2, <2>3, <2>4, Typed DEF Frame
    <3>3. Change(t)
      BY <1>1, <1>2, <2>4 DEF Change
    <3>4. TaskFits(task'[t], vjob'[v], accepted'[v], checked'[v], refused')
      BY <1>1, <1>2, <1>3, <2>1, <2>3, <2>4, <3>1 DEF TaskFits, StepFits, CopyFits, UploadFits,
         ApplyFits, OnlyUpload, OnlyPoll, OnlyApply, Uploading, Early
    <3>5. Fits(t)
      BY <1>2, <1>3, <2>4, <3>1, <3>4 DEF Fits, DocFits
    <3> QED BY <1>1, <2>5, <2>6, <3>2, <3>3, <3>5, Moves
  <2> QED BY <2>5, <2>6 DEF VerificationInv
<1> QED BY <1>6, <1>7, <1>8, <1>9 DEF UploadList

\* A request to the provider that fails, of a list that was accepted.
LEMMA RequestFailsKeeps ==
  ASSUME VerificationInv, NEW t \in Tasks, task[t].pc \in {"progress", "download"},
         RequestFails(t),
         UNCHANGED <<vjob, caller, accepted, checked, refused, troubles, pending>>
  PROVE  VerificationInv'
<1>1. PICK transient \in BOOLEAN : Goto(t, AfterError(task[t], transient))
  BY DEF RequestFails
<1> DEFINE w == AfterError(task[t], transient)
<1>2. /\ w \in {"retry", "giveBack", "fail"}
      /\ w = "giveBack" => task[t].doc.status = "queued"
  BY Typed, ErrorIs
<1>3. Goto(t, w)
  BY <1>1
<1> HIDE DEF w
<1>4. ASSUME Calm, NEW x \in Jobs, x.pc = w, x.step = task[t].step
      PROVE  TaskFits(x, vjob[task[t].v], accepted[task[t].v], checked[task[t].v], refused)
  <2>1. TaskFits(task[t], vjob[task[t].v], accepted[task[t].v], checked[task[t].v], refused)
    BY <1>4, Now
  <2>2. /\ task[t].step # "upload" /\ vjob[task[t].v].status \in Past
        /\ task[t].doc.status # "queued"
    BY <2>1 DEF TaskFits, StepFits, CopyFits, OnlyPoll, OnlyApply
  <2>3. CASE w = "retry"
    BY <1>4, <2>2, <2>3, RetryFits
  <2>4. CASE w = "fail"
    BY <1>4, <2>2, <2>4, TailFits
  <2> QED BY <1>2, <2>2, <2>3, <2>4
<1>5. w \in TaskPc \ {"idle"}
  BY <1>2 DEF TaskPc
<1>6. troubles' \in Nat /\ troubles' >= troubles /\ pending' \subseteq Contacts
  BY Typed
<1> QED BY <1>3, <1>4, <1>5, <1>6, GotoKeeps

\* Asking the provider changes no document.
LEMMA GetProgressKeeps ==
  ASSUME VerificationInv, NEW t \in Tasks, GetProgress(t)
  PROVE  VerificationInv'
<1>1. task[t].pc = "progress"
  BY DEF GetProgress, At
<1>2. UNCHANGED <<vjob, caller, accepted, checked, refused, troubles, pending>>
  BY DEF GetProgress, envVars, KeepOthers
<1>3. ASSUME NEW w \in {"refund", "saveApplying", "enqueuePoll", "fail"}, Goto(t, w)
      PROVE  VerificationInv'
  <2>1. ASSUME Calm, NEW x \in Jobs, x.pc = w, x.step = task[t].step, x.doc = task[t].doc
        PROVE  TaskFits(x, vjob[task[t].v], accepted[task[t].v], checked[task[t].v], refused)
    <3>1. TaskFits(task[t], vjob[task[t].v], accepted[task[t].v], checked[task[t].v], refused)
      BY <1>1, <2>1, Now
    <3>2. /\ task[t].step = "poll" /\ vjob[task[t].v].status \in Past
          /\ task[t].doc.status = "verifying"
      BY <1>1, <3>1 DEF TaskFits, StepFits, CopyFits, OnlyPoll
    <3> QED BY <1>3, <2>1, <3>2 DEF TaskFits, StepFits, CopyFits, OnlyUpload, OnlyPoll, OnlyApply,
                                    Uploading
  <2>2. w \in TaskPc \ {"idle"}
    BY <1>3 DEF TaskPc
  <2>3. troubles' \in Nat /\ troubles' >= troubles /\ pending' \subseteq Contacts
    BY <1>2, Typed
  <2> QED BY <1>1, <1>2, <1>3, <2>1, <2>2, <2>3, GotoKeeps
<1>4. \/ Goto(t, "refund") \/ Goto(t, "saveApplying")
      \/ Goto(t, IF polls[task[t].v] < MaxPolls THEN "enqueuePoll" ELSE "fail")
      \/ RequestFails(t)
  BY DEF GetProgress
<1>5. CASE Goto(t, IF polls[task[t].v] < MaxPolls THEN "enqueuePoll" ELSE "fail")
  <2>1. CASE polls[task[t].v] < MaxPolls
    BY <1>3, <1>5, <2>1
  <2>2. CASE ~(polls[task[t].v] < MaxPolls)
    BY <1>3, <1>5, <2>2
  <2> QED BY <2>1, <2>2
<1>6. CASE RequestFails(t)
  BY <1>1, <1>2, <1>6, RequestFailsKeeps
<1> QED BY <1>3, <1>4, <1>5, <1>6

\* The result that is downloaded is of the document's own list.
LEMMA DownloadKeeps ==
  ASSUME VerificationInv, NEW t \in Tasks, Download(t)
  PROVE  VerificationInv'
<1>1. task[t].pc = "download"
  BY DEF Download, At
<1>2. UNCHANGED <<vjob, caller, accepted, checked, refused, troubles, pending>>
  BY DEF Download, docVars, envVars, provider, KeepOthers
<1>3. CASE task' = [task EXCEPT ![t].pc = "write", ![t].left = task[t].doc.batch]
  <2>1. /\ task' \in [Tasks -> Jobs] /\ \A u \in Tasks \ {t} : task'[u] = task[u]
        /\ task'[t].pc = "write" /\ task'[t].v = task[t].v /\ task'[t].step = task[t].step
        /\ task'[t].doc = task[t].doc /\ task'[t].left = task[t].doc.batch
    <3>1. task[t].doc.batch \in SUBSET Contacts
      BY Typed DEF Docs
    <3> QED BY <1>3, <3>1, Typed DEF Jobs, TaskPc
  <2>2. ASSUME Calm
        PROVE  TaskFits(task'[t], vjob[task[t].v], accepted[task[t].v], checked[task[t].v], refused)
    <3>1. TaskFits(task[t], vjob[task[t].v], accepted[task[t].v], checked[task[t].v], refused)
      BY <1>1, <2>2, Now
    <3> QED BY <1>1, <2>1, <3>1 DEF TaskFits, StepFits, CopyFits, ApplyFits, OnlyUpload, OnlyPoll,
                                    OnlyApply, Uploading
  <2>3. Calm' => Calm
    BY <1>2 DEF Calm
  <2>4. troubles' \in Nat /\ troubles' >= troubles /\ pending' \subseteq Contacts
    BY <1>2, Typed
  <2> QED BY <1>1, <1>2, <2>1, <2>2, <2>3, <2>4, PlainMoves
<1>4. CASE RequestFails(t)
  BY <1>1, <1>2, <1>4, RequestFailsKeeps
<1> QED BY <1>3, <1>4 DEF Download

\* Rows: what is not left to write is written.
LEMMA WriteKeeps ==
  ASSUME VerificationInv, NEW t \in Tasks, Write(t)
  PROVE  VerificationInv'
<1> DEFINE v == task[t].v
<1>1. /\ task[t].pc = "write" /\ v \in Requests /\ UNCHANGED <<vjob, caller, accepted, refused, troubles>>
  BY Typed DEF Write, At, docVars, provider
<1>2. ASSUME Calm
      PROVE  /\ TaskFits(task[t], vjob[v], accepted[v], checked[v], refused)
             /\ DocFits(vjob[v], accepted[v], checked[v])
             /\ task[t].step = "apply" /\ task[t].doc.status = "applying"
             /\ task[t].doc.batch = vjob[v].batch
             /\ task[t].doc.batch \ task[t].left \subseteq checked[v]
             /\ vjob[v].status \in Past
  <2>1. TaskFits(task[t], vjob[v], accepted[v], checked[v], refused)
        /\ DocFits(vjob[v], accepted[v], checked[v])
    BY <1>1, <1>2, Now
  <2>2. StepFits(task[t]) /\ CopyFits(task[t], refused)
    BY <2>1 DEF TaskFits
  <2>3. task[t].step = "apply" /\ task[t].doc.status = "applying"
    BY <1>1, <2>2 DEF StepFits, CopyFits, OnlyApply
  <2> QED BY <1>1, <2>1, <2>3 DEF TaskFits, ApplyFits
<1>3. ASSUME WriteRows(t) PROVE VerificationInv'
  <2>1. PICK c \in task[t].left :
           /\ task' = [task EXCEPT ![t].left = @ \ {c},
                                   ![t].pc = IF task[t].left = {c} THEN AfterWrite(t) ELSE @]
           /\ pending' = pending \ {c}
           /\ checked' = [checked EXCEPT ![v] = @ \cup {c}]
    BY <1>3 DEF WriteRows
  <2> DEFINE w == IF task[t].left = {c} THEN AfterWrite(t) ELSE "write"
  <2>2. w \in {"releaseUnknown", "saveDone", "write"} /\ (w # "write" => task[t].left = {c})
    BY DEF AfterWrite
  <2>3. task' = [task EXCEPT ![t].left = @ \ {c}, ![t].pc = w]
    BY <1>1, <2>1, Typed
  <2> HIDE DEF w
  <2>4. /\ task' \in [Tasks -> Jobs] /\ \A u \in Tasks \ {t} : task'[u] = task[u]
        /\ task'[t].pc = w /\ task'[t].v = v /\ task'[t].step = task[t].step
        /\ task'[t].doc = task[t].doc /\ task'[t].left = task[t].left \ {c}
    <3>1. w \in TaskPc
      BY <2>2 DEF TaskPc
    <3> QED BY <2>3, <3>1, Typed DEF Jobs
  <2>5. /\ checked' \in [Requests -> SUBSET Contacts] /\ checked'[v] = checked[v] \cup {c}
        /\ \A r \in Requests \ {v} : checked'[r] = checked[r]
    <3>1. c \in Contacts
      BY Typed DEF Jobs
    <3> QED BY <1>1, <2>1, <3>1, Typed
  <2>6. Types'
    BY <1>1, <2>1, <2>4, <2>5 DEF VerificationInv, Types
  <2>7. ASSUME Calm' PROVE Fit'
    <3>1. Calm
      BY <1>1, <2>7 DEF Calm
    <3>2. Frame(t) /\ Change(t)
      BY <1>1, <2>4, <2>5, Typed DEF Frame, Change
    <3>3. TaskFits(task'[t], vjob'[v], accepted'[v], checked'[v], refused')
      <4>1. w = "write" => task'[t].doc.batch \ task'[t].left \subseteq checked'[v]
        BY <1>2, <2>4, <2>5, <3>1
      <4>2. w # "write" => task'[t].doc.batch \subseteq checked'[v]
        BY <1>2, <2>2, <2>4, <2>5, <3>1
      <4> QED BY <1>1, <1>2, <2>2, <2>4, <3>1, <4>1, <4>2 DEF TaskFits, StepFits, CopyFits,
              ApplyFits, OnlyUpload, OnlyPoll, OnlyApply, Uploading
    <3>4. Fits(t)
      BY <1>1, <1>2, <2>4, <2>5, <3>1, <3>3 DEF Fits, DocFits
    <3> QED BY <1>1, <2>6, <2>7, <3>2, <3>4, Moves
  <2> QED BY <2>6, <2>7 DEF VerificationInv
<1>4. ASSUME Goto(t, AfterError(task[t], FALSE)), UNCHANGED <<pending, checked>>
      PROVE  VerificationInv'
  <2> DEFINE w == AfterError(task[t], FALSE)
  <2>1. /\ w \in {"giveBack", "fail"} /\ (w = "giveBack" => task[t].doc.status = "queued")
    BY Typed, ErrorIs
  <2>2. Goto(t, w)
    BY <1>4
  <2> HIDE DEF w
  <2>3. ASSUME Calm, NEW x \in Jobs, x.pc = w, x.step = task[t].step
        PROVE  TaskFits(x, vjob[v], accepted[v], checked[v], refused)
    <3>1. w = "fail"
      BY <1>2, <2>1, <2>3
    <3> QED BY <1>2, <2>3, <3>1, TailFits
  <2>4. w \in TaskPc \ {"idle"}
    BY <2>1 DEF TaskPc
  <2>5. troubles' \in Nat /\ troubles' >= troubles /\ pending' \subseteq Contacts
    BY <1>1, <1>4, Typed
  <2> QED BY <1>1, <1>4, <2>2, <2>3, <2>4, <2>5, GotoKeeps
<1> QED BY <1>3, <1>4 DEF Write

-----------------------------------------------------------------------------
(* Failures.                                                                *)

\* The memory of a step whose save failed.
LEMMA UnsavedIs ==
  ASSUME NEW d \in Docs, NEW pc
  PROVE  /\ With(d, Unsaved(pc)) \in Docs
         /\ pc = "saveUploading" => With(d, Unsaved(pc)).status = "uploading"
         /\ d.status # "queued" => With(d, Unsaved(pc)).status # "queued"
<1>1. CASE pc = "saveUploading"
  <2>1. Unsaved(pc) = [status |-> "uploading"]
    BY <1>1 DEF Unsaved
  <2> QED BY <1>1, <2>1, WithStatus DEF Active
<1>2. CASE pc = "saveEmpty"
  <2>1. Unsaved(pc) = [status |-> "done", reserved |-> 0]
    BY <1>2 DEF Unsaved
  <2> QED BY <1>2, <2>1, WithReserved DEF Ended
<1>3. CASE pc \notin {"saveUploading", "saveEmpty"}
  <2>1. Unsaved(pc) = << >>
    BY <1>3 DEF Unsaved
  <2>2. With(d, << >>) = d
    <3>1. DOMAIN << >> = {}
      OBVIOUS
    <3> QED BY <3>1 DEF With, Docs
  <2> QED BY <1>3, <2>1, <2>2
<1> QED BY <1>1, <1>2, <1>3

\* A failing database: what may have reached the provider is not given back.
LEMMA MongoFaultKeeps ==
  ASSUME VerificationInv, NEW t \in Tasks, MongoFault(t)
  PROVE  VerificationInv'
<1> DEFINE e == With(task[t].doc, Unsaved(task[t].pc))
           w == AfterError([task[t] EXCEPT !.doc = e], FALSE)
<1>1. UNCHANGED <<vjob, caller, accepted, checked, refused, pending>> /\ troubles' = troubles + 1
  BY DEF MongoFault, docVars, envVars, provider, Trouble
<1>2. troubles' \in Nat /\ troubles' >= troubles /\ pending' \subseteq Contacts /\ (Calm' => Calm)
  BY <1>1, Typed DEF Calm
<1>3. CASE /\ task[t].pc \in TryPc
           /\ task' = [task EXCEPT ![t].doc = e, ![t].pc = w]
  <2>1. e \in Docs /\ task[t].doc.status # "queued" => e.status # "queued"
    BY Typed, UnsavedIs
  <2>2. e \in Docs /\ (task[t].pc = "saveUploading" => e.status # "queued")
    BY Typed, UnsavedIs
  <2>3. /\ w \in {"giveBack", "fail"} /\ (w = "giveBack" => e.status = "queued")
    <3>1. [task[t] EXCEPT !.doc = e] \in Jobs /\ [task[t] EXCEPT !.doc = e].doc = e
      BY <2>2, Typed DEF Jobs
    <3> HIDE DEF e
    <3> QED BY <3>1, ErrorIs
  <2> HIDE DEF w, e
  <2>4. /\ task' \in [Tasks -> Jobs] /\ \A u \in Tasks \ {t} : task'[u] = task[u]
        /\ task'[t].pc = w /\ task'[t].v = task[t].v /\ task'[t].step = task[t].step
        /\ task'[t].doc = e
    BY <1>3, <2>2, <2>3, Typed, CopyIs DEF TaskPc
  <2>5. ASSUME Calm
        PROVE  TaskFits(task'[t], vjob[task[t].v], accepted[task[t].v], checked[task[t].v], refused)
    <3>1. TaskFits(task[t], vjob[task[t].v], accepted[task[t].v], checked[task[t].v], refused)
      BY <1>3, <2>5, Now DEF TryPc
    <3>2. CASE w = "fail"
      BY <2>4, <3>1, <3>2, TailFits DEF TaskFits
    <3>3. CASE w = "giveBack"
      <4>1. e.status = "queued" /\ task[t].doc.status = "queued" /\ task[t].pc # "saveUploading"
        BY <2>1, <2>2, <2>3, <3>3
      <4>2. task[t].pc = "saveQueued"
        BY <1>3, <3>1, <4>1 DEF TryPc, TaskFits, CopyFits, Uploading
      <4>3. task[t].step = "upload" /\ accepted[task[t].v] = 0
        BY <3>1, <4>2 DEF TaskFits, StepFits, UploadFits, OnlyUpload, Early
      <4> QED BY <2>4, <3>3, <4>1, <4>3, QueuedFits
    <3> QED BY <2>3, <3>2, <3>3
  <2>6. task'[t].pc # "idle" /\ task[t].pc \notin {"idle", "finish"} /\ task'[t] \in Jobs
    BY <1>3, <2>3, <2>4 DEF TryPc
  <2> QED BY <1>1, <1>2, <2>4, <2>5, <2>6, PlainMoves
<1>4. CASE task[t].pc \in {"fail", "retry"} /\ Goto(t, "listener")
  <2>1. ASSUME Calm, NEW x \in Jobs, x.pc = "listener", x.step = task[t].step
        PROVE  TaskFits(x, vjob[task[t].v], accepted[task[t].v], checked[task[t].v], refused)
    <3>1. TaskFits(task[t], vjob[task[t].v], accepted[task[t].v], checked[task[t].v], refused)
      BY <1>4, <2>1, Now
    <3> QED BY <2>1, <3>1, TailFits DEF TaskFits
  <2>2. "listener" \in TaskPc \ {"idle"}
    BY DEF TaskPc
  <2> QED BY <1>1, <1>2, <1>4, <2>1, <2>2, GotoKeeps
<1> QED BY <1>3, <1>4 DEF MongoFault

\* The 'failed' listener ends a document whose last attempt failed.
LEMMA MarkFailedKeeps ==
  ASSUME VerificationInv, NEW t \in Tasks, MarkFailed(t)
  PROVE  VerificationInv'
<1> DEFINE v == task[t].v
           st == IF vjob[v].status \in Active THEN "failed" ELSE vjob[v].status
<1>1. task[t].pc = "listener" /\ Goto(t, "finish") /\ v \in Requests
  BY Typed DEF MarkFailed, At
<1>2. vjob' = [vjob EXCEPT ![v].status = st]
  BY <1>1, Typed DEF MarkFailed
<1>3. UNCHANGED <<caller, accepted, checked, refused, troubles, pending>>
  BY DEF MarkFailed, envVars, provider, KeepHistory
<1>4. /\ vjob' \in [Requests -> Docs]
      /\ vjob'[v].status = st /\ vjob'[v].batch = vjob[v].batch
      /\ \A r \in Requests \ {v} : vjob'[r] = vjob[r]
  <2>1. st \in {"none"} \cup Active \cup Ended
    BY <1>1, Typed DEF Docs, Ended
  <2> HIDE DEF st
  <2> QED BY <1>1, <1>2, <2>1, Typed DEF Docs
<1>5. /\ task' \in [Tasks -> Jobs] /\ \A u \in Tasks \ {t} : task'[u] = task[u]
      /\ task'[t].pc = "finish" /\ task'[t].v = v /\ task'[t].step = task[t].step
  BY <1>1, Typed, GotoIs DEF TaskPc
<1> HIDE DEF st
<1>6. Types'
  BY <1>1, <1>3, <1>4, <1>5 DEF VerificationInv, Types
<1>7. ASSUME Calm' PROVE Fit'
  <2>1. Calm
    BY <1>3, <1>7 DEF Calm
  <2>2. /\ TaskFits(task[t], vjob[v], accepted[v], checked[v], refused)
        /\ DocFits(vjob[v], accepted[v], checked[v])
    BY <1>1, <2>1, Now
  <2>3. vjob[v].status \in Past => st \in Past
    BY DEF Past, st
  <2>4. Frame(t)
    BY <1>1, <1>3, <1>4, <1>5, Typed DEF Frame
  <2>5. Change(t)
    BY <1>1, <1>3, <1>4, <2>3 DEF Change
  <2>6. TaskFits(task'[t], vjob'[v], accepted[v], checked[v], refused)
    BY <1>4, <1>5, <2>2, <2>3, TailFits DEF TaskFits
  <2>7. DocFits(vjob'[v], accepted[v], checked[v])
    <3>1. st = "failed" \/ st = vjob[v].status
      BY DEF st
    <3> QED BY <1>4, <2>2, <3>1 DEF DocFits
  <2>8. Fits(t)
    BY <1>3, <2>6, <2>7 DEF Fits
  <2> QED BY <1>1, <1>6, <1>7, <2>4, <2>5, <2>8, Moves
<1> QED BY <1>6, <1>7 DEF VerificationInv

\* A worker that dies: without a refusal only one upload of a document was ever added.
LEMMA WorkerDiesKeeps ==
  ASSUME VerificationInv, NEW t \in Tasks, WorkerDies(t)
  PROVE  VerificationInv'
<1> DEFINE v == task[t].v
<1>1. task[t].pc \notin {"idle", "waiting"} /\ v \in Requests
  BY Typed DEF WorkerDies, Running
<1>2. UNCHANGED <<vjob, caller, accepted, checked, refused, pending>> /\ troubles' = troubles + 1
  BY DEF WorkerDies, docVars, envVars, provider, Trouble
<1>3. /\ task' \in [Tasks -> Jobs] /\ \A u \in Tasks \ {t} : task'[u] = task[u]
      /\ task'[t].pc \in {"listener", "waiting"} /\ task'[t].v = v
      /\ task'[t].step = task[t].step
  <2>1. CASE task[t].stalled /\ task' = [task EXCEPT ![t].pc = "listener"]
    BY <2>1, Typed DEF Jobs, TaskPc
  <2>2. CASE task' = [task EXCEPT ![t] = Waiting(@.v, @.step, @.attempt, TRUE)]
    <3> DEFINE new == Waiting(v, task[t].step, task[t].attempt, TRUE)
    <3>1. new \in Jobs /\ new.pc = "waiting" /\ new.v = v /\ new.step = task[t].step
      <4>1. v \in Requests /\ task[t].step \in Steps /\ task[t].attempt \in Nat
        BY <1>1, Typed DEF Jobs
      <4> QED BY <4>1 DEF Waiting, Jobs, TaskPc, Docs, NoDoc
    <3>2. task' = [task EXCEPT ![t] = new]
      BY <2>2, Typed
    <3> HIDE DEF new
    <3> QED BY <3>1, <3>2, Typed
  <2> QED BY <2>1, <2>2 DEF WorkerDies
<1>4. Types'
  BY <1>2, <1>3, <1>1 DEF VerificationInv, Types
<1>5. ASSUME Calm' PROVE Fit'
  <2>1. Calm /\ refused' = 0
    BY <1>2, <1>5, Typed DEF Calm
  <2>2. /\ TaskFits(task[t], vjob[v], accepted[v], checked[v], refused)
        /\ DocFits(vjob[v], accepted[v], checked[v])
    BY <1>1, <2>1, Now
  <2>3. Frame(t)
    BY <1>1, <1>2, <1>3, Typed DEF Frame
  <2>4. Change(t)
    BY <1>1, <1>2, <2>1 DEF Change
  <2>5. TaskFits(task'[t], vjob[v], accepted[v], checked[v], refused)
    BY <1>3, <2>2, TailFits DEF TaskFits
  <2>6. Fits(t)
    BY <1>2, <2>2, <2>5 DEF Fits
  <2> QED BY <1>1, <1>4, <1>5, <2>3, <2>4, <2>6, Moves
<1> QED BY <1>4, <1>5 DEF VerificationInv

-----------------------------------------------------------------------------
(* Requests, single addresses and the list.                                 *)
LEMMA CallerIs ==
  ASSUME VerificationInv, NEW c \in Callers, NEW x \in [pc : CallerPc, amount : Int],
         caller' = [caller EXCEPT ![c] = x]
  PROVE  /\ caller' \in [Callers -> [pc : CallerPc, amount : Int]] /\ caller'[c] = x
         /\ \A q \in Callers \ {c} : caller'[q] = caller[q]
         /\ caller[c] \in [pc : CallerPc, amount : Int]
BY DEF VerificationInv, Types

\* A caller moves on, and nothing is written.
LEMMA CallerPlain ==
  ASSUME VerificationInv, NEW c \in Callers, NEW w \in CallerPc \ {"enqueue"}, NEW n \in Int,
         caller' = [caller EXCEPT ![c] = [pc |-> w, amount |-> n]], caller[c].pc # "end",
         UNCHANGED <<task, vjob, accepted, checked, refused, pending>>,
         troubles' \in Nat, troubles' >= troubles,
         c \in Requests /\ w # "end" => caller[c].pc # "enqueue"
  PROVE  VerificationInv'
<1> DEFINE x == [pc |-> w, amount |-> n]
<1>0. x \in [pc : CallerPc, amount : Int] /\ x.pc = w
  OBVIOUS
<1>1. /\ caller' \in [Callers -> [pc : CallerPc, amount : Int]] /\ caller'[c] = x
      /\ \A q \in Callers \ {c} : caller'[q] = caller[q]
  BY <1>0, CallerIs
<1>2. Types'
  BY <1>1 DEF VerificationInv, Types
<1>3. ASSUME Calm' PROVE Fit'
  <2>1. Calm /\ Fit
    BY <1>3 DEF Calm, VerificationInv, Types
  <2>2. UNCHANGED <<task, accepted, checked, refused>>
    OBVIOUS
  <2>3. \A q \in Requests : caller'[q].pc # "end" => Untouched(q)'
    <3> SUFFICES ASSUME NEW q \in Requests, caller'[q].pc # "end" PROVE Untouched(q)'
      OBVIOUS
    <3>1. Untouched(q) /\ (CallerAt(q, "enqueue")' <=> CallerAt(q, "enqueue"))
      <4>1. CASE q = c
        BY <1>0, <1>1, <2>1, <4>1 DEF Fit, CallerAt
      <4>2. CASE q # c
        BY <1>1, <2>1, <4>2 DEF Fit, CallerAt, Callers
      <4> QED BY <4>1, <4>2
    <3> QED BY <3>1 DEF Untouched, Live
  <2>4. OneUpload'
    BY <2>1 DEF Fit, OneUpload
  <2> QED BY <2>1, <2>3, <2>4 DEF Fit
<1> QED BY <1>2, <1>3 DEF VerificationInv

\* A request adds its upload when nothing runs for its document yet.
LEMMA EnqueueUploadKeeps ==
  ASSUME VerificationInv, NEW r \in Requests, EnqueueUpload(r)
  PROVE  VerificationInv'
<1>1. /\ caller[r].pc = "enqueue" /\ Enqueue(task, r, "upload", 0)
      /\ CallerGoto(r, "end")
  BY DEF EnqueueUpload, CallerAt
<1>2. UNCHANGED <<vjob, accepted, checked, refused, troubles, pending>>
  BY DEF EnqueueUpload, docVars, envVars, provider, KeepHistory
<1>3. task \in [Tasks -> Jobs] /\ r \in Callers /\ caller \in [Callers -> [pc : CallerPc, amount : Int]]
  BY DEF VerificationInv, Types, Callers
<1>4. /\ caller' \in [Callers -> [pc : CallerPc, amount : Int]] /\ caller'[r].pc = "end"
      /\ \A q \in Callers \ {r} : caller'[q] = caller[q]
  BY <1>1, <1>3 DEF CallerGoto, CallerPc
<1>5. "upload" \in Steps /\ 0 \in Nat
  BY DEF Steps
<1>6. task' \in [Tasks -> Jobs]
  BY <1>1, <1>3, <1>5, EnqueueIs
<1>7. \/ task' = task
      \/ \E m \in Tasks : /\ task[m].pc = "idle"
                          /\ task' = [task EXCEPT ![m] = Waiting(r, "upload", 0, FALSE)]
  BY <1>1, <1>3, RequestAdds
<1>8. ASSUME Calm PROVE Untouched(r)
  BY <1>1, <1>8 DEF VerificationInv, Fit
<1>9. CASE task' = task
  <2>1. Types'
    BY <1>2, <1>4, <1>9 DEF VerificationInv, Types
  <2>2. ASSUME Calm' PROVE Fit'
    <3>1. \A q \in Requests \ {r} : vjob'[q] = vjob[q]
      BY <1>2
    <3> QED BY <1>1, <1>2, <1>3, <1>4, <1>9, <2>1, <2>2, <3>1, CallerMoves
  <2> QED BY <2>1, <2>2 DEF VerificationInv
<1>10. ASSUME NEW m \in Tasks, task[m].pc = "idle",
              task' = [task EXCEPT ![m] = Waiting(r, "upload", 0, FALSE)]
       PROVE  VerificationInv'
  <2>1. /\ task'[m].pc = "waiting" /\ task'[m].v = r /\ task'[m].step = "upload"
        /\ \A u \in Tasks \ {m} : task'[u] = task[u]
    BY <1>3, <1>10 DEF Waiting
  <2>2. Types'
    BY <1>2, <1>4, <1>6, <2>1 DEF VerificationInv, Types
  <2>3. ASSUME Calm' PROVE Fit'
    <3>1. Calm
      BY <1>2, <2>3 DEF Calm
    <3>2. \A u \in Tasks : ~Live(u, r)
      BY <1>8, <3>1 DEF Untouched
    <3>3. \A q \in Requests \ {r} : caller'[q] = caller[q]
      BY <1>4 DEF Callers
    <3> QED BY <1>2, <1>4, <1>10, <2>1, <2>2, <2>3, <3>2, <3>3, Adds
  <2> QED BY <2>2, <2>3 DEF VerificationInv
<1> QED BY <1>7, <1>9, <1>10

\* A request creates a document of its own.
LEMMA CreateJobKeeps ==
  ASSUME VerificationInv, NEW r \in Requests, CreateJob(r)
  PROVE  VerificationInv'
<1> DEFINE d == [status |-> "queued", reserved |-> caller[r].amount, batch |-> {}]
<1>1. /\ caller[r].pc = "create" /\ vjob' = [vjob EXCEPT ![r] = d] /\ CallerGoto(r, "enqueue")
  BY DEF CreateJob, CallerAt
<1>2. UNCHANGED <<task, accepted, checked, refused, troubles, pending>>
  BY DEF CreateJob, jobVars, envVars, provider, KeepHistory
<1>3. /\ r \in Callers /\ caller \in [Callers -> [pc : CallerPc, amount : Int]]
      /\ vjob \in [Requests -> Docs]
  BY DEF VerificationInv, Types, Callers
<1>4. /\ caller' \in [Callers -> [pc : CallerPc, amount : Int]] /\ caller'[r].pc = "enqueue"
      /\ \A q \in Callers \ {r} : caller'[q] = caller[q]
  BY <1>1, <1>3 DEF CallerGoto, CallerPc
<1>5. d \in Docs /\ d.status = "queued"
  BY <1>3 DEF Docs, Active
<1> HIDE DEF d
<1>6. vjob' \in [Requests -> Docs] /\ vjob'[r] = d /\ \A q \in Requests \ {r} : vjob'[q] = vjob[q]
  BY <1>1, <1>3, <1>5
<1>7. Types'
  BY <1>2, <1>4, <1>6 DEF VerificationInv, Types
<1>8. ASSUME Calm' PROVE Fit'
  <2>1. CallerAt(r, "enqueue")'
    BY <1>4 DEF CallerAt
  <2> QED BY <1>1, <1>2, <1>3, <1>4, <1>5, <1>6, <1>7, <1>8, <2>1, CallerMoves
<1> QED BY <1>7, <1>8 DEF VerificationInv

\* The other steps of requests and of single addresses.
LEMMA CallersKeep ==
  ASSUME VerificationInv, NEW c \in Callers,
         \/ AskSingle(c) \/ VerifySingle(c) \/ ReleaseSingle(c) \/ UndoReserve(c)
         \/ Reserve(c, "ask") \/ Reserve(c, "create")
         \/ CheckRunning(c) \/ CountPending(c) \/ CallerDies(c)
  PROVE  VerificationInv'
<1>0. /\ caller \in [Callers -> [pc : CallerPc, amount : Int]] /\ troubles \in Nat
      /\ caller[c] \in [pc : CallerPc, amount : Int]
      /\ Cardinality(pending) \in Int
  <2>1. Cardinality(pending) \in Int
    BY VerificationAssumption, FS_Subset, FS_CardinalityType DEF VerificationInv, Types
  <2> QED BY <2>1 DEF VerificationInv, Types
<1>1. UNCHANGED <<task, vjob, accepted, checked, refused, pending>>
  BY DEF AskSingle, VerifySingle, ReleaseSingle, UndoReserve, Reserve, CheckRunning, CountPending,
         CallerDies, docVars, jobVars, envVars, provider, KeepHistory, KeepOthers
<1>2. troubles' \in Nat /\ troubles' >= troubles
  BY <1>0 DEF AskSingle, VerifySingle, ReleaseSingle, UndoReserve, Reserve, CheckRunning,
         CountPending, CallerDies, Trouble, KeepHistory, KeepOthers
<1>3. ASSUME NEW w \in CallerPc \ {"enqueue"}, NEW n \in Int, caller[c].pc # "end",
             caller' = [caller EXCEPT ![c] = [pc |-> w, amount |-> n]],
             caller[c].pc = "enqueue" => w = "end"
      PROVE  VerificationInv'
  BY <1>1, <1>2, <1>3, CallerPlain
<1>4. ASSUME NEW w, CallerGoto(c, w)
      PROVE  caller' = [caller EXCEPT ![c] = [pc |-> w, amount |-> caller[c].amount]]
  <2>1. [caller[c] EXCEPT !.pc = w] = [pc |-> w, amount |-> caller[c].amount]
    BY <1>0
  <2> QED BY <1>4, <2>1 DEF CallerGoto
<1>5. caller[c].amount \in Int
  BY <1>0
<1>6. ASSUME NEW w \in CallerPc \ {"enqueue"}, CallerGoto(c, w), caller[c].pc # "end",
             caller[c].pc = "enqueue" => w = "end"
      PROVE  VerificationInv'
  BY <1>3, <1>4, <1>5, <1>6
<1>7. {"idle", "count", "reserve", "undo", "create", "ask", "release", "end"}
          \subseteq CallerPc \ {"enqueue"}
  BY DEF CallerPc
<1>8. CASE AskSingle(c)
  <2>1. caller[c].pc = "idle"
    BY <1>8 DEF AskSingle, CallerAt
  <2>2. \/ CallerGoto(c, "end")
        \/ caller' = [caller EXCEPT ![c] = [pc |-> "reserve", amount |-> 1]]
    BY <1>8 DEF AskSingle
  <2>3. 1 \in Int
    OBVIOUS
  <2>4. CASE CallerGoto(c, "end")
    BY <1>6, <1>7, <2>1, <2>4
  <2>5. CASE caller' = [caller EXCEPT ![c] = [pc |-> "reserve", amount |-> 1]]
    BY <1>3, <1>7, <2>1, <2>3, <2>5
  <2> QED BY <2>2, <2>4, <2>5
<1>9. CASE VerifySingle(c)
  <2>1. caller[c].pc = "ask" /\ (CallerGoto(c, "release") \/ CallerGoto(c, "end"))
    BY <1>9 DEF VerifySingle, CallerAt
  <2> QED BY <1>6, <1>7, <2>1
<1>10. CASE ReleaseSingle(c)
  <2>1. caller[c].pc = "release" /\ CallerGoto(c, "end")
    BY <1>10 DEF ReleaseSingle, CallerAt
  <2> QED BY <1>6, <1>7, <2>1
<1>11. CASE UndoReserve(c)
  <2>1. caller[c].pc = "undo" /\ CallerGoto(c, "end")
    BY <1>11 DEF UndoReserve, CallerAt
  <2> QED BY <1>6, <1>7, <2>1
<1>12. CASE Reserve(c, "ask") \/ Reserve(c, "create")
  <2>1. caller[c].pc = "reserve"
        /\ (CallerGoto(c, "undo") \/ CallerGoto(c, "ask") \/ CallerGoto(c, "create"))
    BY <1>12 DEF Reserve, CallerAt
  <2> QED BY <1>6, <1>7, <2>1
<1>13. CASE CheckRunning(c)
  <2>1. caller[c].pc = "idle" /\ (CallerGoto(c, "end") \/ CallerGoto(c, "count"))
    BY <1>13 DEF CheckRunning, CallerAt
  <2> QED BY <1>6, <1>7, <2>1
<1>14. CASE CountPending(c)
  <2> DEFINE w == IF pending = {} THEN "end" ELSE "reserve"
  <2>1. caller[c].pc = "count"
    BY <1>14 DEF CountPending, CallerAt
  <2>2. caller' = [caller EXCEPT ![c] = [pc |-> w, amount |-> Cardinality(pending)]]
    BY <1>14 DEF CountPending
  <2>3. w \in CallerPc \ {"enqueue"}
    BY <1>7
  <2> HIDE DEF w
  <2> QED BY <1>0, <1>3, <2>1, <2>2, <2>3
<1>15. CASE CallerDies(c)
  <2>1. caller[c].pc # "end" /\ CallerGoto(c, "end")
    BY <1>15 DEF CallerDies
  <2> QED BY <1>6, <1>7, <2>1
<1> QED BY <1>8, <1>9, <1>10, <1>11, <1>12, <1>13, <1>14, <1>15

\* Contacts come and go, or nothing happens.
LEMMA ListKeeps ==
  ASSUME VerificationInv,
         UNCHANGED <<task, vjob, accepted, checked, refused, troubles, caller>>,
         pending' \subseteq Contacts
  PROVE  VerificationInv'
BY DEF VerificationInv, Types, Calm, Fit, OneUpload, Untouched, Live, CallerAt

\* In the beginning nothing runs.
LEMMA InitHolds == Init => VerificationInv
<1> SUFFICES ASSUME Init PROVE VerificationInv
  OBVIOUS
<1>1. NoTask \in Jobs /\ NoTask.pc = "idle" /\ NoDoc \in Docs /\ NoDoc.status = "none"
  BY DEF NoTask, Jobs, TaskPc, Steps, Docs, NoDoc
<1>2. Types
  BY <1>1 DEF Init, Types, CallerPc
<1>3. \A t \in Tasks : task[t].pc = "idle"
  BY <1>1 DEF Init
<1>4. \A r \in Requests : vjob[r].status = "none" /\ accepted[r] = 0 /\ caller[r].pc = "idle"
  BY <1>1 DEF Init, Callers
<1>5. Fit
  BY <1>3, <1>4 DEF Fit, OneUpload, Untouched, Live, CallerAt, DocFits
<1> QED BY <1>2, <1>5 DEF VerificationInv

\* Any step of a worker on its job.
LEMMA WorkerStepKeeps ==
  ASSUME VerificationInv, NEW t \in Tasks, WorkerStep(t)
  PROVE  VerificationInv'
BY TakeStepKeeps, FinishKeeps, RetryKeeps, GiveBackKeeps, FailKeeps, SaveUploadingKeeps,
   ReadPendingKeeps, ReleaseUnusedKeeps, SaveEmptyKeeps, UploadListKeeps, SaveQueuedKeeps,
   SaveVerifyingKeeps, EnqueuePollKeeps, GetProgressKeeps, SaveApplyingKeeps, EnqueueApplyKeeps,
   DownloadKeeps, WriteKeeps, ReleaseUnknownKeeps, SaveDoneKeeps, DeleteListKeeps, MarkFailedKeeps
   DEF WorkerStep

\* Any step at all.
LEMMA NextKeeps == VerificationInv /\ [Next]_vars => VerificationInv'
<1> SUFFICES ASSUME VerificationInv, [Next]_vars PROVE VerificationInv'
  OBVIOUS
<1>1. ASSUME NEW c \in Singles, SingleStep(c) PROVE VerificationInv'
  BY <1>1, CallersKeep DEF SingleStep, Callers
<1>2. ASSUME NEW r \in Requests, RequestStep(r) PROVE VerificationInv'
  BY <1>2, CallersKeep, CreateJobKeeps, EnqueueUploadKeeps DEF RequestStep, Callers
<1>3. ASSUME NEW t \in Tasks, WorkerStep(t) \/ MongoFault(t) \/ WorkerDies(t)
      PROVE  VerificationInv'
  BY <1>3, WorkerStepKeeps, MongoFaultKeeps, WorkerDiesKeeps
<1>4. ASSUME NEW c \in Callers, CallerDies(c) PROVE VerificationInv'
  BY <1>4, CallersKeep
<1>5. ASSUME NEW c \in Contacts, Join(c) \/ Leave(c) PROVE VerificationInv'
  <2>1. UNCHANGED <<task, vjob, accepted, checked, refused, troubles, caller>>
    BY <1>5 DEF Join, Leave, docVars, jobVars, provider, KeepOthers
  <2>2. pending' \subseteq Contacts
    BY <1>5 DEF Join, Leave, VerificationInv, Types
  <2> QED BY <2>1, <2>2, ListKeeps
<1>6. CASE UNCHANGED vars
  <2>1. UNCHANGED <<task, vjob, accepted, checked, refused, troubles, caller>>
    BY <1>6 DEF vars
  <2>2. pending' \subseteq Contacts
    BY <1>6 DEF vars, VerificationInv, Types
  <2> QED BY <2>1, <2>2, ListKeeps
<1> QED BY <1>1, <1>2, <1>3, <1>4, <1>5, <1>6 DEF Next

\* Every job finds its document where its step expects it, for any number of requests, workers,
\* contacts and retries, until a crash and a refusal of an upload have both happened.
THEOREM InvariantHolds == Spec => []VerificationInv
<1> QED BY InitHolds, NextKeeps, PTL DEF Spec

\* "Reenviar cobraria de novo": the provider accepts a document's list once.
THEOREM ListsGoOnce == Spec => []UploadedOnce
<1>1. VerificationInv => UploadedOnce
  BY DEF VerificationInv, UploadedOnce, Calm, Fit, DocFits
<1> QED BY <1>1, InvariantHolds, PTL

\* "Idempotente": a document that says done has written the verdict of every address.
THEOREM VerdictsWritten == Spec => []DoneMeansApplied
<1>1. VerificationInv => DoneMeansApplied
  BY DEF VerificationInv, DoneMeansApplied, Calm, Fit, DocFits
<1> QED BY <1>1, InvariantHolds, PTL

-----------------------------------------------------------------------------
(* Sums over a finite set, from the definition of the library's fold.        *)
Some(s) == CHOOSE x \in s : TRUE

\* Of the sets of subsets of a finite set, some are minimal.
LEMMA Smallest ==
  ASSUME NEW S, IsFiniteSet(S), NEW T, T \subseteq SUBSET S, T # {}
  PROVE  \E A \in T : \A B \in SUBSET A : B # A => B \notin T
<1>1. IsWellFoundedOn(StrictSubsetOrdering(S), SUBSET S)
  BY FS_StrictSubsetOrderingWellFounded, FS_FiniteSubsetsOfFinite
<1>2. PICK A \in T : \A B \in T : ~(<<B, A>> \in StrictSubsetOrdering(S))
  BY <1>1, WFMin
<1> QED BY <1>2 DEF StrictSubsetOrdering

\* What holds of the empty set, and of a set when it holds without its chosen element,
\* holds of a finite set: T are the subsets it holds of.
LEMMA SetInduction ==
  ASSUME NEW S, IsFiniteSet(S), NEW T, {} \in T,
         \A A \in SUBSET S : A # {} /\ A \ {Some(A)} \in T => A \in T
  PROVE  S \in T
<1> SUFFICES ASSUME S \notin T PROVE FALSE
  OBVIOUS
<1> DEFINE U == {A \in SUBSET S : A \notin T}
<1>1. U # {} /\ U \subseteq SUBSET S
  OBVIOUS
<1>2. PICK A \in U : \A B \in SUBSET A : B # A => B \notin U
  <2> HIDE DEF U
  <2> QED BY <1>1, Smallest
<1>3. A # {}
  BY <1>2
<1>4. Some(A) \in A
  BY ONLY <1>3, Zenon DEF Some
<1>5. A \ {Some(A)} \in T
  BY <1>2, <1>4
<1> QED BY <1>2, <1>3, <1>5

IsSum(g, f, S) ==
    g = [s \in SUBSET S |-> IF s = {} THEN 0 ELSE LET x == Some(s) IN f[x] + g[s \ {x}]]
Sum(f, S) == MapThenSumSet(LAMBDA x : f[x], S)

\* The library folds by a function on the subsets, and this is it.
LEMMA SumIs == 
  ASSUME NEW f, NEW S
  PROVE Sum(f, S) = (CHOOSE g : IsSum(g, f, S))[S]
BY Zenon DEF Sum, MapThenSumSet, MapThenFoldSet, IsSum, Some

\* What a sum function says of one set.
LEMMA SumAt ==
  ASSUME NEW f, NEW S, NEW g, IsSum(g, f, S), NEW s \in SUBSET S
  PROVE  /\ s = {} => g[s] = 0
         /\ s # {} => g[s] = f[Some(s)] + g[s \ {Some(s)}]
<1>1. DOMAIN g = SUBSET S
  BY DEF IsSum
<1>2. g[s] = IF s = {} THEN 0 ELSE f[Some(s)] + g[s \ {Some(s)}]
  BY Zenon DEF IsSum
<1> QED BY <1>2

\* Two sum functions agree where both are defined.
LEMMA SumsAgree ==
  ASSUME NEW f, NEW A, NEW B, NEW g, NEW h, IsSum(g, f, A), IsSum(h, f, B),
         NEW S, IsFiniteSet(S), S \subseteq A, S \subseteq B
  PROVE  g[S] = h[S]
<1> DEFINE T == {s \in SUBSET S : g[s] = h[s]}
<1>1. {} \in T
  BY SumAt
<1>2. ASSUME NEW s \in SUBSET S, s # {}, s \ {Some(s)} \in T PROVE s \in T
  <2>1. s \in SUBSET A /\ s \in SUBSET B
    OBVIOUS
  <2>2. g[s] = f[Some(s)] + g[s \ {Some(s)}] /\ h[s] = f[Some(s)] + h[s \ {Some(s)}]
    BY <1>2, <2>1, SumAt
  <2> QED BY <1>2, <2>2
<1>3. S \in T
  <2> HIDE DEF T
  <2> QED BY <1>1, <1>2, SetInduction
<1> QED BY <1>3

\* There is one.
LEMMA SumExists ==
  ASSUME NEW f, NEW S, IsFiniteSet(S)
  PROVE  \E g : IsSum(g, f, S)
<1> DEFINE Has(A) == \E g : IsSum(g, f, A)
           G(A) == CHOOSE g : IsSum(g, f, A)
           N == {A \in SUBSET S : ~Has(A)}
<1>2. ASSUME NEW A \in SUBSET S, \A B \in SUBSET A : B # A => Has(B) PROVE Has(A)
  <2> DEFINE h == [s \in SUBSET A |-> IF s = {} THEN 0
                                      ELSE f[Some(s)] + G(s \ {Some(s)})[s \ {Some(s)}]]
  <2>0. ASSUME NEW s \in SUBSET A, s # {} PROVE h[s] = f[Some(s)] + G(s \ {Some(s)})[s \ {Some(s)}]
    <3> HIDE DEF G
    <3> QED BY <2>0
  <2>1. ASSUME NEW B \in SUBSET A, B # A PROVE IsSum(G(B), f, B)
    BY <1>2, <2>1
  <2>2. ASSUME NEW s \in SUBSET A, s # {} PROVE h[s \ {Some(s)}] = G(s \ {Some(s)})[s \ {Some(s)}]
    <3> DEFINE b == s \ {Some(s)}
               c == b \ {Some(b)}
    <3>1. Some(s) \in s
      BY <2>2 DEF Some
    <3>2. b \in SUBSET A /\ b # A /\ c \in SUBSET A /\ c # A
      BY <3>1
    <3>3. IsSum(G(b), f, b) /\ IsSum(G(c), f, c)
      BY <2>1, <3>2
    <3>4. CASE b = {}
      <4>1. h[b] = 0
        BY <3>2, <3>4
      <4>2. G(b)[b] = 0
        BY <3>3, <3>4, SumAt
      <4> QED BY <4>1, <4>2
    <3>5. CASE b # {}
      <4>1. h[b] = f[Some(b)] + G(c)[c]
        <5>1. b \in SUBSET A
          BY <3>2
        <5> HIDE DEF h, G
        <5> QED BY <5>1, <3>5, <2>0
      <4>2. G(b)[b] = f[Some(b)] + G(b)[c]
        <5> HIDE DEF G, b
        <5> b \in SUBSET b
          OBVIOUS
        <5> QED BY <3>3, <3>5, SumAt
      <4>3. IsFiniteSet(c)
        BY FS_Subset
      <4>4. G(b)[c] = G(c)[c]
        <5> c \subseteq b
          OBVIOUS
        <5> HIDE DEF G, b, c
        <5> QED BY <3>3, <4>3, SumsAgree
      <4> QED BY <4>1, <4>2, <4>4
    <3> QED BY <3>4, <3>5
  <2>3. IsSum(h, f, A)
    <3> HIDE DEF G
    <3>1. ASSUME NEW s \in SUBSET A
          PROVE  h[s] = IF s = {} THEN 0 ELSE f[Some(s)] + h[s \ {Some(s)}]
      BY <2>2
    <3>2. h = [s \in SUBSET A |-> h[s]]
      OBVIOUS
    <3> HIDE DEF h
    <3>3. h = [s \in SUBSET A |-> IF s = {} THEN 0 ELSE f[Some(s)] + h[s \ {Some(s)}]]
      BY <3>1, <3>2
    <3> QED BY <3>3, Zenon DEF IsSum
  <2> QED BY <2>3
<1>3. N = {}
  <2> SUFFICES ASSUME N # {} PROVE FALSE
    OBVIOUS
  <2>1. N \subseteq SUBSET S
    OBVIOUS
  <2>2. PICK A \in N : \A B \in SUBSET A : B # A => B \notin N
    <3> HIDE DEF N
    <3> QED BY <2>1, Smallest
  <2>3. A \in SUBSET S /\ \A B \in SUBSET A : B # A => Has(B)
    BY <2>2
  <2> HIDE DEF Has
  <2>4. Has(A)
    BY <2>3, <1>2
  <2> QED BY <2>2, <2>4
<1> QED BY <1>3

\* The recursive equation.
LEMMA SumStep ==
  ASSUME NEW f, NEW S, IsFiniteSet(S)
  PROVE  /\ S = {} => Sum(f, S) = 0
         /\ S # {} => Sum(f, S) = f[Some(S)] + Sum(f, S \ {Some(S)})
<1> DEFINE G(A) == CHOOSE g : IsSum(g, f, A)
           b == S \ {Some(S)}
<1>1. IsFiniteSet(b)
  BY FS_Subset
<1>2. IsSum(G(S), f, S) /\ IsSum(G(b), f, b)
  BY <1>1, SumExists
<1>3. Sum(f, S) = G(S)[S] /\ Sum(f, b) = G(b)[b]
  BY SumIs
<1> HIDE DEF G
<1>4. G(S)[b] = G(b)[b]
  <2> b \subseteq S /\ b \subseteq b
    OBVIOUS
  <2> HIDE DEF b
  <2> QED BY <1>1, <1>2, SumsAgree
<1>5. S \in SUBSET S
  OBVIOUS
<1>6. /\ S = {} => G(S)[S] = 0
      /\ S # {} => G(S)[S] = f[Some(S)] + G(S)[b]
  <2> DEFINE g == G(S)
  <2>1. IsSum(g, f, S)
    BY <1>2
  <2> HIDE DEF g
  <2>2. /\ S = {} => g[S] = 0
        /\ S # {} => g[S] = f[Some(S)] + g[b]
    BY <1>5, <2>1, SumAt
  <2> QED BY <2>2 DEF g
<1> QED BY <1>3, <1>4, <1>6

\* The sum over no element.
LEMMA SumEmpty == ASSUME NEW f PROVE Sum(f, {}) = 0
BY FS_EmptySet, SumStep, Zenon

\* The sum of integers is one.
LEMMA SumInt ==
  ASSUME NEW S, IsFiniteSet(S), NEW f, \A x \in S : f[x] \in Int
  PROVE  Sum(f, S) \in Int
<1> DEFINE T == {A \in SUBSET S : Sum(f, A) \in Int}
<1>1. {} \in T
  BY SumEmpty, FS_EmptySet
<1>2. ASSUME NEW A \in SUBSET S, A # {}, A \ {Some(A)} \in T PROVE A \in T
  <2>1. Some(A) \in A
    BY ONLY <1>2, Zenon DEF Some
  <2>2. Sum(f, A) = f[Some(A)] + Sum(f, A \ {Some(A)})
    BY <1>2, FS_Subset, SumStep
  <2> QED BY <1>2, <2>1, <2>2
<1>3. S \in T
  <2> HIDE DEF T
  <2> QED BY <1>1, <1>2, SetInduction
<1> QED BY <1>3

\* One term changes.
LEMMA SumChanges ==
  ASSUME NEW S, IsFiniteSet(S), NEW f \in [S -> Int], NEW g \in [S -> Int], NEW r \in S,
         \A x \in S \ {r} : g[x] = f[x]
  PROVE  Sum(g, S) = Sum(f, S) + g[r] - f[r]
<1> DEFINE d(A) == IF r \in A THEN g[r] - f[r] ELSE 0
           T == {A \in SUBSET S : Sum(g, A) = Sum(f, A) + d(A)}
<1>1. {} \in T
  BY SumEmpty, FS_EmptySet
<1>2. ASSUME NEW A \in SUBSET S, A # {}, A \ {Some(A)} \in T PROVE A \in T
  <2>1. Some(A) \in A
    BY ONLY <1>2, Zenon DEF Some
  <2>2. /\ Sum(f, A) = f[Some(A)] + Sum(f, A \ {Some(A)})
        /\ Sum(g, A) = g[Some(A)] + Sum(g, A \ {Some(A)})
    BY <1>2, FS_Subset, SumStep
  <2>3. Sum(f, A \ {Some(A)}) \in Int
    BY FS_Subset, SumInt
  <2> QED BY <1>2, <2>1, <2>2, <2>3
<1>3. S \in T
  <2> HIDE DEF T
  <2> QED BY <1>1, <1>2, SetInduction
<1>4. Sum(f, S) \in Int
  BY SumInt
<1> QED BY <1>3, <1>4

\* Term by term below.
LEMMA SumGrows ==
  ASSUME NEW S, IsFiniteSet(S), NEW f \in [S -> Int], NEW g \in [S -> Int],
         \A x \in S : f[x] <= g[x]
  PROVE  Sum(f, S) <= Sum(g, S)
<1> DEFINE T == {A \in SUBSET S : Sum(f, A) <= Sum(g, A)}
<1>1. {} \in T
  BY SumEmpty, FS_EmptySet
<1>2. ASSUME NEW A \in SUBSET S, A # {}, A \ {Some(A)} \in T PROVE A \in T
  <2>1. Some(A) \in A
    BY ONLY <1>2, Zenon DEF Some
  <2>2. /\ Sum(f, A) = f[Some(A)] + Sum(f, A \ {Some(A)})
        /\ Sum(g, A) = g[Some(A)] + Sum(g, A \ {Some(A)})
    BY <1>2, FS_Subset, SumStep
  <2>3. Sum(f, A \ {Some(A)}) \in Int /\ Sum(g, A \ {Some(A)}) \in Int
    BY FS_Subset, SumInt
  <2>4. f[Some(A)] \in Int /\ g[Some(A)] \in Int /\ f[Some(A)] <= g[Some(A)]
    BY <2>1
  <2>5. Sum(f, A \ {Some(A)}) <= Sum(g, A \ {Some(A)})
    BY <1>2
  <2> HIDE DEF T
  <2>6. Sum(f, A) <= Sum(g, A)
    BY <2>2, <2>3, <2>4, <2>5
  <2> QED BY <2>6 DEF T
<1>3. S \in T
  <2> HIDE DEF T
  <2> QED BY <1>1, <1>2, SetInduction
<1> QED BY <1>3

\* Terms that a constant and a multiple of another term bound from below.
LEMMA SumBound ==
  ASSUME NEW S, IsFiniteSet(S), NEW d \in [S -> Int], NEW u \in [S -> Int],
         NEW f \in [S -> Int], NEW a \in Int, NEW b \in Int,
         \A x \in S : d[x] - u[x] + a + b * f[x] >= 0
  PROVE  Sum(d, S) - Sum(u, S) + a * Cardinality(S) + b * Sum(f, S) >= 0
<1> DEFINE T == {A \in SUBSET S : Sum(d, A) - Sum(u, A) + a * Cardinality(A) + b * Sum(f, A) >= 0}
<1>1. {} \in T
  BY SumEmpty, FS_EmptySet
<1>2. ASSUME NEW A \in SUBSET S, A # {}, A \ {Some(A)} \in T PROVE A \in T
  <2> DEFINE x == Some(A)
             B == A \ {x}
  <2>1. x \in A
    BY ONLY <1>2, Zenon DEF Some
  <2>2. Sum(d, A) = d[x] + Sum(d, B) /\ Sum(f, A) = f[x] + Sum(f, B) /\ Sum(u, A) = u[x] + Sum(u, B)
    BY <1>2, FS_Subset, SumStep
  <2>3. Sum(d, B) \in Int /\ Sum(f, B) \in Int /\ Sum(u, B) \in Int
    BY FS_Subset, SumInt
  <2>4. d[x] \in Int /\ f[x] \in Int /\ u[x] \in Int /\ d[x] - u[x] + a + b * f[x] >= 0
    BY <2>1
  <2>5. Cardinality(B) = Cardinality(A) - 1 /\ Cardinality(A) \in Nat
    <3> IsFiniteSet(A)
      BY FS_Subset
    <3> QED BY <2>1, FS_RemoveElement, FS_CardinalityType
  <2>6. Sum(d, B) - Sum(u, B) + a * Cardinality(B) + b * Sum(f, B) >= 0
    BY <1>2
  <2> HIDE DEF T, B, x
  <2>7. a * Cardinality(A) = a * Cardinality(B) + a
    BY <2>5
  <2>8. b * (f[x] + Sum(f, B)) = b * f[x] + b * Sum(f, B)
    BY <2>3, <2>4
  <2>9. Sum(d, A) - Sum(u, A) + a * Cardinality(A) + b * Sum(f, A) >= 0
    BY <2>2, <2>3, <2>4, <2>5, <2>6, <2>7, <2>8
  <2> QED BY <2>9 DEF T
<1>3. S \in T
  <2> HIDE DEF T
  <2> QED BY <1>1, <1>2, SetInduction
<1> QED BY <1>3

-----------------------------------------------------------------------------
(* The books of the month.  Of every document, how much of the counter it   *)
(* holds beyond what the provider charges for it (d), and how many of its   *)
(* uploads were refused (f): each of them may have given back again what a  *)
(* list that shrank did not need.                                           *)
Full(d, n, f)  == d <= n /\ d + left * f >= n
Short(d, n, f) == d <= n /\ d + joined + left * f >= n
Unknown(b) == Cardinality(b \cap inconclusive)
\* A reservation of n and the contacts under pendingQuery, which came and went since.
Sized(n) == n \in Nat /\ n <= Cardinality(pending) + left /\ Cardinality(pending) <= n + joined

ReservedPc == {"waiting", "saveUploading", "read", "releaseUnused", "saveQueued", "giveBack", "retry"}
ChargedPc  == {"enqueuePoll", "progress", "saveApplying", "retry", "enqueueApply", "download",
               "write", "releaseUnknown"}

UploadBook(x, doc, d, f) ==
    /\ x.pc \in ReservedPc => Full(d, doc.reserved, f) /\ Sized(doc.reserved)
    /\ x.pc \in {"waiting", "giveBack", "retry"} => doc.status = "queued"
    /\ x.pc \notin {"waiting", "fail", "enqueuePoll"} => x.doc.reserved = doc.reserved
    /\ x.pc = "releaseUnused" =>
           Cardinality(x.doc.batch) < doc.reserved /\ doc.reserved <= Cardinality(x.doc.batch) + left
    /\ x.pc \in {"upload", "saveEmpty"} =>
           /\ Short(d, Cardinality(x.doc.batch), f) /\ Sized(doc.reserved)
           /\ d <= doc.reserved /\ d + left * f + left >= doc.reserved
    /\ x.pc = "saveEmpty" => x.doc.batch = {}
    /\ x.pc = "saveVerifying" => Short(d, Unknown(x.doc.batch), f)

Charged(doc, d, f) == Short(d, Unknown(doc.batch), f) /\ doc.reserved = Cardinality(doc.batch)

LaterBook(x, doc, d, f) ==
    /\ x.pc = "waiting" => Charged(doc, d, f)
    /\ x.pc \in {"waiting", "retry"} => doc.status = IF x.step = "poll" THEN "verifying" ELSE "applying"
    /\ x.pc = "refund" => /\ Short(d, Cardinality(x.doc.batch), f)
                          /\ x.doc.reserved = Cardinality(x.doc.batch)
    /\ x.pc = "saveDone" => Short(d, 0, f)
    /\ x.pc = "deleteList" => doc.status = "done" /\ Short(d, 0, f)

Book(x, doc, d, f) ==
    /\ x.pc # "listener"
    /\ x.step = "upload" => UploadBook(x, doc, d, f)
    /\ x.step # "upload" => LaterBook(x, doc, d, f)
    /\ (x.step # "upload" /\ x.pc \in ChargedPc) \/ x.pc = "enqueuePoll" =>
           Charged(doc, d, f) /\ x.doc = doc
    /\ x.pc = "fail" => /\ d + joined + left * f >= 0
                        /\ d <= IF x.doc.reserved = 0 THEN 0 ELSE doc.reserved

\* Nothing runs for the document.
Rest(doc, d, f) ==
    /\ doc.status \in {"none"} \cup Ended /\ d + joined + left * f >= 0
    /\ d <= IF doc.status = "failed" THEN doc.reserved ELSE 0

\* A request on its way to its document.
Asked(c, doc, d) ==
    /\ c.pc \in {"idle", "count", "reserve", "undo", "create", "enqueue"}
    /\ d = IF c.pc \in {"undo", "create"} THEN c.amount
           ELSE IF c.pc = "enqueue" THEN doc.reserved ELSE 0
    /\ c.pc \in {"reserve", "undo", "create"} => Sized(c.amount)
    /\ c.pc = "enqueue" => Sized(doc.reserved)

Acts(t, r) == task[t].pc \notin {"idle", "finish"} /\ task[t].v = r

\* The attempts of an upload are numbered, and their ids are new.
NewIds(r, n) == \A i \in Nat : <<r, i>> \in uploads => i <= n

DocBook(r, d, f) ==
    IF caller[r].pc # "end" THEN Asked(caller[r], vjob[r], d) /\ NewIds(r, -1)
    ELSE \/ /\ \A t \in Tasks : ~Acts(t, r)
            /\ Rest(vjob[r], d, f)
         \/ \E t \in Tasks :
               /\ Acts(t, r) /\ \A u \in Tasks \ {t} : ~Acts(u, r)
               /\ Book(task[t], vjob[r], d, f)
               /\ task[t].step = "upload" => NewIds(r, task[t].attempt)

SingleBook(c) ==
    /\ c.pc \in {"idle", "reserve", "undo", "ask", "release", "end"}
    /\ c.pc \in {"reserve", "undo", "ask", "release"} => c.amount = 1

\* What the single addresses and the lists were charged for and the answer said so.
Answered == billed - unanswered

Asking == [c \in Singles |-> IF caller[c].pc \in {"undo", "ask", "release"} THEN caller[c].amount ELSE 0]
Undoing(S) == [c \in S |-> IF caller[c].pc = "undo" THEN caller[c].amount ELSE 0]

Books(d, f) ==
    /\ \A r \in Requests : DocBook(r, d[r], f[r])
    /\ \A c \in Singles : SingleBook(caller[c])
    /\ used - Answered = Sum(d, Requests) + Sum(Asking, Singles)
    /\ refused = Sum(f, Requests)
    /\ MonthlyLimit # 0 =>
           used <= MonthlyLimit + Sum(Undoing(Requests), Requests) + Sum(Undoing(Singles), Singles)

BookTypes ==
    /\ used \in Int /\ Answered \in Int /\ joined \in Nat /\ left \in Nat
    /\ billed \in Int /\ unanswered \in Int /\ inconclusive \subseteq Contacts

BooksHold == \E d \in [Requests -> Int], f \in [Requests -> Nat] : Books(d, f)
QuotaInv == VerificationInv /\ BookTypes /\ (troubles = 0 => BooksHold)

\* What may come and go meanwhile.
Grows ==
    /\ left' >= left /\ joined' >= joined /\ inconclusive' = inconclusive
    /\ \A n \in Int : Sized(n) => Sized(n)'

-----------------------------------------------------------------------------
\* A multiple grows with what is multiplied.
LEMMA Times ==
  ASSUME NEW a \in Nat, NEW b \in Nat, NEW f \in Nat, a <= b
  PROVE  a * f \in Nat /\ b * f \in Nat /\ a * f <= b * f
OBVIOUS

\* The bounds of the books get wider as contacts come and go.
LEMMA Widens ==
  ASSUME NEW d \in Int, NEW n \in Int, NEW f \in Nat,
         NEW j \in Nat, NEW k \in Nat, j <= k, NEW l \in Nat, NEW m \in Nat, l <= m
  PROVE  /\ d + l * f >= n => d + m * f >= n
         /\ d + j + l * f >= n => d + k + m * f >= n
         /\ d + l * f + l >= n => d + m * f + m >= n
<1>1. l * f \in Nat /\ m * f \in Nat /\ l * f <= m * f
  BY Times
<1>2. ASSUME NEW a \in Nat, NEW b \in Nat, a <= b
      PROVE  /\ d + a >= n => d + b >= n
             /\ d + j + a >= n => d + k + b >= n
             /\ d + a + l >= n => d + b + m >= n
  BY <1>2
<1> QED BY <1>1, <1>2

\* Bounds on what a document holds only get wider.
LEMMA Wider ==
  ASSUME BookTypes, BookTypes', Grows, NEW d \in Int, NEW n \in Int, NEW f \in Nat
  PROVE  /\ Full(d, n, f) => Full(d, n, f)'
         /\ Short(d, n, f) => Short(d, n, f)'
         /\ d + left * f + left >= n => (d + left * f + left >= n)'
         /\ d + joined + left * f >= n => (d + joined + left * f >= n)'
<1>1. /\ left \in Nat /\ left' \in Nat /\ joined \in Nat /\ joined' \in Nat
      /\ left <= left' /\ joined <= joined'
  BY DEF BookTypes, Grows
<1>2. /\ d + left * f >= n => d + left' * f >= n
      /\ d + joined + left * f >= n => d + joined' + left' * f >= n
      /\ d + left * f + left >= n => d + left' * f + left' >= n
  BY <1>1, Widens
<1> QED BY <1>2 DEF Full, Short

\* Sizes of lists.
LEMMA Sizes ==
  ASSUME NEW b \in SUBSET Contacts, inconclusive \subseteq Contacts
  PROVE  /\ Cardinality(b) \in Nat /\ Unknown(b) \in Nat /\ Billable(b) \in Nat
         /\ Cardinality(b) = Unknown(b) + Billable(b)
         /\ Cardinality(b) = 0 <=> b = {}
<1>1. IsFiniteSet(b)
  BY VerificationAssumption, FS_Subset
<1>2. IsFiniteSet(b \cap inconclusive) /\ IsFiniteSet(b \ inconclusive)
  BY <1>1, FS_Subset
<1>3. b = (b \cap inconclusive) \cup (b \ inconclusive)
      /\ (b \cap inconclusive) \cap (b \ inconclusive) = {}
  OBVIOUS
<1>4. Cardinality(b) = Cardinality(b \cap inconclusive) + Cardinality(b \ inconclusive)
  <2> DEFINE p == b \cap inconclusive
             q == b \ inconclusive
  <2>1. IsFiniteSet(p) /\ IsFiniteSet(q) /\ b = p \cup q /\ p \cap q = {}
    BY <1>2, <1>3
  <2> HIDE DEF p, q
  <2>2. Cardinality(p \cup q) = Cardinality(p) + Cardinality(q) - Cardinality(p \cap q)
    BY <2>1, FS_Union
  <2>3. Cardinality(p \cap q) = 0
    BY <2>1, FS_EmptySet
  <2>4. Cardinality(p) \in Nat /\ Cardinality(q) \in Nat
    BY <2>1, FS_CardinalityType
  <2>5. Cardinality(b) = Cardinality(p) + Cardinality(q)
    BY <2>1, <2>2, <2>3, <2>4
  <2> QED BY <2>5 DEF p, q
<1> QED BY <1>1, <1>2, <1>4, FS_CardinalityType, FS_EmptySet DEF Unknown, Billable

\* The numbers of a job and its document.
LEMMA Numbers ==
  ASSUME BookTypes, NEW x \in Jobs, NEW doc \in Docs
  PROVE  /\ doc.reserved \in Int /\ x.doc.reserved \in Int
         /\ doc.batch \in SUBSET Contacts /\ x.doc.batch \in SUBSET Contacts
         /\ Cardinality(doc.batch) \in Nat /\ Cardinality(x.doc.batch) \in Nat
         /\ Unknown(doc.batch) \in Nat /\ Unknown(x.doc.batch) \in Nat
<1>1. /\ doc.reserved \in Int /\ x.doc.reserved \in Int
      /\ doc.batch \in SUBSET Contacts /\ x.doc.batch \in SUBSET Contacts
  BY DEF Jobs, Docs
<1> QED BY <1>1, Sizes DEF BookTypes

\* What a job, a document at rest and a request say of their document, later too.
LEMMA BookStays ==
  ASSUME BookTypes, BookTypes', Grows, NEW x \in Jobs, NEW doc \in Docs, NEW d \in Int,
         NEW f \in Nat, Book(x, doc, d, f)
  PROVE  Book(x, doc, d, f)'
<1> DEFINE R == doc.reserved
           B == Cardinality(x.doc.batch)
<1>1. R \in Int /\ B \in Int /\ Unknown(doc.batch) \in Int /\ Unknown(x.doc.batch) \in Int
      /\ doc.batch \in SUBSET Contacts
  BY Numbers
<1>2. /\ Unknown(doc.batch)' = Unknown(doc.batch) /\ Unknown(x.doc.batch)' = Unknown(x.doc.batch)
      /\ \A n \in Int : Sized(n) => Sized(n)'
      /\ left \in Int /\ left' \in Int /\ left' >= left
  BY DEF Unknown, Grows, BookTypes
<1>3. \A n \in Int : /\ Full(d, n, f) => Full(d, n, f)'
                     /\ Short(d, n, f) => Short(d, n, f)'
                     /\ d + left * f + left >= n => (d + left * f + left >= n)'
  BY Wider
<1>4. d + joined + left * f >= 0 => (d + joined + left * f >= 0)'
  <2> 0 \in Int
    OBVIOUS
  <2> QED BY Wider
<1>5. UploadBook(x, doc, d, f) => UploadBook(x, doc, d, f)'
  <2> SUFFICES ASSUME UploadBook(x, doc, d, f) PROVE UploadBook(x, doc, d, f)'
    OBVIOUS
  <2>1. x.pc \in ReservedPc => Full(d, R, f)' /\ Sized(R)'
    BY <1>1, <1>2, <1>3 DEF UploadBook
  <2>2. x.pc \in {"upload", "saveEmpty"} =>
            /\ Short(d, B, f)' /\ Sized(R)' /\ d <= R /\ (d + left * f + left >= R)'
    BY <1>1, <1>2, <1>3 DEF UploadBook
  <2>3. x.pc = "saveVerifying" => Short(d, Unknown(x.doc.batch), f)'
    BY <1>1, <1>2, <1>3 DEF UploadBook, Short
  <2>4. x.pc = "releaseUnused" => B < R /\ (R <= B + left)'
    BY <1>1, <1>2 DEF UploadBook
  <2> QED BY <2>1, <2>2, <2>3, <2>4 DEF UploadBook
<1>6. Charged(doc, d, f) => Charged(doc, d, f)'
  BY <1>1, <1>2, <1>3 DEF Charged, Short
<1>7. LaterBook(x, doc, d, f) => LaterBook(x, doc, d, f)'
  <2>1. 0 \in Int
    OBVIOUS
  <2> QED BY <1>1, <1>3, <1>6, <2>1 DEF LaterBook
<1> QED BY <1>4, <1>5, <1>6, <1>7 DEF Book

\* The same of a document at rest.
LEMMA RestStays ==
  ASSUME BookTypes, BookTypes', Grows, NEW doc \in Docs, NEW d \in Int,
         NEW f \in Nat, Rest(doc, d, f)
  PROVE  Rest(doc, d, f)'
<1>1. 0 \in Int
  OBVIOUS
<1> QED BY <1>1, Wider DEF Rest

\* The same of a request.
LEMMA AskedStays ==
  ASSUME Grows, NEW c \in [pc : CallerPc, amount : Int], NEW doc \in Docs, NEW d, Asked(c, doc, d)
  PROVE  Asked(c, doc, d)'
BY DEF Asked, Grows, Docs

\* A document that nothing touched.
LEMMA DocStays ==
  ASSUME Types, Types', BookTypes, BookTypes', Grows, NEW r \in Requests, NEW d \in Int,
         NEW f \in Nat, DocBook(r, d, f), caller'[r] = caller[r], vjob'[r] = vjob[r],
         \A t \in Tasks : (Acts(t, r)' <=> Acts(t, r)) /\ (Acts(t, r) => task'[t] = task[t]),
         \A i \in Nat : <<r, i>> \in uploads' => <<r, i>> \in uploads
  PROVE  DocBook(r, d, f)'
<1>1. /\ caller[r] \in [pc : CallerPc, amount : Int] /\ vjob[r] \in Docs
      /\ \A t \in Tasks : task[t] \in Jobs
  BY DEF Types, Callers
<1>2. \A n : NewIds(r, n) => NewIds(r, n)'
  BY DEF NewIds
<1>3. CASE caller[r].pc # "end"
  <2>1. Asked(caller[r], vjob[r], d) /\ NewIds(r, -1)
    BY <1>3 DEF DocBook
  <2> DEFINE c == caller[r]
             doc == vjob[r]
  <2>2. \A y \in [pc : CallerPc, amount : Int], z \in Docs : Asked(y, z, d) => Asked(y, z, d)'
    BY AskedStays
  <2>3. Asked(caller[r], vjob[r], d)'
    BY <1>1, <2>1, <2>2
  <2> QED BY <1>2, <1>3, <2>1, <2>3 DEF DocBook
<1>4. CASE caller[r].pc = "end" /\ (\A t \in Tasks : ~Acts(t, r)) /\ Rest(vjob[r], d, f)
  <2>1. \A z \in Docs : Rest(z, d, f) => Rest(z, d, f)'
    BY RestStays
  <2>2. Rest(vjob[r], d, f)'
    BY <1>1, <1>4, <2>1
  <2> QED BY <1>4, <2>2 DEF DocBook
<1>5. ASSUME caller[r].pc = "end", NEW t \in Tasks, Acts(t, r), \A u \in Tasks \ {t} : ~Acts(u, r),
             Book(task[t], vjob[r], d, f), task[t].step = "upload" => NewIds(r, task[t].attempt)
      PROVE  DocBook(r, d, f)'
  <2>1. \A y \in Jobs, z \in Docs : Book(y, z, d, f) => Book(y, z, d, f)'
    BY BookStays
  <2>2. Book(task[t], vjob[r], d, f)'
    BY <1>1, <1>5, <2>1
  <2>3. Acts(t, r)' /\ \A u \in Tasks \ {t} : ~Acts(u, r)'
    BY <1>5
  <2>4. task'[t].step = "upload" => NewIds(r, task[t].attempt)'
    BY <1>2, <1>5
  <2> QED BY <1>5, <2>2, <2>3, <2>4 DEF DocBook
<1> QED BY <1>3, <1>4, <1>5 DEF DocBook

\* One document and the month's counter change together.
LEMMA Rebook ==
  ASSUME BookTypes, BookTypes', refused \in Nat,
         NEW d \in [Requests -> Int], NEW f \in [Requests -> Nat], Books(d, f),
         NEW r \in Requests, NEW dn \in Int, NEW fn \in Nat,
         \A q \in Requests \ {r} : DocBook(q, d[q], f[q])', DocBook(r, dn, fn)',
         \A c \in Singles : caller'[c] = caller[c],
         used' - Answered' = used - Answered + dn - d[r], refused' = refused + fn - f[r],
         MonthlyLimit # 0 => used' <= MonthlyLimit + Sum(Undoing(Requests), Requests)'
                                                   + Sum(Undoing(Singles), Singles)'
  PROVE  BooksHold'
<1> DEFINE e == [d EXCEPT ![r] = dn]
           g == [f EXCEPT ![r] = fn]
<1>1. e \in [Requests -> Int] /\ g \in [Requests -> Nat]
  OBVIOUS
<1>2. IsFiniteSet(Requests)
  BY VerificationAssumption
<1>3. Sum(e, Requests) = Sum(d, Requests) + dn - d[r]
  <2> e \in [Requests -> Int] /\ e[r] = dn /\ \A x \in Requests \ {r} : e[x] = d[x]
    OBVIOUS
  <2> HIDE DEF e
  <2> QED BY <1>2, SumChanges
<1>4. Sum(g, Requests) = Sum(f, Requests) + fn - f[r]
  <2> f \in [Requests -> Int] /\ g \in [Requests -> Int] /\ g[r] = fn
      /\ \A x \in Requests \ {r} : g[x] = f[x]
    OBVIOUS
  <2> HIDE DEF g
  <2> QED BY <1>2, SumChanges
<1>5. \A q \in Requests : DocBook(q, e[q], g[q])'
  OBVIOUS
<1>6. Asking' = Asking
  BY DEF Asking
<1>7. \A c \in Singles : SingleBook(caller[c])'
  BY DEF Books, SingleBook
<1>8. (used - Answered = Sum(e, Requests) + Sum(Asking, Singles))'
  <2>1. used - Answered = Sum(d, Requests) + Sum(Asking, Singles)
    BY DEF Books
  <2>2. \A x \in Requests : d[x] \in Int
    OBVIOUS
  <2>3. \A x \in Singles : Asking[x] \in Int
    BY DEF Asking, Books, SingleBook
  <2>4. Sum(d, Requests) \in Int /\ Sum(Asking, Singles) \in Int
    BY <1>2, <2>2, <2>3, SumInt, VerificationAssumption
  <2> HIDE DEF e
  <2>5. used' - Answered' = Sum(e, Requests) + Sum(Asking, Singles)
    BY <1>3, <2>1, <2>4
  <2> QED BY <1>6, <2>5
<1>9. (refused = Sum(g, Requests))'
  <2>1. refused = Sum(f, Requests)
    BY DEF Books
  <2> HIDE DEF g
  <2> QED BY <1>4, <2>1
<1>10. Books(e, g)'
  <2> HIDE DEF e, g
  <2> QED BY <1>5, <1>7, <1>8, <1>9 DEF Books
<1> QED BY <1>1, <1>10 DEF BooksHold

\* The job that acts for a document is the only one, and its request is over.
LEMMA Acting ==
  ASSUME VerificationInv, BookTypes, troubles = 0, NEW d \in [Requests -> Int],
         NEW f \in [Requests -> Nat], Books(d, f), NEW t \in Tasks, task[t].pc \notin {"idle", "finish"},
         NEW v, v = task[t].v
  PROVE  /\ v \in Requests /\ caller[v].pc = "end" /\ Acts(t, v)
         /\ \A u \in Tasks \ {t} : ~Acts(u, v)
         /\ Book(task[t], vjob[v], d[v], f[v])
         /\ task[t].step = "upload" => NewIds(v, task[t].attempt)
         /\ task[t] \in Jobs /\ vjob[v] \in Docs /\ d[v] \in Int /\ f[v] \in Nat
         /\ TaskFits(task[t], vjob[v], accepted[v], checked[v], refused)
<1>1. Calm
  BY DEF Calm
<1>2. /\ v \in Requests /\ Fit
      /\ TaskFits(task[t], vjob[v], accepted[v], checked[v], refused)
  BY <1>1, Now
<1>3. caller[v].pc = "end"
  BY <1>2 DEF Fit, Untouched, Live
<1>4. Acts(t, v) /\ DocBook(v, d[v], f[v])
  BY <1>2 DEF Acts, Books
<1>5. PICK u \in Tasks : /\ Acts(u, v) /\ \A w \in Tasks \ {u} : ~Acts(w, v)
                         /\ Book(task[u], vjob[v], d[v], f[v])
                         /\ task[u].step = "upload" => NewIds(v, task[u].attempt)
  BY <1>3, <1>4 DEF DocBook
<1>6. u = t
  BY <1>4, <1>5
<1> QED BY <1>2, <1>3, <1>4, <1>5, <1>6, Typed

\* A step of a job on its document.
LEMMA Works ==
  ASSUME VerificationInv, VerificationInv', BookTypes, BookTypes', Grows, troubles = 0,
         NEW d \in [Requests -> Int], NEW f \in [Requests -> Nat], Books(d, f),
         NEW t \in Tasks, task[t].pc \notin {"idle", "finish"}, NEW v, v = task[t].v,
         \A u \in Tasks \ {t} : task'[u] = task[u], task'[t].v = v, task'[t].pc # "idle",
         task'[t].step = task[t].step, task'[t].attempt = task[t].attempt,
         caller' = caller, \A q \in Requests \ {v} : vjob'[q] = vjob[q], uploads' = uploads,
         used' <= used, NEW dn \in Int, NEW fn \in Nat,
         used' - Answered' = used - Answered + dn - d[v], refused' = refused + fn - f[v],
         NEW x, x = task'[t], NEW doc, doc = vjob'[v],
         IF x.pc = "finish" THEN Rest(doc, dn, fn)' ELSE Book(x, doc, dn, fn)'
  PROVE  BooksHold'
<1>1. /\ v \in Requests /\ caller[v].pc = "end" /\ Acts(t, v)
      /\ \A u \in Tasks \ {t} : ~Acts(u, v)
      /\ task[t].step = "upload" => NewIds(v, task[t].attempt)
  BY Acting
<1>2. Types /\ Types' /\ refused \in Nat /\ used \in Int /\ used' \in Int
  BY DEF VerificationInv, Types, BookTypes
<1>3. ASSUME NEW q \in Requests \ {v} PROVE DocBook(q, d[q], f[q])'
  <2>1. \A u \in Tasks : (Acts(u, q)' <=> Acts(u, q)) /\ (Acts(u, q) => task'[u] = task[u])
    BY DEF Acts
  <2>2. DocBook(q, d[q], f[q]) /\ d[q] \in Int /\ f[q] \in Nat
    BY DEF Books
  <2>3. caller'[q] = caller[q] /\ vjob'[q] = vjob[q]
    OBVIOUS
  <2> QED BY <1>2, <2>1, <2>2, <2>3, DocStays
<1>4. DocBook(v, dn, fn)'
  <2>1. \A u \in Tasks \ {t} : ~Acts(u, v)'
    BY <1>1 DEF Acts
  <2>2. caller'[v].pc = "end"
    BY <1>1
  <2>3. CASE x.pc = "finish"
    <3>1. ~Acts(t, v)'
      BY <2>3 DEF Acts
    <3> QED BY <2>1, <2>2, <2>3, <3>1 DEF DocBook
  <2>4. CASE x.pc # "finish"
    <3>1. Acts(t, v)' /\ Book(task[t], vjob[v], dn, fn)'
      BY <2>4 DEF Acts
    <3>2. task'[t].step = "upload" => NewIds(v, task[t].attempt)'
      BY <1>1 DEF NewIds
    <3> QED BY <2>1, <2>2, <3>1, <3>2 DEF DocBook
  <2> QED BY <2>3, <2>4
<1>5. MonthlyLimit # 0 => used' <= MonthlyLimit + Sum(Undoing(Requests), Requests)'
                                                + Sum(Undoing(Singles), Singles)'
  <2>1. Undoing(Requests)' = Undoing(Requests) /\ Undoing(Singles)' = Undoing(Singles)
    BY DEF Undoing
  <2>2. (\A y \in Requests : Undoing(Requests)[y] \in Int) /\ (\A y \in Singles : Undoing(Singles)[y] \in Int)
    BY <1>2 DEF Undoing, Types, Callers
  <2>3. Sum(Undoing(Requests), Requests) \in Int /\ Sum(Undoing(Singles), Singles) \in Int
        /\ MonthlyLimit \in Int
    BY <2>2, SumInt, VerificationAssumption
  <2>4. MonthlyLimit # 0 => used <= MonthlyLimit + Sum(Undoing(Requests), Requests)
                                                 + Sum(Undoing(Singles), Singles)
    BY DEF Books
  <2>5. MonthlyLimit # 0 => used' <= MonthlyLimit + Sum(Undoing(Requests), Requests)
                                                  + Sum(Undoing(Singles), Singles)
    BY <1>2, <2>3, <2>4
  <2> QED BY <2>1, <2>5
<1>6. \A c \in Singles : caller'[c] = caller[c]
  OBVIOUS
<1> QED BY <1>1, <1>2, <1>3, <1>4, <1>5, <1>6, Rebook

\* A job gives its work to a new one.
LEMMA Hands ==
  ASSUME VerificationInv, VerificationInv', BookTypes, BookTypes', Grows, troubles = 0,
         NEW d \in [Requests -> Int], NEW f \in [Requests -> Nat], Books(d, f),
         NEW t \in Tasks, task[t].pc \notin {"idle", "finish"}, NEW v, v = task[t].v,
         NEW step \in Steps, NEW n \in Nat, Enqueue(Finished(t), v, step, n),
         step = "upload" => NewIds(v, n - 1),
         UNCHANGED <<vjob, caller, used, Answered, refused>>,
         Book(Waiting(v, step, n, FALSE), vjob[v], d[v], f[v])
  PROVE  BooksHold'
<1> DEFINE x == Waiting(v, step, n, FALSE)
<1>1. /\ v \in Requests /\ caller[v].pc = "end" /\ Acts(t, v)
      /\ \A u \in Tasks \ {t} : ~Acts(u, v)
      /\ task[t].step = "upload" => NewIds(v, task[t].attempt)
      /\ d[v] \in Int /\ f[v] \in Nat /\ vjob[v] \in Docs
  BY Acting
<1>2. Types /\ Types' /\ refused \in Nat /\ used \in Int /\ task \in [Tasks -> Jobs]
  BY DEF VerificationInv, Types, BookTypes
<1>3. /\ Finished(t) \in [Tasks -> Jobs] /\ \A u \in Tasks \ {t} : Finished(t)[u] = task[u]
      /\ Finished(t)[t].pc = "finish" /\ Finished(t)[t].v = v
  BY <1>2 DEF Jobs, TaskPc, Finished
<1>4. <<v, n>> \notin uploads \/ step # "upload"
  BY DEF NewIds
<1>5. PICK m \in Tasks : /\ Finished(t)[m].pc = "idle"
                         /\ task' = [Finished(t) EXCEPT ![m] = x]
                         /\ uploads' = IF step = "upload" THEN uploads \cup {<<v, n>>} ELSE uploads
  <2> DEFINE tasks == Finished(t)
             free == {u \in Tasks : tasks[u].pc = "idle"}
             m == CHOOSE u \in free : TRUE
  <2>1. /\ free # {} /\ task' = [tasks EXCEPT ![m] = x]
        /\ uploads' = IF step = "upload" THEN uploads \cup {<<v, n>>} ELSE uploads
    BY <1>4 DEF Enqueue
  <2>2. m \in free
    BY <2>1
  <2> QED BY <2>1, <2>2
<1>6. /\ m # t /\ task'[m] = x /\ task'[t].pc = "finish"
      /\ \A u \in Tasks \ {t, m} : task'[u] = task[u]
      /\ task[m].pc = "idle"
  BY <1>3, <1>5
<1>7. x.pc = "waiting" /\ x.v = v /\ x.step = step /\ x.attempt = n /\ x \in Jobs
  <2>1. x \in Jobs
    BY <1>1 DEF Waiting, Jobs, TaskPc, Docs, NoDoc
  <2> QED BY <2>1 DEF Waiting
<1> HIDE DEF x
<1>8. ASSUME NEW q \in Requests \ {v} PROVE DocBook(q, d[q], f[q])'
  <2>1. \A u \in Tasks : (Acts(u, q)' <=> Acts(u, q)) /\ (Acts(u, q) => task'[u] = task[u])
    <3> SUFFICES ASSUME NEW u \in Tasks
                 PROVE  (Acts(u, q)' <=> Acts(u, q)) /\ (Acts(u, q) => task'[u] = task[u])
      OBVIOUS
    <3>1. CASE u = t
      BY <1>6, <3>1 DEF Acts
    <3>2. CASE u = m
      BY <1>6, <1>7, <3>2 DEF Acts
    <3>3. CASE u \notin {t, m}
      BY <1>6, <3>3 DEF Acts
    <3> QED BY <3>1, <3>2, <3>3
  <2>2. DocBook(q, d[q], f[q]) /\ d[q] \in Int /\ f[q] \in Nat
    BY DEF Books
  <2>3. \A i \in Nat : <<q, i>> \in uploads' => <<q, i>> \in uploads
    BY <1>5
  <2>4. caller'[q] = caller[q] /\ vjob'[q] = vjob[q]
    OBVIOUS
  <2> QED BY <1>2, <2>1, <2>2, <2>3, <2>4, DocStays
<1>9. DocBook(v, d[v], f[v])'
  <2>1. Acts(m, v)' /\ \A u \in Tasks \ {m} : ~Acts(u, v)'
    BY <1>1, <1>6, <1>7 DEF Acts
  <2>2. Book(task[m], vjob[v], d[v], f[v])'
    <3>1. \A y \in Jobs, z \in Docs, a \in Int, b \in Nat : Book(y, z, a, b) => Book(y, z, a, b)'
      BY BookStays
    <3>2. Book(x, vjob[v], d[v], f[v])
      BY DEF x
    <3> QED BY <1>1, <1>6, <1>7, <3>1, <3>2
  <2>3. x.step = "upload" => NewIds(v, n)'
    <3> SUFFICES ASSUME step = "upload", NEW i \in Nat, <<v, i>> \in uploads' PROVE i <= n
      BY <1>7 DEF NewIds
    <3>1. <<v, i>> \in uploads \/ i = n
      BY <1>5
    <3> QED BY <3>1 DEF NewIds
  <2> QED BY <1>1, <1>6, <1>7, <2>1, <2>2, <2>3 DEF DocBook
<1>10. MonthlyLimit # 0 => used' <= MonthlyLimit + Sum(Undoing(Requests), Requests)'
                                                + Sum(Undoing(Singles), Singles)'
  BY DEF Undoing, Books
<1>11. /\ used' - Answered' = used - Answered + d[v] - d[v] /\ refused' = refused + f[v] - f[v]
       /\ \A c \in Singles : caller'[c] = caller[c]
  BY <1>1, <1>2 DEF BookTypes
<1> QED BY <1>1, <1>2, <1>8, <1>9, <1>10, <1>11, Rebook

\* Nothing of the books changes.
LEMMA Meanwhile ==
  ASSUME VerificationInv, VerificationInv', BookTypes, BookTypes', Grows, troubles = 0, BooksHold,
         UNCHANGED <<vjob, caller, used, Answered, refused, uploads>>,
         \A t \in Tasks : \/ task'[t] = task[t]
                          \/ task[t].pc \in {"idle", "finish"} /\ task'[t].pc \in {"idle", "finish"}
  PROVE  BooksHold'
<1>1. PICK d \in [Requests -> Int], f \in [Requests -> Nat] : Books(d, f)
  BY DEF BooksHold
<1>2. Types /\ Types'
  BY DEF VerificationInv
<1>3. ASSUME NEW q \in Requests PROVE DocBook(q, d[q], f[q])'
  <2>1. \A u \in Tasks : (Acts(u, q)' <=> Acts(u, q)) /\ (Acts(u, q) => task'[u] = task[u])
    BY DEF Acts
  <2>2. DocBook(q, d[q], f[q]) /\ d[q] \in Int /\ f[q] \in Nat
    BY <1>1 DEF Books
  <2>4. caller'[q] = caller[q] /\ vjob'[q] = vjob[q]
    OBVIOUS
  <2> QED BY <1>2, <2>1, <2>2, <2>4, DocStays
<1>4. Books(d, f)'
  BY <1>1, <1>3 DEF Books, SingleBook, Asking, Undoing
<1> QED BY <1>1, <1>4 DEF BooksHold

-----------------------------------------------------------------------------
(* The steps of the worker.                                                 *)
LEMMA Still ==
  ASSUME BookTypes, UNCHANGED <<pending, joined, left, inconclusive>>
  PROVE  Grows
BY DEF BookTypes, Grows, Sized

\* A step of a job while no contact comes or goes.
LEMMA WorksAlone ==
  ASSUME VerificationInv, VerificationInv', BookTypes, BookTypes', troubles = 0,
         NEW d \in [Requests -> Int], NEW f \in [Requests -> Nat], Books(d, f),
         NEW t \in Tasks, task[t].pc \notin {"idle", "finish"}, NEW v, v = task[t].v,
         UNCHANGED <<caller, uploads, pending, joined, left, inconclusive>>,
         \A u \in Tasks \ {t} : task'[u] = task[u],
         NEW x, x = task'[t], x.v = v, x.pc # "idle", x.step = task[t].step,
         x.attempt = task[t].attempt,
         \A q \in Requests \ {v} : vjob'[q] = vjob[q], NEW doc, doc = vjob'[v],
         used' <= used, NEW dn \in Int, NEW fn \in Nat,
         used' - Answered' = used - Answered + dn - d[v], refused' = refused + fn - f[v],
         IF x.pc = "finish" THEN Rest(doc, dn, fn) ELSE Book(x, doc, dn, fn)
  PROVE  BooksHold'
<1>1. Grows
  BY Still
<1>2. x \in Jobs /\ doc \in Docs
  BY Acting DEF VerificationInv, Types
<1>3. IF x.pc = "finish" THEN Rest(doc, dn, fn)' ELSE Book(x, doc, dn, fn)'
  <2>1. \A z \in Docs : Rest(z, dn, fn) => Rest(z, dn, fn)'
    BY <1>1, RestStays
  <2>2. \A y \in Jobs, z \in Docs : Book(y, z, dn, fn) => Book(y, z, dn, fn)'
    BY <1>1, BookStays
  <2> QED BY <1>2, <2>1, <2>2
<1>4. /\ task'[t].v = v /\ task'[t].pc # "idle"
      /\ task'[t].step = task[t].step /\ task'[t].attempt = task[t].attempt
      /\ caller' = caller /\ uploads' = uploads
  OBVIOUS
<1> QED BY <1>1, <1>3, <1>4, Works

\* What a step does to its job.
LEMMA Moved ==
  ASSUME task \in [Tasks -> Jobs], NEW t \in Tasks, NEW w, Goto(t, w)
  PROVE  /\ \A u \in Tasks \ {t} : task'[u] = task[u]
         /\ task'[t].pc = w /\ task'[t].v = task[t].v /\ task'[t].step = task[t].step
         /\ task'[t].attempt = task[t].attempt /\ task'[t].doc = task[t].doc
BY DEF Goto, Jobs

\* What a step does to its job and its copy of the document.
LEMMA Copied ==
  ASSUME task \in [Tasks -> Jobs], NEW t \in Tasks, NEW w, NEW e,
         task' = [task EXCEPT ![t].doc = e, ![t].pc = w]
  PROVE  /\ \A u \in Tasks \ {t} : task'[u] = task[u]
         /\ task'[t].pc = w /\ task'[t].v = task[t].v /\ task'[t].step = task[t].step
         /\ task'[t].attempt = task[t].attempt /\ task'[t].doc = e
BY DEF Jobs

\* A job that is taken up: its document's status is the one its step expects.
LEMMA TakeStepBooks ==
  ASSUME VerificationInv, VerificationInv', BookTypes, BookTypes', troubles = 0, BooksHold,
         NEW t \in Tasks, TakeStep(t)
  PROVE  BooksHold'
<1> DEFINE v == task[t].v
           doc == vjob[v]
           w == FirstPc(task[t].step, doc.status)
           x == task'[t]
<1>1. PICK d \in [Requests -> Int], f \in [Requests -> Nat] : Books(d, f)
  BY DEF BooksHold
<1>2. task[t].pc = "waiting" /\ task' = [task EXCEPT ![t].doc = doc, ![t].pc = w]
  BY DEF TakeStep, At
<1>3. UNCHANGED <<vjob, caller, uploads, pending, joined, left, inconclusive, used, Answered, refused>>
  BY DEF TakeStep, docVars, envVars, provider, Answered, KeepHistory
<1>4. /\ v \in Requests /\ Book(task[t], doc, d[v], f[v]) /\ doc \in Docs /\ task[t] \in Jobs
      /\ d[v] \in Int /\ f[v] \in Nat
  BY <1>1, <1>2, Acting
<1>5. /\ \A u \in Tasks \ {t} : task'[u] = task[u]
      /\ x.pc = w /\ x.v = v /\ x.step = task[t].step
      /\ x.attempt = task[t].attempt /\ x.doc = doc
  <2> HIDE DEF w, doc, x
  <2> QED BY <1>2, Copied, Typed DEF x
<1> HIDE DEF x
<1>6. w \notin {"idle", "finish"} /\ Book(x, doc, d[v], f[v])
  <2>1. task[t].step \in {"upload", "poll", "apply"}
    BY <1>4 DEF Jobs, Steps
  <2>2. CASE task[t].step = "upload"
    <3>1. doc.status = "queued" /\ Full(d[v], doc.reserved, f[v]) /\ Sized(doc.reserved)
      BY <1>2, <1>4, <2>2 DEF Book, UploadBook, ReservedPc
    <3>2. w = "saveUploading"
      BY <2>2, <3>1 DEF FirstPc
    <3> QED BY <1>5, <2>2, <3>1, <3>2 DEF Book, UploadBook, ReservedPc
  <2>3. CASE task[t].step = "poll"
    <3>1. doc.status = "verifying" /\ Charged(doc, d[v], f[v])
      BY <1>2, <1>4, <2>3 DEF Book, LaterBook
    <3>2. w = "progress"
      BY <2>3, <3>1 DEF FirstPc
    <3> QED BY <1>5, <2>3, <3>1, <3>2 DEF Book, LaterBook
  <2>4. CASE task[t].step = "apply"
    <3>1. doc.status = "applying" /\ Charged(doc, d[v], f[v])
      BY <1>2, <1>4, <2>4 DEF Book, LaterBook
    <3>2. w = "download"
      BY <2>4, <3>1 DEF FirstPc
    <3> QED BY <1>5, <2>4, <3>1, <3>2 DEF Book, LaterBook
  <2> QED BY <2>1, <2>2, <2>3, <2>4
<1>7. /\ used' <= used /\ used' - Answered' = used - Answered + d[v] - d[v]
      /\ refused' = refused + f[v] - f[v] /\ doc = vjob'[v] /\ x = task'[t]
      /\ task[t].pc \notin {"idle", "finish"} /\ v = task[t].v
      /\ \A q \in Requests \ {v} : vjob'[q] = vjob[q]
  BY <1>2, <1>3, <1>4, Typed DEF BookTypes, x
<1> HIDE DEF w, v, doc
<1> QED BY <1>1, <1>3, <1>4, <1>5, <1>6, <1>7, WorksAlone

\* GiveBack and Refund: nothing of the reservation is kept.
LEMMA GiveBackBooks ==
  ASSUME VerificationInv, VerificationInv', BookTypes, BookTypes', troubles = 0, BooksHold,
         NEW t \in Tasks, GiveBack(t) \/ Refund(t)
  PROVE  BooksHold'
<1> DEFINE v == task[t].v
           doc == vjob[v]
           e == With(task[t].doc, [reserved |-> 0])
           x == task'[t]
<1>1. PICK d \in [Requests -> Int], f \in [Requests -> Nat] : Books(d, f)
  BY DEF BooksHold
<1> DEFINE dn == d[v] - task[t].doc.reserved
<1>2. /\ task[t].pc \in {"giveBack", "refund"} /\ task' = [task EXCEPT ![t].doc = e, ![t].pc = "fail"]
      /\ used' = used - task[t].doc.reserved
  BY Typed DEF GiveBack, Refund, At
<1>3. UNCHANGED <<vjob, caller, uploads, pending, joined, left, inconclusive, Answered, refused>>
  BY DEF GiveBack, Refund, docVars, envVars, provider, Answered, KeepHistory
<1>4. /\ v \in Requests /\ Book(task[t], doc, d[v], f[v]) /\ doc \in Docs /\ task[t] \in Jobs
      /\ d[v] \in Int /\ f[v] \in Nat /\ TaskFits(task[t], vjob[v], accepted[v], checked[v], refused)
  BY <1>1, <1>2, Acting
<1>5. /\ \A u \in Tasks \ {t} : task'[u] = task[u]
      /\ x.pc = "fail" /\ x.v = v /\ x.step = task[t].step
      /\ x.attempt = task[t].attempt /\ x.doc = e
  <2> HIDE DEF e, x
  <2> QED BY <1>2, Copied, Typed DEF x
<1>6. e.reserved = 0
  BY Typed, WithHeld
<1>7. dn \in Int /\ dn <= 0 /\ dn + joined + left * f[v] >= 0 /\ task[t].doc.reserved >= 0
  <2>1. /\ doc.reserved \in Int /\ task[t].doc.reserved \in Int /\ joined \in Nat
        /\ left \in Nat /\ left * f[v] \in Nat
    BY <1>4, Numbers, Times DEF BookTypes
  <2>2. CASE task[t].pc = "giveBack"
    <3>1. task[t].step = "upload"
      BY <1>4, <2>2 DEF TaskFits, StepFits, OnlyUpload
    <3>2. /\ Full(d[v], doc.reserved, f[v]) /\ task[t].doc.reserved = doc.reserved
          /\ doc.reserved \in Nat
      BY <1>4, <2>2, <3>1 DEF Book, UploadBook, ReservedPc, Sized
    <3> QED BY <1>4, <2>1, <3>2 DEF Full
  <2>3. CASE task[t].pc = "refund"
    <3>1. task[t].step = "poll"
      BY <1>4, <2>3 DEF TaskFits, StepFits, OnlyPoll
    <3>2. Short(d[v], task[t].doc.reserved, f[v]) /\ task[t].doc.reserved \in Nat
      BY <1>4, <2>3, <3>1, Numbers DEF Book, LaterBook
    <3> QED BY <1>4, <2>1, <3>2 DEF Short
  <2> QED BY <1>2, <2>2, <2>3
<1> HIDE DEF x, e
<1>8. Book(x, doc, dn, f[v])
  BY <1>5, <1>6, <1>7 DEF Book, UploadBook, LaterBook, ReservedPc, ChargedPc
<1>9. /\ used' - Answered' = used - Answered + dn - d[v] /\ used' <= used
      /\ refused' = refused + f[v] - f[v] /\ doc = vjob'[v] /\ x = task'[t]
      /\ task[t].pc \notin {"idle", "finish"} /\ v = task[t].v
      /\ \A q \in Requests \ {v} : vjob'[q] = vjob[q]
  <2>1. task[t].doc.reserved \in Int
    BY <1>4, Numbers
  <2>2. used' <= used /\ used' - Answered' = used - Answered + dn - d[v]
    BY <1>2, <1>3, <1>4, <1>7, <2>1 DEF BookTypes
  <2> QED BY <1>2, <1>3, <1>4, <2>2, Typed DEF x
<1> HIDE DEF v, doc, dn
<1> QED BY <1>1, <1>3, <1>4, <1>5, <1>7, <1>8, <1>9, WorksAlone

\* What a save does to the job and its document.
LEMMA Saved ==
  ASSUME task \in [Tasks -> Jobs], vjob \in [Requests -> Docs], NEW t \in Tasks,
         task[t].v \in Requests, NEW fields, NEW w, Save(t, fields, w)
  PROVE  /\ \A u \in Tasks \ {t} : task'[u] = task[u]
         /\ task'[t].pc = w /\ task'[t].v = task[t].v /\ task'[t].step = task[t].step
         /\ task'[t].attempt = task[t].attempt /\ task'[t].doc = With(task[t].doc, fields)
         /\ \A r \in Requests \ {task[t].v} : vjob'[r] = vjob[r]
         /\ vjob'[task[t].v] = With(vjob[task[t].v], fields)
         /\ UNCHANGED <<caller, uploads, pending, joined, left, inconclusive, used, Answered, refused>>
<1> DEFINE e == With(task[t].doc, fields)
           d == With(vjob[task[t].v], fields)
<1>1. task' = [task EXCEPT ![t].doc = e, ![t].pc = w]
  BY DEF Save
<1>2. vjob' = [vjob EXCEPT ![task[t].v] = d]
  BY DEF Save
<1>3. UNCHANGED <<caller, uploads, pending, joined, left, inconclusive, used, Answered, refused>>
  BY DEF Save, envVars, provider, Answered, KeepHistory
<1> HIDE DEF e, d
<1>4. /\ \A u \in Tasks \ {t} : task'[u] = task[u]
      /\ task'[t].pc = w /\ task'[t].v = task[t].v /\ task'[t].step = task[t].step
      /\ task'[t].attempt = task[t].attempt /\ task'[t].doc = e
  BY <1>1 DEF Jobs
<1>5. /\ vjob'[task[t].v] = d
      /\ \A r \in Requests \ {task[t].v} : vjob'[r] = vjob[r]
  BY <1>2
<1> QED BY <1>3, <1>4, <1>5 DEF e, d

\* A save leaves the counter alone.
LEMMA SaveBooks ==
  ASSUME VerificationInv, VerificationInv', BookTypes, BookTypes', troubles = 0,
         NEW d \in [Requests -> Int], NEW f \in [Requests -> Nat], Books(d, f),
         NEW t \in Tasks, task[t].pc \notin {"idle", "finish"}, NEW v, v = task[t].v,
         NEW fields, NEW w, w # "idle", Save(t, fields, w),
         \A x \in Jobs :
             /\ x.pc = w /\ x.v = v /\ x.step = task[t].step
             /\ x.doc = With(task[t].doc, fields)
             => IF w = "finish" THEN Rest(With(vjob[v], fields), d[v], f[v])
                ELSE Book(x, With(vjob[v], fields), d[v], f[v])
  PROVE  BooksHold'
<1> DEFINE x == task'[t]
           doc == vjob'[v]
<1>0. v \in Requests /\ d[v] \in Int /\ f[v] \in Nat
  BY Acting
<1>1. /\ \A u \in Tasks \ {t} : task'[u] = task[u]
      /\ x.pc = w /\ x.v = v /\ x.step = task[t].step
      /\ x.attempt = task[t].attempt /\ x.doc = With(task[t].doc, fields)
      /\ \A r \in Requests \ {v} : vjob'[r] = vjob[r]
      /\ doc = With(vjob[v], fields)
      /\ UNCHANGED <<caller, uploads, pending, joined, left, inconclusive, used, Answered, refused>>
  <2>1. task \in [Tasks -> Jobs] /\ vjob \in [Requests -> Docs] /\ task[t].v \in Requests
    BY <1>0, Typed
  <2> QED BY <2>1, Saved
<1>2. x \in Jobs
  BY DEF VerificationInv, Types
<1>3. IF x.pc = "finish" THEN Rest(doc, d[v], f[v]) ELSE Book(x, doc, d[v], f[v])
  BY <1>1, <1>2
<1>4. /\ used' <= used /\ used' - Answered' = used - Answered + d[v] - d[v]
      /\ refused' = refused + f[v] - f[v] /\ doc = vjob'[v] /\ x = task'[t]
  BY <1>0, <1>1, Typed DEF BookTypes
<1> HIDE DEF x, doc
<1> QED BY <1>0, <1>1, <1>3, <1>4, WorksAlone

\* The upload is on its way.
LEMMA SaveUploadingBooks ==
  ASSUME VerificationInv, VerificationInv', BookTypes, BookTypes', troubles = 0, BooksHold,
         NEW t \in Tasks, SaveUploading(t)
  PROVE  BooksHold'
<1> DEFINE fields == [status |-> "uploading"]
           v == task[t].v
           e == With(task[t].doc, fields)
           doc == With(vjob[v], fields)
<1>1. PICK d \in [Requests -> Int], f \in [Requests -> Nat] : Books(d, f)
  BY DEF BooksHold
<1>2. task[t].pc = "saveUploading" /\ Save(t, fields, "read")
  BY DEF SaveUploading, At
<1>3. /\ v \in Requests /\ Book(task[t], vjob[v], d[v], f[v])
      /\ TaskFits(task[t], vjob[v], accepted[v], checked[v], refused)
  BY <1>1, <1>2, Acting
<1>4. task[t].step = "upload"
  BY <1>2, <1>3 DEF TaskFits, StepFits, OnlyUpload
<1>5. /\ Full(d[v], vjob[v].reserved, f[v]) /\ Sized(vjob[v].reserved)
      /\ task[t].doc.reserved = vjob[v].reserved
  BY <1>2, <1>3, <1>4 DEF Book, UploadBook, ReservedPc
<1>6. e.reserved = vjob[v].reserved /\ doc.reserved = vjob[v].reserved
  BY <1>2, <1>5, Typed, WithStatus DEF Active
<1> HIDE DEF e, doc
<1>7. ASSUME NEW x \in Jobs, x.pc = "read", x.step = task[t].step, x.doc = e
      PROVE  Book(x, doc, d[v], f[v])
  BY <1>4, <1>5, <1>6, <1>7 DEF Book, UploadBook, ReservedPc
<1> HIDE DEF v, fields
<1>8. v = task[t].v
  BY DEF v
<1> QED BY <1>1, <1>2, <1>7, <1>8, SaveBooks DEF e, doc

\* What was refused for the rate of requests waits for its next attempt, or is given back.
LEMMA SaveQueuedBooks ==
  ASSUME VerificationInv, VerificationInv', BookTypes, BookTypes', troubles = 0, BooksHold,
         NEW t \in Tasks, SaveQueued(t)
  PROVE  BooksHold'
<1> DEFINE fields == [status |-> "queued"]
           v == task[t].v
           e == With(task[t].doc, fields)
           doc == With(vjob[v], fields)
           w == AfterError(task[t], TRUE)
<1>1. PICK d \in [Requests -> Int], f \in [Requests -> Nat] : Books(d, f)
  BY DEF BooksHold
<1>2. task[t].pc = "saveQueued" /\ Save(t, fields, w)
  BY DEF SaveQueued, At
<1>3. /\ v \in Requests /\ Book(task[t], vjob[v], d[v], f[v])
      /\ TaskFits(task[t], vjob[v], accepted[v], checked[v], refused)
  BY <1>1, <1>2, Acting
<1>4. task[t].step = "upload" /\ task[t].doc.status = "queued"
  BY <1>2, <1>3 DEF TaskFits, StepFits, CopyFits, OnlyUpload
<1>5. /\ Full(d[v], vjob[v].reserved, f[v]) /\ Sized(vjob[v].reserved)
      /\ task[t].doc.reserved = vjob[v].reserved
  BY <1>2, <1>3, <1>4 DEF Book, UploadBook, ReservedPc
<1>6. e.reserved = vjob[v].reserved /\ doc.reserved = vjob[v].reserved /\ doc.status = "queued"
  BY <1>2, <1>5, Typed, WithStatus DEF Active
<1>7. w \in {"retry", "giveBack"}
  BY <1>4, Typed, ErrorIs
<1> HIDE DEF e, doc, w
<1>8. ASSUME NEW x \in Jobs, x.pc = w, x.step = task[t].step, x.doc = e
      PROVE  Book(x, doc, d[v], f[v])
  BY <1>4, <1>5, <1>6, <1>7, <1>8 DEF Book, UploadBook, ReservedPc
<1> HIDE DEF v, fields
<1>9. v = task[t].v /\ w \notin {"idle", "finish"}
  BY <1>7 DEF v
<1> QED BY <1>1, <1>2, <1>8, <1>9, SaveBooks DEF e, doc

\* A document that fails keeps its reservation, or holds none.
LEMMA FailBooks ==
  ASSUME VerificationInv, VerificationInv', BookTypes, BookTypes', troubles = 0, BooksHold,
         NEW t \in Tasks, Fail(t)
  PROVE  BooksHold'
<1> DEFINE v == task[t].v
           n == IF task[t].doc.reserved = 0 THEN 0 ELSE vjob[v].reserved
           fields == [status |-> "failed", reserved |-> n]
           doc == With(vjob[v], fields)
<1>1. PICK d \in [Requests -> Int], f \in [Requests -> Nat] : Books(d, f)
  BY DEF BooksHold
<1>2. task[t].pc = "fail" /\ Save(t, fields, "finish")
  BY DEF Fail, At
<1>3. v \in Requests /\ Book(task[t], vjob[v], d[v], f[v])
  BY <1>1, <1>2, Acting
<1>4. d[v] + joined + left * f[v] >= 0 /\ d[v] <= n
  BY <1>2, <1>3 DEF Book
<1>5. n \in Int /\ vjob[v] \in Docs
  BY <1>2, <1>3, Typed DEF Docs
<1> HIDE DEF n
<1>6. doc.status = "failed" /\ doc.reserved = n
  BY <1>5, WithReserved DEF Ended
<1> HIDE DEF doc
<1>7. Rest(doc, d[v], f[v])
  BY <1>4, <1>6 DEF Rest, Ended
<1> HIDE DEF v, fields
<1>8. v = task[t].v
  BY DEF v
<1> QED BY <1>1, <1>2, <1>7, <1>8, SaveBooks DEF doc

\* A list nobody is left in holds nothing.
LEMMA SaveEmptyBooks ==
  ASSUME VerificationInv, VerificationInv', BookTypes, BookTypes', troubles = 0, BooksHold,
         NEW t \in Tasks, SaveEmpty(t)
  PROVE  BooksHold'
<1> DEFINE v == task[t].v
           fields == [status |-> "done", reserved |-> 0, batch |-> {}]
           doc == With(vjob[v], fields)
<1>1. PICK d \in [Requests -> Int], f \in [Requests -> Nat] : Books(d, f)
  BY DEF BooksHold
<1>2. task[t].pc = "saveEmpty" /\ Save(t, fields, "finish")
  BY DEF SaveEmpty, At
<1>3. /\ v \in Requests /\ Book(task[t], vjob[v], d[v], f[v]) /\ d[v] \in Int /\ f[v] \in Nat
      /\ TaskFits(task[t], vjob[v], accepted[v], checked[v], refused) /\ vjob[v] \in Docs
  BY <1>1, <1>2, Acting
<1>4. task[t].step = "upload"
  BY <1>2, <1>3 DEF TaskFits, StepFits, OnlyUpload
<1>5. Short(d[v], 0, f[v])
  <2>1. task[t].doc.batch = {} /\ Short(d[v], Cardinality(task[t].doc.batch), f[v])
    BY <1>2, <1>3, <1>4 DEF Book, UploadBook
  <2>2. Cardinality(task[t].doc.batch) = 0
    BY <2>1, FS_EmptySet
  <2> QED BY <2>1, <2>2
<1>6. doc.status = "done"
  <2>1. 0 \in Int /\ {} \in SUBSET Contacts /\ "done" \in {"none"} \cup Active \cup Ended
    BY DEF Ended
  <2> QED BY <1>3, <2>1, WithAll
<1> HIDE DEF doc
<1>7. Rest(doc, d[v], f[v])
  BY <1>5, <1>6 DEF Rest, Ended, Short
<1> HIDE DEF v, fields
<1>8. v = task[t].v
  BY DEF v
<1> QED BY <1>1, <1>2, <1>7, <1>8, SaveBooks DEF doc

\* A step that moves on, and what it does to the counter, to what is charged and to the
\* refusals.
LEMMA GotoBooks ==
  ASSUME VerificationInv, VerificationInv', BookTypes, BookTypes', troubles = 0,
         NEW d \in [Requests -> Int], NEW f \in [Requests -> Nat], Books(d, f),
         NEW t \in Tasks, task[t].pc \notin {"idle", "finish"}, NEW v, v = task[t].v,
         NEW w, w # "idle", Goto(t, w),
         UNCHANGED <<vjob, caller, uploads, pending, joined, left, inconclusive>>,
         used' <= used, NEW dn \in Int, NEW fn \in Nat,
         used' - Answered' = used - Answered + dn - d[v], refused' = refused + fn - f[v],
         \A x \in Jobs :
             x.pc = w /\ x.v = v /\ x.step = task[t].step /\ x.doc = task[t].doc
             => IF w = "finish" THEN Rest(vjob[v], dn, fn) ELSE Book(x, vjob[v], dn, fn)
  PROVE  BooksHold'
<1> DEFINE x == task'[t]
           doc == vjob'[v]
<1>0. v \in Requests /\ doc = vjob[v]
  BY Acting
<1>1. /\ \A u \in Tasks \ {t} : task'[u] = task[u]
      /\ x.pc = w /\ x.v = v /\ x.step = task[t].step
      /\ x.attempt = task[t].attempt /\ x.doc = task[t].doc
  BY Moved, Typed
<1>2. x \in Jobs
  BY DEF VerificationInv, Types
<1>3. IF x.pc = "finish" THEN Rest(doc, dn, fn) ELSE Book(x, doc, dn, fn)
  BY <1>0, <1>1, <1>2
<1>4. /\ doc = vjob'[v] /\ x = task'[t] /\ \A q \in Requests \ {v} : vjob'[q] = vjob[q]
  OBVIOUS
<1> HIDE DEF x, doc
<1> QED BY <1>1, <1>3, <1>4, WorksAlone

\* The list is read again: no longer than what was reserved and the contacts that joined,
\* no shorter than that without those that left.
LEMMA ReadPendingBooks ==
  ASSUME VerificationInv, VerificationInv', BookTypes, BookTypes', troubles = 0, BooksHold,
         NEW t \in Tasks, ReadPending(t)
  PROVE  BooksHold'
<1> DEFINE v == task[t].v
           doc == vjob[v]
           e == With(task[t].doc, [batch |-> pending])
           n == Cardinality(pending)
           w == IF task[t].doc.reserved > n THEN "releaseUnused" ELSE AfterRead(pending)
           x == task'[t]
<1>1. PICK d \in [Requests -> Int], f \in [Requests -> Nat] : Books(d, f)
  BY DEF BooksHold
<1>2. task[t].pc = "read" /\ task' = [task EXCEPT ![t].doc = e, ![t].pc = w]
  BY DEF ReadPending, At
<1>3. UNCHANGED <<vjob, caller, uploads, pending, joined, left, inconclusive, used, Answered, refused>>
  BY DEF ReadPending, docVars, envVars, provider, Answered, KeepHistory
<1>4. /\ v \in Requests /\ Book(task[t], doc, d[v], f[v]) /\ doc \in Docs /\ task[t] \in Jobs
      /\ d[v] \in Int /\ f[v] \in Nat /\ TaskFits(task[t], vjob[v], accepted[v], checked[v], refused)
  BY <1>1, <1>2, Acting
<1>5. /\ \A u \in Tasks \ {t} : task'[u] = task[u]
      /\ x.pc = w /\ x.v = v /\ x.step = task[t].step
      /\ x.attempt = task[t].attempt /\ x.doc = e
  <2> HIDE DEF e, w, x
  <2> QED BY <1>2, Copied, Typed DEF x
<1>6. /\ task[t].step = "upload" /\ Full(d[v], doc.reserved, f[v]) /\ Sized(doc.reserved)
      /\ task[t].doc.reserved = doc.reserved
  <2>1. task[t].step = "upload"
    BY <1>2, <1>4 DEF TaskFits, StepFits, OnlyUpload
  <2> QED BY <1>2, <1>4, <2>1 DEF Book, UploadBook, ReservedPc
<1>7. e.reserved = doc.reserved /\ e.batch = pending /\ Cardinality(e.batch) = n
  BY <1>6, Typed, WithBatch
<1>8. n \in Nat /\ (n = 0 <=> pending = {}) /\ joined \in Nat /\ left \in Nat /\ left * f[v] \in Nat
  BY <1>4, Sizes, Typed, Times DEF BookTypes
<1> HIDE DEF n, e, x, doc
<1>9. w \notin {"idle", "finish"} /\ Book(x, doc, d[v], f[v])
  <2>1. doc.reserved \in Nat /\ doc.reserved <= n + left /\ n <= doc.reserved + joined
    BY <1>6 DEF Sized, n
  <2>2. CASE doc.reserved > n
    <3>1. w = "releaseUnused"
      BY <1>6, <2>2 DEF n
    <3> QED BY <1>5, <1>6, <1>7, <2>1, <2>2, <3>1 DEF Book, UploadBook, ReservedPc
  <2>3. CASE doc.reserved <= n
    <3>1. w \in {"saveEmpty", "upload"} /\ (w = "saveEmpty" => pending = {})
      BY <1>6, <1>8, <2>1, <2>3 DEF AfterRead, n
    <3>2. /\ Short(d[v], n, f[v]) /\ d[v] <= doc.reserved
          /\ d[v] + left * f[v] + left >= doc.reserved
      <4> DEFINE a == left * f[v]
      <4>1. a \in Nat /\ d[v] <= doc.reserved /\ d[v] + a >= doc.reserved
        BY <1>6, <1>8 DEF Full
      <4> HIDE DEF a
      <4>2. d[v] <= n /\ d[v] + joined + a >= n /\ d[v] + a + left >= doc.reserved
        BY <1>4, <1>8, <2>1, <2>3, <4>1
      <4> QED BY <4>1, <4>2 DEF Short, a
    <3> HIDE DEF w
    <3> QED BY <1>5, <1>6, <1>7, <3>1, <3>2 DEF Book, UploadBook, ReservedPc
  <2> QED BY <1>8, <2>1, <2>2, <2>3
<1>10. /\ used' <= used /\ used' - Answered' = used - Answered + d[v] - d[v]
      /\ refused' = refused + f[v] - f[v] /\ doc = vjob'[v] /\ x = task'[t]
      /\ task[t].pc \notin {"idle", "finish"} /\ v = task[t].v
      /\ \A q \in Requests \ {v} : vjob'[q] = vjob[q]
  BY <1>2, <1>3, <1>4, Typed DEF BookTypes, x, doc
<1> HIDE DEF w, v
<1> QED BY <1>1, <1>3, <1>4, <1>5, <1>9, <1>10, WorksAlone

\* What the shorter list does not need is given back.
LEMMA ReleaseUnusedBooks ==
  ASSUME VerificationInv, VerificationInv', BookTypes, BookTypes', troubles = 0, BooksHold,
         NEW t \in Tasks, ReleaseUnused(t)
  PROVE  BooksHold'
<1> DEFINE v == task[t].v
           doc == vjob[v]
           n == Cardinality(task[t].doc.batch)
           w == AfterRead(task[t].doc.batch)
<1>1. PICK d \in [Requests -> Int], f \in [Requests -> Nat] : Books(d, f)
  BY DEF BooksHold
<1> DEFINE dn == d[v] - (doc.reserved - n)
<1>2. task[t].pc = "releaseUnused" /\ Goto(t, w) /\ used' = used - Unused(t)
  BY DEF ReleaseUnused, Release, At
<1>3. UNCHANGED <<vjob, caller, uploads, pending, joined, left, inconclusive, Answered, refused>>
  BY DEF ReleaseUnused, Release, docVars, envVars, provider, Answered, KeepHistory
<1>4. /\ v \in Requests /\ Book(task[t], doc, d[v], f[v]) /\ doc \in Docs /\ task[t] \in Jobs
      /\ d[v] \in Int /\ f[v] \in Nat /\ TaskFits(task[t], vjob[v], accepted[v], checked[v], refused)
  BY <1>1, <1>2, Acting
<1>5. /\ task[t].step = "upload" /\ Full(d[v], doc.reserved, f[v]) /\ Sized(doc.reserved)
      /\ task[t].doc.reserved = doc.reserved /\ n < doc.reserved /\ doc.reserved <= n + left
  <2>1. task[t].step = "upload"
    BY <1>2, <1>4 DEF TaskFits, StepFits, OnlyUpload
  <2> QED BY <1>2, <1>4, <2>1 DEF Book, UploadBook, ReservedPc
<1>6. /\ n \in Nat /\ (n = 0 <=> task[t].doc.batch = {}) /\ doc.reserved \in Nat
      /\ joined \in Nat /\ left \in Nat /\ left * f[v] \in Nat
  <2>1. task[t].doc.batch \in SUBSET Contacts
    BY <1>4, Numbers
  <2> QED BY <1>4, <1>5, <2>1, Sizes, Times DEF BookTypes, Sized
<1>7. /\ dn \in Int /\ Short(dn, n, f[v]) /\ dn <= doc.reserved
      /\ dn + left * f[v] + left >= doc.reserved
  <2> DEFINE a == left * f[v]
             r == doc.reserved
  <2>1. a \in Nat /\ d[v] <= r /\ d[v] + a >= r /\ r \in Nat
    BY <1>5, <1>6 DEF Full
  <2> HIDE DEF a, n, r
  <2>2. dn \in Int /\ dn <= n /\ dn + joined + a >= n /\ dn <= r /\ dn + a + left >= r
    BY <1>4, <1>5, <1>6, <2>1 DEF r
  <2> QED BY <2>1, <2>2 DEF Short, a, r
<1>8. w \in {"saveEmpty", "upload"} /\ (w = "saveEmpty" => task[t].doc.batch = {})
  BY DEF AfterRead
<1>9. used' <= used /\ used' - Answered' = used - Answered + dn - d[v]
  BY <1>2, <1>3, <1>4, <1>5, <1>6 DEF Unused, BookTypes
<1>10. refused' = refused + f[v] - f[v]
  BY <1>3, <1>4, Typed
<1> HIDE DEF w, dn
<1>11. ASSUME NEW x \in Jobs, x.pc = w, x.step = task[t].step, x.doc = task[t].doc
       PROVE  Book(x, doc, dn, f[v])
  BY <1>5, <1>7, <1>8, <1>11 DEF Book, UploadBook, ReservedPc
<1>12. w \notin {"idle", "finish"} /\ task[t].pc \notin {"idle", "finish"} /\ v = task[t].v
  BY <1>2, <1>8
<1> HIDE DEF v
<1> QED BY <1>1, <1>2, <1>3, <1>4, <1>7, <1>9, <1>10, <1>11, <1>12, GotoBooks

\* What the provider did not verify is given back.
LEMMA ReleaseUnknownBooks ==
  ASSUME VerificationInv, VerificationInv', BookTypes, BookTypes', troubles = 0, BooksHold,
         NEW t \in Tasks, ReleaseUnknown(t)
  PROVE  BooksHold'
<1> DEFINE v == task[t].v
           doc == vjob[v]
           n == Unknown(task[t].doc.batch)
<1>1. PICK d \in [Requests -> Int], f \in [Requests -> Nat] : Books(d, f)
  BY DEF BooksHold
<1> DEFINE dn == d[v] - n
<1>2. task[t].pc = "releaseUnknown" /\ Goto(t, "saveDone") /\ used' = used - n
  BY DEF ReleaseUnknown, Release, At, Unknown
<1>3. UNCHANGED <<vjob, caller, uploads, pending, joined, left, inconclusive, Answered, refused>>
  BY DEF ReleaseUnknown, Release, docVars, envVars, provider, Answered, KeepHistory
<1>4. /\ v \in Requests /\ Book(task[t], doc, d[v], f[v]) /\ doc \in Docs /\ task[t] \in Jobs
      /\ d[v] \in Int /\ f[v] \in Nat /\ TaskFits(task[t], vjob[v], accepted[v], checked[v], refused)
  BY <1>1, <1>2, Acting
<1>5. task[t].step = "apply" /\ Short(d[v], n, f[v])
  <2>1. task[t].step = "apply"
    BY <1>2, <1>4 DEF TaskFits, StepFits, OnlyApply
  <2>2. Charged(doc, d[v], f[v]) /\ task[t].doc = doc
    BY <1>2, <1>4, <2>1 DEF Book, ChargedPc
  <2> QED BY <2>1, <2>2 DEF Charged
<1>6. n \in Nat /\ joined \in Nat /\ left * f[v] \in Nat
  BY <1>4, Numbers, Times DEF BookTypes
<1> HIDE DEF n
<1>7. dn \in Int /\ Short(dn, 0, f[v])
  BY <1>4, <1>5, <1>6 DEF Short
<1>8. used' <= used /\ used' - Answered' = used - Answered + dn - d[v]
  BY <1>2, <1>3, <1>4, <1>6 DEF BookTypes
<1>9. refused' = refused + f[v] - f[v]
  BY <1>3, <1>4, Typed
<1> HIDE DEF dn
<1>10. ASSUME NEW x \in Jobs, x.pc = "saveDone", x.step = task[t].step
       PROVE  Book(x, doc, dn, f[v])
  BY <1>5, <1>7, <1>10 DEF Book, LaterBook, ChargedPc
<1>11. task[t].pc \notin {"idle", "finish"} /\ v = task[t].v
  BY <1>2
<1> HIDE DEF v
<1> QED BY <1>1, <1>2, <1>3, <1>4, <1>7, <1>8, <1>9, <1>10, <1>11, GotoBooks

\* The list is deleted at the provider when its document is done.
LEMMA DeleteListBooks ==
  ASSUME VerificationInv, VerificationInv', BookTypes, BookTypes', troubles = 0, BooksHold,
         NEW t \in Tasks, DeleteList(t)
  PROVE  BooksHold'
<1> DEFINE v == task[t].v
           doc == vjob[v]
<1>1. PICK d \in [Requests -> Int], f \in [Requests -> Nat] : Books(d, f)
  BY DEF BooksHold
<1>2. task[t].pc = "deleteList" /\ Goto(t, "finish")
  BY DEF DeleteList, At
<1>3. UNCHANGED <<vjob, caller, uploads, pending, joined, left, inconclusive, used, Answered, refused>>
  BY DEF DeleteList, docVars, envVars, KeepHistory, Answered
<1>4. /\ v \in Requests /\ Book(task[t], doc, d[v], f[v])
      /\ d[v] \in Int /\ f[v] \in Nat /\ TaskFits(task[t], vjob[v], accepted[v], checked[v], refused)
  BY <1>1, <1>2, Acting
<1>5. doc.status = "done" /\ Short(d[v], 0, f[v])
  <2>1. task[t].step = "apply"
    BY <1>2, <1>4 DEF TaskFits, StepFits, OnlyApply
  <2> QED BY <1>2, <1>4, <2>1 DEF Book, LaterBook
<1>6. Rest(doc, d[v], f[v])
  BY <1>5 DEF Rest, Short, Ended
<1>7. used' <= used /\ used' - Answered' = used - Answered + d[v] - d[v] /\ refused' = refused + f[v] - f[v]
  BY <1>3, <1>4, Typed DEF BookTypes
<1>8. task[t].pc \notin {"idle", "finish"} /\ v = task[t].v
  BY <1>2
<1> HIDE DEF v
<1> QED BY <1>1, <1>2, <1>3, <1>4, <1>6, <1>7, <1>8, GotoBooks

\* The reservation of an accepted list is its length.
LEMMA SaveVerifyingBooks ==
  ASSUME VerificationInv, VerificationInv', BookTypes, BookTypes', troubles = 0, BooksHold,
         NEW t \in Tasks, SaveVerifying(t)
  PROVE  BooksHold'
<1> DEFINE v == task[t].v
           b == task[t].doc.batch
           n == Cardinality(b)
           fields == [status |-> "verifying", reserved |-> n, batch |-> b]
           e == With(task[t].doc, fields)
           doc == With(vjob[v], fields)
<1>1. PICK d \in [Requests -> Int], f \in [Requests -> Nat] : Books(d, f)
  BY DEF BooksHold
<1>2. task[t].pc = "saveVerifying" /\ Save(t, fields, "enqueuePoll")
  BY DEF SaveVerifying, At
<1>3. /\ v \in Requests /\ Book(task[t], vjob[v], d[v], f[v]) /\ vjob[v] \in Docs /\ task[t] \in Jobs
      /\ TaskFits(task[t], vjob[v], accepted[v], checked[v], refused)
  BY <1>1, <1>2, Acting
<1>4. task[t].step = "upload" /\ Short(d[v], Unknown(b), f[v])
  <2>1. task[t].step = "upload"
    BY <1>2, <1>3 DEF TaskFits, StepFits, OnlyUpload
  <2> QED BY <1>2, <1>3, <2>1 DEF Book, UploadBook
<1>5. n \in Nat /\ b \in SUBSET Contacts /\ task[t].doc \in Docs
  BY <1>3, Numbers, Typed
<1> HIDE DEF n, b
<1>6. e = [status |-> "verifying", reserved |-> n, batch |-> b] /\ doc = e
  BY <1>3, <1>5 DEF With, Docs
<1>7. Charged(doc, d[v], f[v])
  BY <1>4, <1>6 DEF Charged, n
<1> HIDE DEF e, doc
<1>8. ASSUME NEW x \in Jobs, x.pc = "enqueuePoll", x.step = task[t].step, x.doc = e
      PROVE  Book(x, doc, d[v], f[v])
  BY <1>4, <1>6, <1>7, <1>8 DEF Book, UploadBook, ReservedPc, ChargedPc
<1> HIDE DEF v, fields
<1>9. v = task[t].v
  BY DEF v
<1> QED BY <1>1, <1>2, <1>8, <1>9, SaveBooks DEF e, doc

\* The poll and the apply step record where the document is.
LEMMA SaveApplyingBooks ==
  ASSUME VerificationInv, VerificationInv', BookTypes, BookTypes', troubles = 0, BooksHold,
         NEW t \in Tasks, SaveApplying(t)
  PROVE  BooksHold'
<1> DEFINE v == task[t].v
           fields == [status |-> "applying"]
           e == With(task[t].doc, fields)
           doc == With(vjob[v], fields)
<1>1. PICK d \in [Requests -> Int], f \in [Requests -> Nat] : Books(d, f)
  BY DEF BooksHold
<1>2. task[t].pc = "saveApplying" /\ Save(t, fields, "enqueueApply")
  BY DEF SaveApplying, At
<1>3. /\ v \in Requests /\ Book(task[t], vjob[v], d[v], f[v]) /\ vjob[v] \in Docs
      /\ TaskFits(task[t], vjob[v], accepted[v], checked[v], refused)
  BY <1>1, <1>2, Acting
<1>4. task[t].step = "poll" /\ Charged(vjob[v], d[v], f[v]) /\ task[t].doc = vjob[v]
  <2>1. task[t].step = "poll"
    BY <1>2, <1>3 DEF TaskFits, StepFits, OnlyPoll
  <2> QED BY <1>2, <1>3, <2>1 DEF Book, ChargedPc
<1>5. e = doc /\ doc.status = "applying" /\ doc.reserved = vjob[v].reserved /\ doc.batch = vjob[v].batch
  BY <1>3, <1>4, WithStatus DEF Active
<1> HIDE DEF e, doc
<1>6. Charged(doc, d[v], f[v])
  BY <1>4, <1>5 DEF Charged
<1>7. ASSUME NEW x \in Jobs, x.pc = "enqueueApply", x.step = task[t].step, x.doc = e
      PROVE  Book(x, doc, d[v], f[v])
  BY <1>4, <1>5, <1>6, <1>7 DEF Book, LaterBook, ChargedPc
<1> HIDE DEF v, fields
<1>8. v = task[t].v
  BY DEF v
<1> QED BY <1>1, <1>2, <1>7, <1>8, SaveBooks DEF e, doc

\* A document that is done holds nothing.
LEMMA SaveDoneBooks ==
  ASSUME VerificationInv, VerificationInv', BookTypes, BookTypes', troubles = 0, BooksHold,
         NEW t \in Tasks, SaveDone(t)
  PROVE  BooksHold'
<1> DEFINE v == task[t].v
           fields == [status |-> "done"]
           doc == With(vjob[v], fields)
<1>1. PICK d \in [Requests -> Int], f \in [Requests -> Nat] : Books(d, f)
  BY DEF BooksHold
<1>2. task[t].pc = "saveDone" /\ Save(t, fields, "deleteList")
  BY DEF SaveDone, At
<1>3. /\ v \in Requests /\ Book(task[t], vjob[v], d[v], f[v]) /\ vjob[v] \in Docs
      /\ TaskFits(task[t], vjob[v], accepted[v], checked[v], refused)
  BY <1>1, <1>2, Acting
<1>4. task[t].step = "apply" /\ Short(d[v], 0, f[v])
  <2>1. task[t].step = "apply"
    BY <1>2, <1>3 DEF TaskFits, StepFits, OnlyApply
  <2> QED BY <1>2, <1>3, <2>1 DEF Book, LaterBook
<1>5. doc.status = "done"
  BY <1>3, WithStatus DEF Ended
<1> HIDE DEF doc
<1>6. ASSUME NEW x \in Jobs, x.pc = "deleteList", x.step = task[t].step
      PROVE  Book(x, doc, d[v], f[v])
  BY <1>4, <1>5, <1>6 DEF Book, LaterBook, ChargedPc
<1> HIDE DEF v, fields
<1>7. v = task[t].v
  BY DEF v
<1> QED BY <1>1, <1>2, <1>6, <1>7, SaveBooks DEF doc

-----------------------------------------------------------------------------
(* The steps that add a job.                                                *)
LEMMA EnqueuePollBooks ==
  ASSUME VerificationInv, VerificationInv', BookTypes, BookTypes', troubles = 0, BooksHold,
         NEW t \in Tasks, EnqueuePoll(t) \/ EnqueueApply(t)
  PROVE  BooksHold'
<1> DEFINE v == task[t].v
           step == IF task[t].pc = "enqueuePoll" THEN "poll" ELSE "apply"
           doc == vjob[v]
           x == Waiting(v, step, 0, FALSE)
<1>1. PICK d \in [Requests -> Int], f \in [Requests -> Nat] : Books(d, f)
  BY DEF BooksHold
<1>2. task[t].pc \in {"enqueuePoll", "enqueueApply"} /\ Enqueue(Finished(t), v, step, 0)
  BY DEF EnqueuePoll, EnqueueApply, At
<1>3. UNCHANGED <<vjob, caller, pending, joined, left, inconclusive, used, Answered, refused>>
  BY DEF EnqueuePoll, EnqueueApply, docVars, envVars, provider, Answered, KeepHistory
<1>4. Book(task[t], doc, d[v], f[v]) /\ TaskFits(task[t], doc, accepted[v], checked[v], refused)
  BY <1>1, <1>2, Acting
<1>5. /\ Charged(doc, d[v], f[v])
      /\ doc.status = IF step = "poll" THEN "verifying" ELSE "applying"
  <2>1. task[t].pc = "enqueueApply" => task[t].step = "poll"
    BY <1>4 DEF TaskFits, StepFits, OnlyPoll
  <2>2. Charged(doc, d[v], f[v]) /\ task[t].doc = doc
    BY <1>2, <1>4, <2>1 DEF Book, ChargedPc
  <2> QED BY <1>2, <1>4, <2>2 DEF TaskFits, CopyFits
<1>6. x.pc = "waiting" /\ x.step = step /\ step \in {"poll", "apply"}
  BY DEF Waiting
<1> HIDE DEF x, step
<1>7. Book(x, doc, d[v], f[v])
  BY <1>5, <1>6 DEF Book, LaterBook, ChargedPc
<1>8. /\ Grows /\ step \in Steps /\ 0 \in Nat /\ step # "upload"
      /\ task[t].pc \notin {"idle", "finish"} /\ v = task[t].v
  BY <1>2, <1>3, <1>6, Still DEF Steps
<1> HIDE DEF v
<1> QED BY <1>1, <1>2, <1>3, <1>7, <1>8, Hands DEF x

\* The next attempt has an id of its own.
LEMMA RetryBooks ==
  ASSUME VerificationInv, VerificationInv', BookTypes, BookTypes', troubles = 0, BooksHold,
         NEW t \in Tasks, Retry(t)
  PROVE  BooksHold'
<1> DEFINE v == task[t].v
           step == task[t].step
           n == task[t].attempt + 1
           doc == vjob[v]
           x == Waiting(v, step, n, FALSE)
<1>1. PICK d \in [Requests -> Int], f \in [Requests -> Nat] : Books(d, f)
  BY DEF BooksHold
<1>2. task[t].pc = "retry" /\ Enqueue(Finished(t), v, step, n)
  BY DEF Retry, At
<1>3. UNCHANGED <<vjob, caller, pending, joined, left, inconclusive, used, Answered, refused>>
  BY DEF Retry, docVars, envVars, provider, Answered, KeepHistory
<1>4. /\ Book(task[t], doc, d[v], f[v]) /\ task[t] \in Jobs
      /\ step = "upload" => NewIds(v, task[t].attempt)
  BY <1>1, <1>2, Acting
<1>5. x.pc = "waiting" /\ x.step = step /\ step \in Steps /\ n \in Nat /\ n - 1 = task[t].attempt
  BY <1>4 DEF Waiting, Jobs
<1> HIDE DEF x
<1>6. Book(x, doc, d[v], f[v])
  <2>1. CASE step = "upload"
    <3>1. UploadBook(task[t], doc, d[v], f[v])
      BY <1>4, <2>1 DEF Book
    <3>2. Full(d[v], doc.reserved, f[v]) /\ Sized(doc.reserved) /\ doc.status = "queued"
      BY <1>2, <3>1 DEF UploadBook, ReservedPc
    <3> QED BY <1>5, <2>1, <3>2 DEF Book, UploadBook, ReservedPc
  <2>2. CASE step # "upload"
    <3>1. Charged(doc, d[v], f[v]) /\ doc.status = IF step = "poll" THEN "verifying" ELSE "applying"
      BY <1>2, <1>4, <2>2 DEF Book, LaterBook, ChargedPc
    <3> QED BY <1>5, <2>2, <3>1 DEF Book, LaterBook, ChargedPc
  <2> QED BY <2>1, <2>2
<1>7. /\ Grows /\ task[t].pc \notin {"idle", "finish"} /\ v = task[t].v
      /\ step = "upload" => NewIds(v, n - 1)
  BY <1>2, <1>3, <1>4, <1>5, Still
<1> HIDE DEF v, step, n
<1> QED BY <1>1, <1>2, <1>3, <1>5, <1>6, <1>7, Hands DEF x

-----------------------------------------------------------------------------
(* The steps that ask the provider.                                         *)

\* The provider takes the list and charges for it; or it may have; or it refuses, and for
\* the rate of requests the reservation is kept for the next attempt.
LEMMA UploadListBooks ==
  ASSUME VerificationInv, VerificationInv', BookTypes, BookTypes', troubles = 0, BooksHold,
         NEW t \in Tasks, UploadList(t)
  PROVE  BooksHold'
<1> DEFINE v == task[t].v
           doc == vjob[v]
           b == task[t].doc.batch
           n == Cardinality(b)
           r == doc.reserved
<1>1. PICK d \in [Requests -> Int], f \in [Requests -> Nat] : Books(d, f)
  BY DEF BooksHold
<1>2. task[t].pc = "upload"
  BY DEF UploadList, At
<1>3. UNCHANGED <<vjob, caller, uploads, pending, joined, left, inconclusive, used>>
  BY DEF UploadList, docVars, envVars
<1>4. /\ v \in Requests /\ Book(task[t], doc, d[v], f[v]) /\ doc \in Docs /\ task[t] \in Jobs
      /\ d[v] \in Int /\ f[v] \in Nat /\ TaskFits(task[t], vjob[v], accepted[v], checked[v], refused)
  BY <1>1, <1>2, Acting
<1>5. /\ task[t].step = "upload" /\ task[t].doc.status = "uploading" /\ task[t].doc.reserved = r
      /\ Short(d[v], n, f[v]) /\ Sized(r) /\ d[v] <= r /\ d[v] + left * f[v] + left >= r
  <2>1. task[t].step = "upload" /\ task[t].doc.status = "uploading"
    BY <1>2, <1>4 DEF TaskFits, StepFits, CopyFits, OnlyUpload, Uploading
  <2> QED BY <1>2, <1>4, <2>1 DEF Book, UploadBook
<1>6. /\ n \in Nat /\ Unknown(b) \in Nat /\ Billable(b) \in Nat /\ n = Unknown(b) + Billable(b)
      /\ r \in Nat /\ joined \in Nat /\ left \in Nat /\ left * f[v] \in Nat
  <2>1. b \in SUBSET Contacts
    BY <1>4, Numbers
  <2> QED BY <1>4, <1>5, <2>1, Sizes, Times DEF BookTypes, Sized
<1>7. \A transient \in BOOLEAN : AfterError(task[t], transient) = "fail"
  BY <1>4, <1>5, ErrorIs
<1> DEFINE dn == d[v] - Billable(b)
<1>8. /\ dn \in Int /\ Short(dn, Unknown(b), f[v])
      /\ \A e \in {d[v], dn} : e + joined + left * f[v] >= 0 /\ e <= IF r = 0 THEN 0 ELSE r
  <2> DEFINE a == left * f[v]
             c == Billable(b)
             k == Unknown(b)
  <2>1. a \in Nat /\ d[v] <= n /\ d[v] + joined + a >= n
    BY <1>5, <1>6 DEF Short
  <2> HIDE DEF a, c, k, n, r
  <2>2. n = k + c /\ k \in Nat /\ c \in Nat
    BY <1>6 DEF c, k
  <2>3. d[v] <= IF r = 0 THEN 0 ELSE r
    BY <1>4, <1>5, <1>6
  <2>4. d[v] - c \in Int /\ d[v] - c <= k /\ d[v] - c + joined + a >= k
        /\ d[v] - c + joined + a >= 0 /\ d[v] + joined + a >= 0 /\ d[v] - c <= d[v]
    BY <1>4, <1>6, <2>1, <2>2
  <2>5. d[v] - c <= IF r = 0 THEN 0 ELSE r
    BY <1>4, <1>6, <2>2, <2>3
  <2> QED BY <2>3, <2>4, <2>5 DEF Short, a, c, k
<1>9. task[t].pc \notin {"idle", "finish"} /\ v = task[t].v
  BY <1>2
<1>10. /\ refused \in Nat /\ refused' \in Nat /\ used \in Int /\ Answered \in Int
       /\ billed \in Int /\ unanswered \in Int
  BY Typed DEF BookTypes, VerificationInv, Types
<1>11. ASSUME NEW e \in {d[v], dn}, NEW x \in Jobs, x.pc = "fail", x.step = task[t].step,
              x.doc = task[t].doc
       PROVE  Book(x, doc, e, f[v])
  BY <1>5, <1>8, <1>11 DEF Book, UploadBook, ReservedPc, ChargedPc
<1>12. ASSUME NEW x \in Jobs, x.pc = "saveVerifying", x.step = task[t].step, x.doc = task[t].doc
       PROVE  Book(x, doc, dn, f[v])
  BY <1>5, <1>8, <1>12 DEF Book, UploadBook, ReservedPc, ChargedPc
<1>13. CASE /\ billed' = billed + Billable(b) /\ UNCHANGED <<unanswered, refused>>
            /\ Goto(t, "saveVerifying") \/ Goto(t, AfterError(task[t], TRUE))
  <2>1. PICK w \in {"saveVerifying", "fail"} : Goto(t, w)
    BY <1>7, <1>13
  <2>2. used' <= used /\ used' - Answered' = used - Answered + dn - d[v]
        /\ refused' = refused + f[v] - f[v]
    BY <1>3, <1>4, <1>6, <1>10, <1>13 DEF Answered
  <2> HIDE DEF dn
  <2>3. ASSUME NEW x \in Jobs, x.pc = w, x.step = task[t].step, x.doc = task[t].doc
        PROVE  Book(x, doc, dn, f[v])
    BY <1>11, <1>12, <2>1, <2>3
  <2> HIDE DEF v
  <2> QED BY <1>1, <1>3, <1>4, <1>8, <1>9, <2>1, <2>2, <2>3, GotoBooks
<1>14. CASE Goto(t, AfterError(task[t], FALSE)) /\ UNCHANGED <<Answered, refused>>
  <2>1. Goto(t, "fail")
    BY <1>7, <1>14
  <2>2. used' <= used /\ used' - Answered' = used - Answered + d[v] - d[v]
        /\ refused' = refused + f[v] - f[v]
    BY <1>3, <1>4, <1>10, <1>14
  <2>3. ASSUME NEW x \in Jobs, x.pc = "fail", x.step = task[t].step, x.doc = task[t].doc
        PROVE  Book(x, doc, d[v], f[v])
    BY <1>11, <2>3
  <2> HIDE DEF v
  <2> QED BY <1>1, <1>3, <1>4, <1>9, <2>1, <2>2, <2>3, GotoBooks
<1>15. CASE /\ task' = [task EXCEPT ![t].doc = With(@, [status |-> "queued"]), ![t].pc = "saveQueued"]
            /\ refused' = refused + 1 /\ UNCHANGED Answered
  <2> DEFINE e == With(task[t].doc, [status |-> "queued"])
             x == task'[t]
             fn == f[v] + 1
  <2>1. e.reserved = r
    BY <1>5, Typed, WithStatus DEF Active
  <2>2. task' = [task EXCEPT ![t].doc = e, ![t].pc = "saveQueued"]
    BY <1>15, Typed
  <2>3. /\ \A u \in Tasks \ {t} : task'[u] = task[u]
        /\ x.pc = "saveQueued" /\ x.v = v /\ x.step = task[t].step
        /\ x.attempt = task[t].attempt /\ x.doc = e
    <3> HIDE DEF e, x
    <3> QED BY <2>2, Copied, Typed DEF x
  <2>4. fn \in Nat /\ left * fn = left * f[v] + left
    BY <1>4, <1>6
  <2>5. Full(d[v], r, fn)
    BY <1>4, <1>5, <1>6, <2>4 DEF Full
  <2>6. /\ used' <= used /\ used' - Answered' = used - Answered + d[v] - d[v]
        /\ refused' = refused + fn - f[v] /\ \A q \in Requests \ {v} : vjob'[q] = vjob[q]
        /\ doc = vjob'[v] /\ x = task'[t]
    BY <1>3, <1>4, <1>10, <1>15
  <2> HIDE DEF e, x, fn
  <2>7. Book(x, doc, d[v], fn)
    BY <1>5, <2>1, <2>3, <2>5 DEF Book, UploadBook, ReservedPc, ChargedPc
  <2>8. /\ v \in Requests /\ d[v] \in Int /\ fn \in Nat
        /\ x.pc # "finish" /\ x.pc # "idle"
    BY <1>4, <2>3, <2>4
  <2> HIDE DEF v, doc, dn, n, b, r
  <2> QED BY <1>1, <1>3, <1>9, <2>3, <2>6, <2>7, <2>8, WorksAlone
<1> QED BY <1>13, <1>14, <1>15 DEF UploadList, provider, Answered

\* A document that is charged for may fail.
LEMMA ChargedFails ==
  ASSUME BookTypes, NEW x \in Jobs, NEW doc \in Docs, NEW d \in Int, NEW f \in Nat,
         Charged(doc, d, f), x.doc = doc, x.pc = "fail"
  PROVE  Book(x, doc, d, f)
<1> DEFINE k == Unknown(doc.batch)
           r == doc.reserved
           a == left * f
<1>1. /\ k \in Nat /\ r \in Nat /\ k <= r /\ d <= k /\ d + joined + a >= k
      /\ a \in Nat /\ joined \in Nat
  <2>1. /\ Cardinality(doc.batch) = k + Billable(doc.batch) /\ Billable(doc.batch) \in Nat
        /\ k \in Nat
    BY Numbers, Sizes DEF BookTypes
  <2>2. r = Cardinality(doc.batch) /\ d <= k /\ d + joined + a >= k
    BY DEF Charged, Short
  <2> QED BY <2>1, <2>2, Times DEF BookTypes
<1> HIDE DEF k, a, r
<1>2. d + joined + a >= 0 /\ d <= IF r = 0 THEN 0 ELSE r
  BY <1>1
<1> QED BY <1>2 DEF Book, UploadBook, LaterBook, ReservedPc, ChargedPc, a, r

\* The job of a list that is charged for.
LEMMA ChargedNow ==
  ASSUME VerificationInv, BookTypes, troubles = 0, NEW d \in [Requests -> Int],
         NEW f \in [Requests -> Nat], Books(d, f), NEW t \in Tasks,
         task[t].pc \in {"progress", "download", "write"}, NEW v, v = task[t].v
  PROVE  /\ v \in Requests /\ vjob[v] \in Docs /\ d[v] \in Int /\ f[v] \in Nat
         /\ task[t] \in Jobs
         /\ task[t].step = IF task[t].pc = "progress" THEN "poll" ELSE "apply"
         /\ task[t].doc = vjob[v] /\ Charged(vjob[v], d[v], f[v])
         /\ vjob[v].status = IF task[t].pc = "progress" THEN "verifying" ELSE "applying"
<1>1. /\ v \in Requests /\ vjob[v] \in Docs /\ d[v] \in Int /\ f[v] \in Nat
      /\ task[t] \in Jobs
      /\ Book(task[t], vjob[v], d[v], f[v])
      /\ TaskFits(task[t], vjob[v], accepted[v], checked[v], refused)
  BY Acting
<1>2. task[t].step = IF task[t].pc = "progress" THEN "poll" ELSE "apply"
  BY <1>1 DEF TaskFits, StepFits, OnlyPoll, OnlyApply
<1>3. task[t].doc = vjob[v] /\ Charged(vjob[v], d[v], f[v])
  BY <1>1, <1>2 DEF Book, ChargedPc
<1>4. task[t].doc.status = IF task[t].pc = "progress" THEN "verifying" ELSE "applying"
  BY <1>1 DEF TaskFits, CopyFits
<1> QED BY <1>1, <1>2, <1>3, <1>4

\* A step of that job that leaves the counter and the bill alone.
LEMMA ChargedGoes ==
  ASSUME VerificationInv, VerificationInv', BookTypes, BookTypes', troubles = 0, BooksHold,
         NEW t \in Tasks, task[t].pc \in {"progress", "download", "write"},
         NEW w \in {"saveApplying", "enqueuePoll", "retry", "fail"}, Goto(t, w),
         w \in {"saveApplying", "enqueuePoll"} => task[t].pc = "progress",
         UNCHANGED <<vjob, caller, uploads, pending, joined, left, inconclusive, used, Answered, refused>>
  PROVE  BooksHold'
<1> DEFINE v == task[t].v
           doc == vjob[v]
<1>1. PICK d \in [Requests -> Int], f \in [Requests -> Nat] : Books(d, f)
  BY DEF BooksHold
<1>2. /\ v \in Requests /\ doc \in Docs /\ d[v] \in Int /\ f[v] \in Nat /\ task[t] \in Jobs
      /\ task[t].step = IF task[t].pc = "progress" THEN "poll" ELSE "apply"
      /\ task[t].doc = doc /\ Charged(doc, d[v], f[v])
      /\ doc.status = IF task[t].pc = "progress" THEN "verifying" ELSE "applying"
  BY <1>1, ChargedNow
<1>3. ASSUME NEW x \in Jobs, x.pc = w, x.step = task[t].step, x.doc = task[t].doc
      PROVE  Book(x, doc, d[v], f[v])
  <2>1. CASE w = "fail"
    BY <1>2, <1>3, <2>1, ChargedFails
  <2>2. CASE w # "fail"
    BY <1>2, <1>3, <2>2 DEF Book, UploadBook, LaterBook, ReservedPc, ChargedPc
  <2> QED BY <2>1, <2>2
<1>4. used' <= used /\ used' - Answered' = used - Answered + d[v] - d[v] /\ refused' = refused + f[v] - f[v]
  BY <1>2, Typed DEF BookTypes
<1>5. task[t].pc \notin {"idle", "finish"} /\ v = task[t].v /\ w # "idle" /\ w # "finish"
  OBVIOUS
<1> HIDE DEF v
<1> QED BY <1>1, <1>2, <1>3, <1>4, <1>5, GotoBooks

\* A request to the provider that fails.
LEMMA RequestFailsBooks ==
  ASSUME VerificationInv, VerificationInv', BookTypes, BookTypes', troubles = 0, BooksHold,
         NEW t \in Tasks, task[t].pc \in {"progress", "download", "write"},
         NEW transient \in BOOLEAN, Goto(t, AfterError(task[t], transient)),
         UNCHANGED <<vjob, caller, uploads, pending, joined, left, inconclusive, used, Answered, refused>>
  PROVE  BooksHold'
<1> DEFINE w == AfterError(task[t], transient)
<1>1. PICK d \in [Requests -> Int], f \in [Requests -> Nat] : Books(d, f)
  BY DEF BooksHold
<1>2. task[t].doc.status # "queued"
  BY <1>1, ChargedNow
<1>3. w \in {"retry", "fail"} /\ Goto(t, w)
  BY <1>2, Typed, ErrorIs
<1> HIDE DEF w
<1> QED BY <1>3, ChargedGoes

\* A list that failed at the provider is not charged for.
LEMMA GetProgressBooks ==
  ASSUME VerificationInv, VerificationInv', BookTypes, BookTypes', troubles = 0, BooksHold,
         NEW t \in Tasks, GetProgress(t)
  PROVE  BooksHold'
<1> DEFINE v == task[t].v
           doc == vjob[v]
           b == task[t].doc.batch
<1>1. task[t].pc = "progress"
  BY DEF GetProgress, At
<1>2. UNCHANGED <<vjob, caller, uploads, pending, joined, left, inconclusive, used, refused>>
  BY DEF GetProgress, envVars, KeepOthers
<1>3. CASE billed' = billed - Billable(b) /\ UNCHANGED unanswered /\ Goto(t, "refund")
  <2>1. PICK d \in [Requests -> Int], f \in [Requests -> Nat] : Books(d, f)
    BY DEF BooksHold
  <2> DEFINE dn == d[v] + Billable(b)
             n == Cardinality(b)
  <2>2. /\ v \in Requests /\ doc \in Docs /\ d[v] \in Int /\ f[v] \in Nat /\ task[t] \in Jobs
        /\ task[t].step = "poll" /\ task[t].doc = doc /\ Charged(doc, d[v], f[v])
    BY <1>1, <2>1, ChargedNow
  <2>3. /\ n \in Nat /\ Unknown(b) \in Nat /\ Billable(b) \in Nat /\ n = Unknown(b) + Billable(b)
        /\ joined \in Nat /\ left * f[v] \in Nat /\ task[t].doc.reserved = n
    <3>1. b \in SUBSET Contacts
      BY <2>2, Numbers
    <3> QED BY <2>2, <3>1, Sizes, Times DEF BookTypes, Charged
  <2>4. dn \in Int /\ Short(dn, n, f[v])
    <3> DEFINE a == left * f[v]
               c == Billable(b)
               k == Unknown(b)
    <3>1. d[v] <= k /\ d[v] + joined + a >= k
      BY <2>2 DEF Charged, Short
    <3>2. a \in Nat /\ c \in Nat /\ k \in Nat /\ n = k + c
      BY <2>3
    <3> HIDE DEF a, c, k, n
    <3>3. d[v] + c \in Int /\ d[v] + c <= n /\ d[v] + c + joined + a >= n
      BY <2>2, <2>3, <3>1, <3>2
    <3> QED BY <3>3 DEF Short, a, c
  <2>5. used' <= used /\ used' - Answered' = used - Answered + dn - d[v]
        /\ refused' = refused + f[v] - f[v]
    BY <1>2, <1>3, <2>2, <2>3, Typed DEF BookTypes, Answered
  <2>6. Goto(t, "refund") /\ task[t].pc \notin {"idle", "finish"} /\ v = task[t].v
    BY <1>1, <1>3
  <2> HIDE DEF dn
  <2>7. ASSUME NEW x \in Jobs, x.pc = "refund", x.step = task[t].step, x.doc = task[t].doc
        PROVE  Book(x, doc, dn, f[v])
    BY <2>2, <2>3, <2>4, <2>7 DEF Book, LaterBook, ChargedPc
  <2> HIDE DEF v
  <2> QED BY <1>2, <2>1, <2>2, <2>4, <2>5, <2>6, <2>7, GotoBooks
<1>4. CASE Goto(t, "saveApplying") /\ UNCHANGED Answered
  BY <1>1, <1>2, <1>4, ChargedGoes
<1>5. CASE /\ Goto(t, IF polls[v] < MaxPolls THEN "enqueuePoll" ELSE "fail")
           /\ UNCHANGED Answered
  <2>1. PICK w \in {"enqueuePoll", "fail"} : Goto(t, w)
    <3> DEFINE w == IF polls[v] < MaxPolls THEN "enqueuePoll" ELSE "fail"
    <3>1. w \in {"enqueuePoll", "fail"} /\ Goto(t, w)
      BY <1>5
    <3> QED BY <3>1
  <2> QED BY <1>1, <1>2, <1>5, <2>1, ChargedGoes
<1>6. CASE RequestFails(t) /\ UNCHANGED Answered
  BY <1>1, <1>2, <1>6, RequestFailsBooks DEF RequestFails
<1> QED BY <1>3, <1>4, <1>5, <1>6 DEF GetProgress, Answered

\* A download leaves the books alone, and so do the rows.
LEMMA DownloadBooks ==
  ASSUME VerificationInv, VerificationInv', BookTypes, BookTypes', troubles = 0, BooksHold,
         NEW t \in Tasks, Download(t)
  PROVE  BooksHold'
<1> DEFINE v == task[t].v
           doc == vjob[v]
           x == task'[t]
<1>1. task[t].pc = "download"
  BY DEF Download, At
<1>2. UNCHANGED <<vjob, caller, uploads, pending, joined, left, inconclusive, used, Answered, refused>>
  BY DEF Download, docVars, envVars, provider, Answered, KeepOthers
<1>3. CASE task' = [task EXCEPT ![t].pc = "write", ![t].left = task[t].doc.batch]
  <2>1. PICK d \in [Requests -> Int], f \in [Requests -> Nat] : Books(d, f)
    BY DEF BooksHold
  <2>2. /\ v \in Requests /\ doc \in Docs /\ d[v] \in Int /\ f[v] \in Nat
        /\ task[t].step = "apply" /\ task[t].doc = doc /\ Charged(doc, d[v], f[v])
    BY <1>1, <2>1, ChargedNow
  <2>3. /\ \A u \in Tasks \ {t} : task'[u] = task[u]
        /\ x.pc = "write" /\ x.v = v /\ x.step = task[t].step
        /\ x.attempt = task[t].attempt /\ x.doc = task[t].doc
    BY <1>3, Typed DEF Jobs
  <2>4. /\ used' <= used /\ used' - Answered' = used - Answered + d[v] - d[v]
        /\ refused' = refused + f[v] - f[v] /\ \A q \in Requests \ {v} : vjob'[q] = vjob[q]
        /\ doc = vjob'[v] /\ x = task'[t] /\ v = task[t].v /\ task[t].pc \notin {"idle", "finish"}
    BY <1>1, <1>2, <2>2, Typed DEF BookTypes
  <2> HIDE DEF x
  <2>5. Book(x, doc, d[v], f[v])
    BY <2>2, <2>3 DEF Book, LaterBook, ChargedPc
  <2> HIDE DEF v, doc
  <2> QED BY <1>2, <2>1, <2>2, <2>3, <2>4, <2>5, WorksAlone
<1>4. CASE RequestFails(t)
  BY <1>1, <1>2, <1>4, RequestFailsBooks DEF RequestFails
<1> QED BY <1>3, <1>4 DEF Download

\* A contact that goes from the list.
LEMMA Leaves ==
  ASSUME VerificationInv, BookTypes, NEW c, pending' = pending \ {c}, joined' = joined,
         left' = IF c \in pending THEN left + 1 ELSE left, inconclusive' = inconclusive
  PROVE  Grows
<1>1. IsFiniteSet(pending) /\ Cardinality(pending) \in Nat /\ joined \in Nat /\ left \in Nat
  BY VerificationAssumption, FS_Subset, FS_CardinalityType DEF VerificationInv, Types, BookTypes
<1>2. CASE c \in pending
  <2>1. Cardinality(pending') = Cardinality(pending) - 1
    BY <1>1, <1>2, FS_RemoveElement
  <2> QED BY <1>1, <1>2, <2>1 DEF Grows, Sized
<1>3. CASE c \notin pending
  <2>1. pending' = pending
    BY <1>3
  <2> QED BY <1>1, <1>3, <2>1 DEF Grows, Sized
<1> QED BY <1>2, <1>3

\* A contact that comes to it.
LEMMA Joins ==
  ASSUME VerificationInv, BookTypes, NEW c, c \notin pending, pending' = pending \cup {c},
         joined' = joined + 1, left' = left, inconclusive' = inconclusive
  PROVE  Grows
<1>1. IsFiniteSet(pending) /\ Cardinality(pending) \in Nat /\ joined \in Nat /\ left \in Nat
  BY VerificationAssumption, FS_Subset, FS_CardinalityType DEF VerificationInv, Types, BookTypes
<1>2. Cardinality(pending') = Cardinality(pending) + 1
  BY <1>1, FS_AddElement
<1> QED BY <1>1, <1>2 DEF Grows, Sized

\* A row that is written leaves the list, as a contact does.
LEMMA WriteBooks ==
  ASSUME VerificationInv, VerificationInv', BookTypes, BookTypes', troubles = 0, BooksHold,
         NEW t \in Tasks, Write(t)
  PROVE  BooksHold'
<1>0. PICK v, doc, x : v = task[t].v /\ doc = vjob[v] /\ x = task'[t]
  OBVIOUS
<1>1. task[t].pc = "write"
  BY DEF Write, At
<1>2. UNCHANGED <<vjob, caller, uploads, joined, inconclusive, used, Answered, refused>>
  BY DEF Write, docVars, provider, Answered
<1>3. CASE WriteRows(t)
  <2>1. PICK d \in [Requests -> Int], f \in [Requests -> Nat] : Books(d, f)
    BY DEF BooksHold
  <2>2. /\ v \in Requests /\ doc \in Docs /\ d[v] \in Int /\ f[v] \in Nat
        /\ task[t].step = "apply" /\ task[t].doc = doc /\ Charged(doc, d[v], f[v])
    BY <1>0, <1>1, <2>1, ChargedNow
  <2>3. PICK c \in task[t].left :
           /\ task' = [task EXCEPT ![t].left = @ \ {c},
                                   ![t].pc = IF task[t].left = {c} THEN AfterWrite(t) ELSE @]
           /\ pending' = pending \ {c}
           /\ left' = IF c \in pending THEN left + 1 ELSE left
    BY <1>3 DEF WriteRows
  <2>4. Grows
    BY <1>2, <2>3, Leaves
  <2> DEFINE w == IF task[t].left = {c} THEN AfterWrite(t) ELSE "write"
  <2>5. /\ w \in {"releaseUnknown", "saveDone", "write"}
        /\ w = "saveDone" => doc.batch \cap inconclusive = {}
    BY <2>2 DEF AfterWrite
  <2>6. task' = [task EXCEPT ![t].left = @ \ {c}, ![t].pc = w]
    BY <1>1, <2>3, Typed
  <2> HIDE DEF w
  <2>7. /\ \A u \in Tasks \ {t} : task'[u] = task[u]
        /\ x.pc = w /\ x.v = v /\ x.step = task[t].step
        /\ x.attempt = task[t].attempt /\ x.doc = task[t].doc
    BY <1>0, <2>6, Typed DEF Jobs
  <2>8. /\ used' <= used /\ used' - Answered' = used - Answered + d[v] - d[v]
        /\ refused' = refused + f[v] - f[v] /\ \A q \in Requests \ {v} : vjob'[q] = vjob[q]
        /\ doc = vjob'[v] /\ x = task'[t] /\ v = task[t].v /\ task[t].pc \notin {"idle", "finish"}
        /\ caller' = caller /\ uploads' = uploads
    BY <1>0, <1>1, <1>2, <2>2, Typed DEF BookTypes
  <2>9. x \in Jobs
    BY <1>0 DEF VerificationInv, Types
  <2>10. Book(x, doc, d[v], f[v])
    <3>1. w = "saveDone" => Short(d[v], 0, f[v])
      <4>1. w = "saveDone" => Unknown(doc.batch) = 0
        BY <2>5, FS_EmptySet DEF Unknown
      <4> QED BY <2>2, <4>1 DEF Charged
    <3> QED BY <2>2, <2>5, <2>7, <3>1 DEF Book, LaterBook, ChargedPc
  <2>11. Book(x, doc, d[v], f[v])'
    <3>1. \A y \in Jobs, z \in Docs, a \in Int, b \in Nat : Book(y, z, a, b) => Book(y, z, a, b)'
      BY <2>4, BookStays
    <3> QED BY <2>2, <2>8, <2>9, <2>10, <3>1
  <2>12. x.pc \notin {"idle", "finish"} /\ task'[t].v = v /\ task'[t].pc # "idle"
         /\ task'[t].step = task[t].step /\ task'[t].attempt = task[t].attempt
    BY <1>0, <2>5, <2>7
  <2>13. IF x.pc = "finish" THEN Rest(doc, d[v], f[v])' ELSE Book(x, doc, d[v], f[v])'
    BY <2>11, <2>12
  <2> QED BY <2>1, <2>2, <2>4, <2>7, <2>8, <2>12, <2>13, Works
<1>4. CASE Goto(t, AfterError(task[t], FALSE)) /\ UNCHANGED <<pending, left>>
  BY <1>1, <1>2, <1>4, RequestFailsBooks
<1> QED BY <1>3, <1>4 DEF Write

\* The end of a job, and contacts that come and go.
LEMMA FinishBooks ==
  ASSUME VerificationInv, VerificationInv', BookTypes, BookTypes', troubles = 0, BooksHold,
         NEW t \in Tasks, Finish(t)
  PROVE  BooksHold'
<1>1. task[t].pc = "finish" /\ task' = [task EXCEPT ![t] = NoTask]
  BY DEF Finish, At
<1>2. UNCHANGED <<vjob, caller, uploads, pending, joined, left, inconclusive, used, Answered, refused>>
  BY DEF Finish, docVars, envVars, provider, Answered, KeepHistory
<1>3. \A u \in Tasks : \/ task'[u] = task[u]
                       \/ task[u].pc \in {"idle", "finish"} /\ task'[u].pc \in {"idle", "finish"}
  BY <1>1, Typed DEF NoTask
<1> QED BY <1>2, <1>3, Still, Meanwhile

\* Contacts come and go.
LEMMA ListBooks ==
  ASSUME VerificationInv, VerificationInv', BookTypes, BookTypes', troubles = 0, BooksHold,
         NEW c, Join(c) \/ Leave(c)
  PROVE  BooksHold'
<1>1. UNCHANGED <<task, vjob, caller, uploads, inconclusive, used, Answered, refused>>
  BY DEF Join, Leave, docVars, jobVars, provider, Answered, KeepOthers
<1>2. Grows
  BY <1>1, Leaves, Joins DEF Join, Leave
<1> QED BY <1>1, <1>2, Meanwhile

\* The listener is called after a failure of the database or a crash only.
LEMMA MarkFailedBooks ==
  ASSUME VerificationInv, BookTypes, troubles = 0, BooksHold, NEW t \in Tasks, MarkFailed(t)
  PROVE  FALSE
<1>1. PICK d \in [Requests -> Int], f \in [Requests -> Nat] : Books(d, f)
  BY DEF BooksHold
<1>2. task[t].pc = "listener"
  BY DEF MarkFailed, At
<1>3. Book(task[t], vjob[task[t].v], d[task[t].v], f[task[t].v])
  BY <1>1, <1>2, Acting
<1> QED BY <1>2, <1>3 DEF Book

-----------------------------------------------------------------------------
(* The requests and the single addresses.                                   *)
Within ==
    MonthlyLimit # 0 =>
        used <= MonthlyLimit + Sum(Undoing(Requests), Requests) + Sum(Undoing(Singles), Singles)
Undo(c) == IF caller[c].pc = "undo" THEN caller[c].amount ELSE 0

\* What is to be given back at once, when one caller moves on.
LEMMA UndoingMoves ==
  ASSUME VerificationInv, VerificationInv', NEW S, S \in {Requests, Singles}, NEW c \in Callers,
         \A q \in Callers \ {c} : caller'[q] = caller[q]
  PROVE  /\ Sum(Undoing(S), S) \in Int /\ Sum(Undoing(S)', S) \in Int
         /\ Sum(Undoing(S)', S) = Sum(Undoing(S), S) + IF c \in S THEN Undo(c)' - Undo(c) ELSE 0
         /\ Undo(c) \in Int /\ Undo(c)' \in Int
<1>1. IsFiniteSet(S) /\ S \subseteq Callers
  BY VerificationAssumption DEF Callers
<1>2. \A q \in Callers : caller[q].amount \in Int /\ caller'[q].amount \in Int
  BY DEF VerificationInv, Types
<1> DEFINE g == Undoing(S)
           h == Undoing(S)'
<1>3. /\ g \in [S -> Int] /\ h \in [S -> Int] /\ \A q \in S : g[q] = Undo(q) /\ h[q] = Undo(q)'
      /\ \A q \in S \ {c} : h[q] = g[q]
  BY <1>1, <1>2 DEF Undoing, Undo
<1>4. Undo(c) \in Int /\ Undo(c)' \in Int
  BY <1>2 DEF Undo
<1> HIDE DEF g, h
<1>5. Sum(g, S) \in Int /\ Sum(h, S) \in Int
  BY <1>1, <1>3, SumInt
<1>6. CASE c \in S
  <2>1. Sum(h, S) = Sum(g, S) + h[c] - g[c]
    BY <1>1, <1>3, <1>6, SumChanges
  <2>2. Sum(h, S) = Sum(g, S) + (Undo(c)' - Undo(c))
    BY <1>3, <1>4, <1>5, <1>6, <2>1
  <2> QED BY <1>4, <1>5, <1>6, <2>2 DEF g, h
<1>7. CASE c \notin S
  <2>1. h = g
    BY <1>3, <1>7
  <2> QED BY <1>4, <1>5, <1>7, <2>1 DEF g, h
<1> QED BY <1>6, <1>7

\* The counter is beyond the limit by no more than what is to be given back at once.
LEMMA WithinMoves ==
  ASSUME VerificationInv, VerificationInv', BookTypes, BookTypes', Within, NEW c \in Callers,
         \A q \in Callers \ {c} : caller'[q] = caller[q],
         used' <= used + Undo(c)' - Undo(c)
  PROVE  Within'
<1> DEFINE a == Sum(Undoing(Requests), Requests)
           b == Sum(Undoing(Singles), Singles)
           p == Sum(Undoing(Requests)', Requests)
           q == Sum(Undoing(Singles)', Singles)
<1>1. /\ a \in Int /\ p \in Int /\ p = a + IF c \in Requests THEN Undo(c)' - Undo(c) ELSE 0
      /\ Undo(c) \in Int /\ Undo(c)' \in Int
  BY UndoingMoves
<1>2. b \in Int /\ q \in Int /\ q = b + IF c \in Singles THEN Undo(c)' - Undo(c) ELSE 0
  BY UndoingMoves
<1>3. p + q = a + b + Undo(c)' - Undo(c)
  <2>1. (c \in Requests /\ c \notin Singles) \/ (c \notin Requests /\ c \in Singles)
    BY VerificationAssumption DEF Callers
  <2> HIDE DEF a, b, p, q
  <2> QED BY <1>1, <1>2, <2>1
<1>4. used \in Int /\ used' \in Int /\ MonthlyLimit \in Int
  BY VerificationAssumption DEF BookTypes
<1>5. MonthlyLimit # 0 => used <= MonthlyLimit + a + b
  BY DEF Within
<1>6. MonthlyLimit # 0 => used' <= MonthlyLimit + p + q
  <2> HIDE DEF a, b, p, q
  <2> QED BY <1>1, <1>2, <1>3, <1>4, <1>5
<1> QED BY <1>6 DEF Within

\* A sum of natural numbers.
LEMMA SumIsNat ==
  ASSUME NEW S, IsFiniteSet(S), NEW g \in [S -> Int], \A q \in S : g[q] >= 0
  PROVE  Sum(g, S) \in Int /\ Sum(g, S) >= 0
<1> DEFINE T == {A \in SUBSET S : Sum(g, A) >= 0}
<1>1. {} \in T
  BY SumEmpty
<1>2. ASSUME NEW A \in SUBSET S, A # {}, A \ {Some(A)} \in T PROVE A \in T
  <2>1. Some(A) \in A
    BY ONLY <1>2, Zenon DEF Some
  <2>2. Sum(g, A) = g[Some(A)] + Sum(g, A \ {Some(A)})
    BY <1>2, FS_Subset, SumStep
  <2>3. Sum(g, A \ {Some(A)}) \in Int
    BY FS_Subset, SumInt
  <2> QED BY <1>2, <2>1, <2>2, <2>3
<1>3. S \in T
  <2> HIDE DEF T
  <2> QED BY <1>1, <1>2, SetInduction
<1> QED BY <1>3, SumInt

\* A sum of nothing but zeros.
LEMMA SumZero ==
  ASSUME NEW S, IsFiniteSet(S), NEW g \in [S -> Int], \A q \in S : g[q] = 0
  PROVE  Sum(g, S) = 0
<1> DEFINE T == {A \in SUBSET S : Sum(g, A) = 0}
<1>1. {} \in T
  BY SumEmpty
<1>2. ASSUME NEW A \in SUBSET S, A # {}, A \ {Some(A)} \in T PROVE A \in T
  <2>1. Some(A) \in A
    BY ONLY <1>2, Zenon DEF Some
  <2>2. Sum(g, A) = g[Some(A)] + Sum(g, A \ {Some(A)})
    BY <1>2, FS_Subset, SumStep
  <2> QED BY <1>2, <2>1, <2>2
<1>3. S \in T
  <2> HIDE DEF T
  <2> QED BY <1>1, <1>2, SetInduction
<1> QED BY <1>3

\* What is within the limit.
LEMMA WithinHolds ==
  ASSUME VerificationInv', BookTypes', MonthlyLimit # 0 => used' <= MonthlyLimit,
         \A q \in Callers : caller'[q].pc = "undo" => caller'[q].amount \in Nat
  PROVE  Within'
<1>1. ASSUME NEW S, S \in {Requests, Singles}
      PROVE  Sum(Undoing(S)', S) \in Int /\ Sum(Undoing(S)', S) >= 0
  <2> DEFINE g == Undoing(S)'
  <2>1. IsFiniteSet(S)
    BY <1>1, VerificationAssumption
  <2>2. g \in [S -> Int] /\ \A q \in S : g[q] >= 0
    BY <1>1 DEF Undoing, Callers
  <2> HIDE DEF g
  <2>3. Sum(g, S) \in Int /\ Sum(g, S) >= 0
    BY <2>1, <2>2, SumIsNat
  <2> QED BY <2>3 DEF g
<1>2. /\ Sum(Undoing(Requests)', Requests) \in Int /\ Sum(Undoing(Requests)', Requests) >= 0
      /\ Sum(Undoing(Singles)', Singles) \in Int /\ Sum(Undoing(Singles)', Singles) >= 0
  BY <1>1
<1>3. used' \in Int /\ MonthlyLimit \in Int
  BY VerificationAssumption DEF BookTypes
<1> QED BY <1>2, <1>3 DEF Within

\* What the books say of a caller.
LEMMA Calls ==
  ASSUME VerificationInv, BookTypes, troubles = 0, NEW d \in [Requests -> Int],
         NEW f \in [Requests -> Nat], Books(d, f), NEW c \in Callers
  PROVE  /\ Within /\ caller[c] \in [pc : CallerPc, amount : Int]
         /\ c \in Singles => SingleBook(caller[c])
         /\ c \in Requests /\ caller[c].pc # "end" =>
                /\ Asked(caller[c], vjob[c], d[c]) /\ NewIds(c, -1) /\ Untouched(c)
                /\ d[c] \in Int /\ f[c] \in Nat /\ vjob[c] \in Docs
         /\ caller[c].pc \in {"reserve", "undo"} => caller[c].amount \in Nat
<1>1. Within /\ caller[c] \in [pc : CallerPc, amount : Int] /\ Fit
  BY DEF Books, Within, VerificationInv, Types, Calm
<1>2. c \in Singles => SingleBook(caller[c])
  BY DEF Books
<1>3. c \in Requests /\ caller[c].pc # "end" =>
                /\ Asked(caller[c], vjob[c], d[c]) /\ NewIds(c, -1) /\ Untouched(c)
                /\ d[c] \in Int /\ f[c] \in Nat /\ vjob[c] \in Docs
  BY <1>1 DEF Books, DocBook, Fit, VerificationInv, Types
<1>4. caller[c].pc \in {"reserve", "undo"} => caller[c].amount \in Nat
  BY <1>2, <1>3 DEF Callers, SingleBook, Asked, Sized
<1> QED BY <1>1, <1>2, <1>3, <1>4

\* reserveQuota: what does not fit is given back at once.
LEMMA ReserveWithin ==
  ASSUME VerificationInv, VerificationInv', BookTypes, BookTypes', troubles = 0,
         NEW d \in [Requests -> Int], NEW f \in [Requests -> Nat], Books(d, f),
         NEW c \in Callers, NEW next \in {"ask", "create"}, Reserve(c, next)
  PROVE  Within'
<1> DEFINE w == IF OverLimit(used', caller[c].amount) THEN "undo" ELSE next
<1>1. /\ caller[c].pc = "reserve" /\ caller[c].amount \in Nat /\ Within
      /\ used' = used + caller[c].amount
      /\ caller \in [Callers -> [pc : CallerPc, amount : Int]]
  BY Calls DEF Reserve, CallerAt, VerificationInv, Types
<1>2. /\ caller'[c].pc = w /\ caller'[c].amount = caller[c].amount
      /\ \A q \in Callers \ {c} : caller'[q] = caller[q]
  <2>1. CallerGoto(c, w)
    BY DEF Reserve
  <2> HIDE DEF w
  <2> QED BY <1>1, <2>1 DEF CallerGoto
<1>3. used \in Int
  BY DEF BookTypes
<1>4. CASE OverLimit(used', caller[c].amount)
  <2>1. Undo(c)' = caller[c].amount /\ Undo(c) = 0
    BY <1>1, <1>2, <1>4 DEF Undo
  <2>2. used' <= used + Undo(c)' - Undo(c)
    BY <1>1, <1>3, <2>1
  <2> QED BY <1>1, <1>2, <2>2, WithinMoves
<1>5. CASE ~OverLimit(used', caller[c].amount)
  <2>1. MonthlyLimit # 0 => used' <= MonthlyLimit
    <3>1. used' \in Int /\ MonthlyLimit \in Int
      BY VerificationAssumption DEF BookTypes
    <3> QED BY <1>5, <3>1 DEF OverLimit
  <2>2. \A q \in Callers : caller'[q].pc = "undo" => caller'[q].amount \in Nat
    <3> SUFFICES ASSUME NEW q \in Callers, caller'[q].pc = "undo" PROVE caller'[q].amount \in Nat
      OBVIOUS
    <3>1. q # c
      BY <1>2, <1>5
    <3>2. caller'[q] = caller[q]
      BY <1>2, <3>1
    <3> QED BY <3>2, Calls
  <2> QED BY <2>1, <2>2, WithinHolds
<1> QED BY <1>4, <1>5

\* A request moves on.
LEMMA AskBooks ==
  ASSUME VerificationInv, VerificationInv', BookTypes, BookTypes', troubles = 0,
         NEW d \in [Requests -> Int], NEW f \in [Requests -> Nat], Books(d, f),
         NEW r \in Requests, caller[r].pc # "end",
         UNCHANGED <<task, uploads, pending, joined, left, inconclusive, Answered, refused>>,
         \A q \in Callers \ {r} : caller'[q] = caller[q],
         \A q \in Requests \ {r} : vjob'[q] = vjob[q],
         NEW y, y = caller'[r], NEW doc, doc = vjob'[r], NEW dn \in Int,
         used' = used + dn - d[r],
         IF y.pc = "end" THEN dn = 0 /\ doc.status = "none" ELSE Asked(y, doc, dn),
         Within'
  PROVE  BooksHold'
<1>1. r \in Callers /\ Grows /\ Types /\ Types' /\ refused \in Nat /\ used \in Int
  BY Still DEF Callers, VerificationInv, Types, BookTypes
<1>2. NewIds(r, -1) /\ Untouched(r) /\ d[r] \in Int /\ f[r] \in Nat
  BY <1>1, Calls
<1>3. ASSUME NEW q \in Requests \ {r} PROVE DocBook(q, d[q], f[q])'
  <2>1. \A u \in Tasks : (Acts(u, q)' <=> Acts(u, q)) /\ (Acts(u, q) => task'[u] = task[u])
    BY DEF Acts
  <2>2. DocBook(q, d[q], f[q]) /\ d[q] \in Int /\ f[q] \in Nat
    BY DEF Books
  <2>3. caller'[q] = caller[q] /\ vjob'[q] = vjob[q]
    BY DEF Callers
  <2> QED BY <1>1, <2>1, <2>2, <2>3, DocStays
<1>4. DocBook(r, dn, f[r])'
  <2>1. y \in [pc : CallerPc, amount : Int] /\ doc \in Docs
    BY <1>1 DEF Types
  <2>2. CASE y.pc = "end"
    <3>1. \A t \in Tasks : ~Acts(t, r)'
      BY <1>2 DEF Untouched, Live, Acts
    <3>2. left' * f[r] \in Nat /\ joined' \in Nat
      BY <1>2, Times DEF BookTypes
    <3>3. Rest(doc, 0, f[r])'
      BY <2>2, <3>2 DEF Rest, Ended
    <3> QED BY <2>2, <3>1, <3>3 DEF DocBook
  <2>3. CASE y.pc # "end"
    <3>1. Asked(y, doc, dn)'
      BY <1>1, <2>1, <2>3, AskedStays
    <3>2. NewIds(r, -1)'
      BY <1>2 DEF NewIds
    <3> QED BY <2>3, <3>1, <3>2 DEF DocBook
  <2> QED BY <2>2, <2>3
<1>5. \A c \in Singles : caller'[c] = caller[c]
  BY VerificationAssumption DEF Callers
<1>6. used' - Answered' = used - Answered + dn - d[r] /\ refused' = refused + f[r] - f[r]
  BY <1>1, <1>2 DEF BookTypes
<1> QED BY <1>1, <1>2, <1>3, <1>4, <1>5, <1>6, Rebook DEF Within

\* The steps of a request before its upload is added.
LEMMA RequestBooks ==
  ASSUME VerificationInv, VerificationInv', BookTypes, BookTypes', troubles = 0, BooksHold,
         NEW r \in Requests,
         \/ CheckRunning(r) \/ CountPending(r) \/ Reserve(r, "create") \/ UndoReserve(r)
         \/ CreateJob(r)
  PROVE  BooksHold'
<1>1. PICK d \in [Requests -> Int], f \in [Requests -> Nat] : Books(d, f)
  BY DEF BooksHold
<1>2. PICK x, y, doc : x = caller[r] /\ y = caller'[r] /\ doc = vjob'[r]
  OBVIOUS
<1>3. /\ r \in Callers /\ caller \in [Callers -> [pc : CallerPc, amount : Int]]
      /\ x \in [pc : CallerPc, amount : Int] /\ Within /\ vjob \in [Requests -> Docs]
  BY <1>1, <1>2, Calls DEF Callers, VerificationInv, Types
<1>4. /\ x.pc \in {"idle", "count", "reserve", "undo", "create"}
      /\ UNCHANGED <<task, uploads, pending, joined, left, inconclusive, Answered, refused>>
  BY <1>2 DEF CheckRunning, CountPending, Reserve, UndoReserve, CreateJob, CallerAt, jobVars, envVars,
     provider, Answered, KeepHistory, KeepOthers
<1>5. /\ Asked(x, vjob[r], d[r]) /\ Untouched(r) /\ d[r] \in Int
  BY <1>1, <1>2, <1>3, <1>4, Calls
<1>6. ASSUME NEW z \in [pc : CallerPc, amount : Int], caller' = [caller EXCEPT ![r] = z]
      PROVE  y = z /\ \A q \in Callers \ {r} : caller'[q] = caller[q]
  BY <1>2, <1>3, <1>6
<1>7. ASSUME NEW w \in CallerPc, CallerGoto(r, w)
      PROVE  /\ y = [pc |-> w, amount |-> x.amount]
             /\ \A q \in Callers \ {r} : caller'[q] = caller[q]
  BY <1>2, <1>3, <1>7 DEF CallerGoto
<1>8. vjob[r].status = "none"
  BY <1>2, <1>4, <1>5 DEF Untouched, CallerAt
<1>9. {"end", "count", "reserve", "undo", "create", "enqueue"} \subseteq CallerPc
  BY DEF CallerPc
<1>10. ASSUME NEW dn \in Int, used' = used + dn - d[r],
              \A q \in Callers \ {r} : caller'[q] = caller[q],
              \A q \in Requests \ {r} : vjob'[q] = vjob[q],
              IF y.pc = "end" THEN dn = 0 /\ doc.status = "none" ELSE Asked(y, doc, dn),
              Within'
       PROVE  BooksHold'
  <2>1. caller[r].pc # "end"
    BY <1>2, <1>4
  <2> QED BY <1>1, <1>2, <1>4, <1>10, <2>1, AskBooks
<1>11. used \in Int
  BY DEF BookTypes
<1>12. CASE CheckRunning(r) \/ CountPending(r)
  <2>1. used' = used + d[r] - d[r] /\ vjob' = vjob /\ doc = vjob[r]
    BY <1>2, <1>5, <1>11, <1>12 DEF CheckRunning, CountPending, docVars
  <2>2. /\ y.pc \in {"end", "count", "reserve"} /\ (y.pc = "reserve" => Sized(y.amount))
        /\ x.pc \in {"idle", "count"}
        /\ \A q \in Callers \ {r} : caller'[q] = caller[q]
    <3>1. CASE CheckRunning(r)
      <4>1. CallerGoto(r, "end") \/ CallerGoto(r, "count")
        BY <3>1 DEF CheckRunning
      <4>2. x.pc = "idle"
        BY <1>2, <3>1 DEF CheckRunning, CallerAt
      <4> QED BY <1>7, <1>9, <4>1, <4>2
    <3>2. CASE CountPending(r)
      <4> DEFINE n == Cardinality(pending)
                 w == IF pending = {} THEN "end" ELSE "reserve"
      <4>1. caller' = [caller EXCEPT ![r] = [pc |-> w, amount |-> n]] /\ x.pc = "count"
        BY <1>2, <3>2 DEF CountPending, CallerAt
      <4>2. n \in Nat /\ Sized(n)
        <5>1. n \in Nat
          BY VerificationAssumption, FS_Subset, FS_CardinalityType DEF VerificationInv, Types
        <5> QED BY <5>1 DEF Sized, BookTypes
      <4>3. w \in {"end", "reserve"}
        OBVIOUS
      <4> HIDE DEF w, n
      <4>4. [pc |-> w, amount |-> n] \in [pc : CallerPc, amount : Int]
        BY <1>9, <4>2, <4>3
      <4>5. y = [pc |-> w, amount |-> n] /\ \A q \in Callers \ {r} : caller'[q] = caller[q]
        BY <1>6, <4>1, <4>4
      <4> QED BY <4>1, <4>2, <4>3, <4>5
    <3> QED BY <1>12, <3>1, <3>2
  <2>3. Within'
    <3>1. Undo(r) = 0 /\ Undo(r)' = 0
      BY <1>2, <2>2 DEF Undo
    <3>2. used' <= used + Undo(r)' - Undo(r)
      BY <1>5, <1>11, <2>1, <3>1
    <3> QED BY <1>3, <2>2, <3>2, WithinMoves
  <2>4. d[r] = 0
    BY <1>5, <2>2 DEF Asked
  <2> QED BY <1>5, <1>8, <1>10, <2>1, <2>2, <2>3, <2>4 DEF Asked
<1>13. CASE Reserve(r, "create")
  <2> DEFINE w == IF OverLimit(used', caller[r].amount) THEN "undo" ELSE "create"
  <2>1. /\ x.pc = "reserve" /\ used' = used + x.amount /\ CallerGoto(r, w) /\ vjob' = vjob
        /\ doc = vjob[r]
    BY <1>2, <1>13 DEF Reserve, CallerAt, docVars
  <2>2. w \in {"undo", "create"}
    OBVIOUS
  <2> HIDE DEF w
  <2>3. y = [pc |-> w, amount |-> x.amount] /\ \A q \in Callers \ {r} : caller'[q] = caller[q]
    BY <1>7, <1>9, <2>1, <2>2
  <2>4. d[r] = 0 /\ Sized(x.amount) /\ x.amount \in Int
    BY <1>3, <1>5, <2>1 DEF Asked
  <2>5. Within'
    BY <1>1, <1>3, <1>13, ReserveWithin
  <2>6. used' = used + x.amount - d[r]
    BY <1>11, <2>1, <2>4
  <2>7. Asked(y, doc, x.amount) /\ y.pc # "end"
    BY <2>2, <2>3, <2>4 DEF Asked
  <2> QED BY <1>10, <2>1, <2>3, <2>4, <2>5, <2>6, <2>7
<1>14. CASE UndoReserve(r)
  <2>1. /\ x.pc = "undo" /\ used' = used - x.amount /\ CallerGoto(r, "end") /\ vjob' = vjob
        /\ doc = vjob[r]
    BY <1>2, <1>14 DEF UndoReserve, CallerAt, docVars
  <2>2. y = [pc |-> "end", amount |-> x.amount] /\ \A q \in Callers \ {r} : caller'[q] = caller[q]
    BY <1>7, <1>9, <2>1
  <2>3. d[r] = x.amount /\ x.amount \in Int
    BY <1>3, <1>5, <2>1 DEF Asked
  <2>4. Within'
    <3>1. Undo(r) = x.amount /\ Undo(r)' = 0
      BY <1>2, <2>1, <2>2 DEF Undo
    <3>2. used' <= used + Undo(r)' - Undo(r)
      BY <1>11, <2>1, <2>3, <3>1
    <3> QED BY <1>3, <2>2, <3>2, WithinMoves
  <2>5. used' = used + 0 - d[r] /\ 0 \in Int
    BY <1>11, <2>1, <2>3
  <2> QED BY <1>8, <1>10, <2>1, <2>2, <2>4, <2>5
<1>15. CASE CreateJob(r)
  <2> DEFINE e == [status |-> "queued", reserved |-> caller[r].amount, batch |-> {}]
  <2>1. /\ x.pc = "create" /\ used' = used /\ CallerGoto(r, "enqueue")
        /\ vjob' = [vjob EXCEPT ![r] = e]
    BY <1>2, <1>15 DEF CreateJob, CallerAt
  <2>2. doc.reserved = x.amount /\ \A q \in Requests \ {r} : vjob'[q] = vjob[q]
    <3>1. e.reserved = x.amount
      BY <1>2
    <3> HIDE DEF e
    <3> QED BY <1>2, <1>3, <2>1, <3>1
  <2>3. y = [pc |-> "enqueue", amount |-> x.amount] /\ \A q \in Callers \ {r} : caller'[q] = caller[q]
    BY <1>7, <1>9, <2>1
  <2>4. d[r] = x.amount /\ Sized(x.amount)
    BY <1>5, <2>1 DEF Asked
  <2>5. Within'
    <3>1. Undo(r) = 0 /\ Undo(r)' = 0
      BY <1>2, <2>1, <2>3 DEF Undo
    <3>2. used' <= used + Undo(r)' - Undo(r)
      BY <1>11, <2>1, <3>1
    <3> QED BY <1>3, <2>3, <3>2, WithinMoves
  <2>6. used' = used + d[r] - d[r]
    BY <1>5, <1>11, <2>1
  <2>7. Asked(y, doc, d[r]) /\ y.pc # "end"
    BY <2>2, <2>3, <2>4 DEF Asked
  <2> HIDE DEF e
  <2> QED BY <1>5, <1>10, <2>2, <2>3, <2>5, <2>6, <2>7
<1> QED BY <1>12, <1>13, <1>14, <1>15

\* A request adds its upload, under an id that is new.
LEMMA EnqueueUploadBooks ==
  ASSUME VerificationInv, VerificationInv', BookTypes, BookTypes', troubles = 0, BooksHold,
         NEW r \in Requests, EnqueueUpload(r)
  PROVE  BooksHold'
<1>1. PICK d \in [Requests -> Int], f \in [Requests -> Nat] : Books(d, f)
  BY DEF BooksHold
<1>2. /\ caller[r].pc = "enqueue" /\ Enqueue(task, r, "upload", 0) /\ CallerGoto(r, "end")
      /\ UNCHANGED <<vjob, pending, joined, left, inconclusive, used, Answered, refused>>
  BY DEF EnqueueUpload, CallerAt, docVars, envVars, provider, Answered, KeepHistory
<1>3. /\ r \in Callers /\ caller \in [Callers -> [pc : CallerPc, amount : Int]]
      /\ task \in [Tasks -> Jobs] /\ Types /\ Types' /\ refused \in Nat /\ used \in Int
  BY DEF Callers, VerificationInv, Types, BookTypes
<1>4. /\ Asked(caller[r], vjob[r], d[r]) /\ NewIds(r, -1) /\ Untouched(r) /\ Within
      /\ d[r] \in Int /\ f[r] \in Nat /\ vjob[r] \in Docs
  BY <1>1, <1>2, <1>3, Calls
<1>5. caller'[r].pc = "end" /\ \A q \in Callers \ {r} : caller'[q] = caller[q]
  BY <1>2, <1>3 DEF CallerGoto
<1>6. d[r] = vjob[r].reserved /\ Sized(vjob[r].reserved) /\ vjob[r].status = "queued"
  BY <1>2, <1>4 DEF Asked, Untouched, CallerAt
<1>7. PICK x : x = Waiting(r, "upload", 0, FALSE)
  OBVIOUS
<1>8. x.pc = "waiting" /\ x.v = r /\ x.step = "upload" /\ x.attempt = 0 /\ x \in Jobs
  <2>1. x \in Jobs
    BY <1>7 DEF Waiting, Jobs, TaskPc, Docs, NoDoc, Steps
  <2> QED BY <1>7, <2>1 DEF Waiting
<1>9. PICK m \in Tasks : /\ task[m].pc = "idle" /\ task' = [task EXCEPT ![m] = x]
                         /\ uploads' = uploads \cup {<<r, 0>>}
  <2> DEFINE free == {u \in Tasks : task[u].pc = "idle"}
             m == CHOOSE u \in free : TRUE
  <2>1. <<r, 0>> \notin uploads
    BY <1>4 DEF NewIds
  <2>2. free # {} /\ task' = [task EXCEPT ![m] = x] /\ uploads' = uploads \cup {<<r, 0>>}
    BY <1>2, <1>7, <2>1 DEF Enqueue
  <2>3. m \in free
    BY <2>2
  <2> QED BY <2>2, <2>3
<1>10. task'[m] = x /\ \A u \in Tasks \ {m} : task'[u] = task[u]
  BY <1>3, <1>9
<1>11. Grows
  BY <1>2, Still
<1>12. ASSUME NEW q \in Requests \ {r} PROVE DocBook(q, d[q], f[q])'
  <2>1. \A u \in Tasks : (Acts(u, q)' <=> Acts(u, q)) /\ (Acts(u, q) => task'[u] = task[u])
    <3> SUFFICES ASSUME NEW u \in Tasks
                 PROVE  (Acts(u, q)' <=> Acts(u, q)) /\ (Acts(u, q) => task'[u] = task[u])
      OBVIOUS
    <3>1. CASE u = m
      BY <1>8, <1>9, <1>10, <3>1 DEF Acts
    <3>2. CASE u # m
      BY <1>10, <3>2 DEF Acts
    <3> QED BY <3>1, <3>2
  <2>2. DocBook(q, d[q], f[q]) /\ d[q] \in Int /\ f[q] \in Nat
    BY <1>1 DEF Books
  <2>3. caller'[q] = caller[q] /\ vjob'[q] = vjob[q]
    BY <1>2, <1>5 DEF Callers
  <2>4. \A i \in Nat : <<q, i>> \in uploads' => <<q, i>> \in uploads
    BY <1>9
  <2> QED BY <1>3, <1>11, <2>1, <2>2, <2>3, <2>4, DocStays
<1>13. DocBook(r, d[r], f[r])'
  <2>1. Acts(m, r)' /\ \A u \in Tasks \ {m} : ~Acts(u, r)'
    BY <1>4, <1>8, <1>10 DEF Acts, Untouched, Live
  <2>2. Book(task[m], vjob[r], d[r], f[r])'
    <3>1. Full(d[r], vjob[r].reserved, f[r])
      <4>1. left * f[r] \in Nat
        BY <1>4, Times DEF BookTypes
      <4> QED BY <1>4, <1>6, <4>1 DEF Full
    <3>2. Book(x, vjob[r], d[r], f[r])
      BY <1>6, <1>8, <3>1 DEF Book, UploadBook, ReservedPc, ChargedPc
    <3>3. \A y \in Jobs, z \in Docs, a \in Int, b \in Nat : Book(y, z, a, b) => Book(y, z, a, b)'
      BY <1>11, BookStays
    <3> QED BY <1>2, <1>4, <1>8, <1>10, <3>2, <3>3
  <2>3. NewIds(r, 0)'
    <3> SUFFICES ASSUME NEW i \in Nat, <<r, i>> \in uploads' PROVE i <= 0
      BY DEF NewIds
    <3>1. <<r, i>> \in uploads \/ i = 0
      BY <1>9
    <3> QED BY <1>4, <3>1 DEF NewIds
  <2>4. task'[m].step = "upload" => NewIds(r, task[m].attempt)'
    BY <1>8, <1>10, <2>3
  <2> QED BY <1>5, <2>1, <2>2, <2>4 DEF DocBook
<1>14. Within'
  <2>1. Undo(r) = 0 /\ Undo(r)' = 0
    BY <1>2, <1>5 DEF Undo
  <2>2. used' <= used + Undo(r)' - Undo(r)
    BY <1>2, <1>3, <2>1
  <2> QED BY <1>3, <1>4, <1>5, <2>2, WithinMoves
<1>15. /\ used' - Answered' = used - Answered + d[r] - d[r] /\ refused' = refused + f[r] - f[r]
       /\ \A c \in Singles : caller'[c] = caller[c]
  BY <1>2, <1>3, <1>4, <1>5, VerificationAssumption DEF BookTypes, Callers
<1> QED BY <1>1, <1>3, <1>4, <1>12, <1>13, <1>14, <1>15, Rebook DEF Within

\* A single address holds one of the counter until it is charged for.
LEMMA SingleMoves ==
  ASSUME VerificationInv, VerificationInv', BookTypes, BookTypes', troubles = 0,
         NEW d \in [Requests -> Int], NEW f \in [Requests -> Nat], Books(d, f),
         NEW c \in Singles, \A q \in Callers \ {c} : caller'[q] = caller[q],
         UNCHANGED <<vjob, task, uploads, pending, joined, left, inconclusive, refused>>,
         SingleBook(caller'[c]), NEW a, NEW b, a = Asking[c], b = Asking'[c],
         used' - Answered' = used - Answered + b - a, Within'
  PROVE  BooksHold'
<1>1. Grows /\ Types /\ Types' /\ c \notin Requests
  BY Still, VerificationAssumption DEF VerificationInv
<1>2. ASSUME NEW q \in Requests PROVE DocBook(q, d[q], f[q])'
  <2>1. \A u \in Tasks : (Acts(u, q)' <=> Acts(u, q)) /\ (Acts(u, q) => task'[u] = task[u])
    BY DEF Acts
  <2>2. DocBook(q, d[q], f[q]) /\ d[q] \in Int /\ f[q] \in Nat
    BY DEF Books
  <2>3. caller'[q] = caller[q] /\ vjob'[q] = vjob[q]
    BY <1>1 DEF Callers
  <2> QED BY <1>1, <2>1, <2>2, <2>3, DocStays
<1>3. \A q \in Singles : SingleBook(caller[q])'
  <2> SUFFICES ASSUME NEW q \in Singles PROVE SingleBook(caller'[q])
    BY DEF SingleBook
  <2>1. CASE q = c
    BY <2>1
  <2>2. CASE q # c
    BY <2>2 DEF Books, Callers
  <2> QED BY <2>1, <2>2
<1>4. (used - Answered = Sum(d, Requests) + Sum(Asking, Singles))'
  <2> DEFINE g == Asking
             h == Asking'
  <2>1. g \in [Singles -> Int] /\ h \in [Singles -> Int]
    BY <1>3 DEF Asking, Books, SingleBook
  <2>2. \A q \in Singles \ {c} : h[q] = g[q]
    BY DEF Asking, Callers
  <2>3. used - Answered = Sum(d, Requests) + Sum(g, Singles)
    BY DEF Books
  <2>4. a = g[c] /\ b = h[c]
    OBVIOUS
  <2> HIDE DEF g, h
  <2>5. Sum(h, Singles) = Sum(g, Singles) + b - a /\ a \in Int /\ b \in Int
    BY <2>1, <2>2, <2>4, SumChanges, VerificationAssumption
  <2>6. Sum(g, Singles) \in Int /\ Sum(d, Requests) \in Int
    BY <2>1, SumInt, VerificationAssumption
  <2>7. used' - Answered' = Sum(d, Requests) + Sum(h, Singles)
    BY <2>3, <2>5, <2>6
  <2> QED BY <2>7 DEF h
<1>5. (refused = Sum(f, Requests))'
  BY DEF Books
<1>6. Books(d, f)'
  BY <1>2, <1>3, <1>4, <1>5 DEF Books, Within
<1> QED BY <1>6 DEF BooksHold

\* A charge whose answer is lost is given back like a request that failed.
LEMMA ChargeAnswered ==
  ASSUME BookTypes, NEW c \in Singles, VerifySingle(c)
  PROVE  /\ billed' \in {billed, billed + 1} /\ unanswered' \in {unanswered, unanswered + 1}
         /\ \/ CallerGoto(c, "release") /\ Answered' = Answered
            \/ CallerGoto(c, "end") /\ Answered' = Answered + 1
<1>1. billed \in Int /\ unanswered \in Int
  BY DEF BookTypes
<1>2. CASE CallerGoto(c, "release") /\ UNCHANGED <<billed, unanswered, events>>
  BY <1>2 DEF Answered
<1>3. CASE CallerGoto(c, "end") /\ billed' = billed + 1 /\ UNCHANGED <<unanswered, events>>
  BY <1>1, <1>3 DEF Answered
<1>4. CASE CallerGoto(c, "release") /\ billed' = billed + 1 /\ unanswered' = unanswered + 1
  BY <1>1, <1>4 DEF Answered
<1> QED BY <1>2, <1>3, <1>4 DEF VerifySingle

\* The steps of a single address.
LEMMA SingleBooks ==
  ASSUME VerificationInv, VerificationInv', BookTypes, BookTypes', troubles = 0, BooksHold,
         NEW c \in Singles, SingleStep(c)
  PROVE  BooksHold'
<1>1. PICK d \in [Requests -> Int], f \in [Requests -> Nat] : Books(d, f)
  BY DEF BooksHold
<1>2. PICK x, y : x = caller[c] /\ y = caller'[c]
  OBVIOUS
<1>3. /\ c \in Callers /\ caller \in [Callers -> [pc : CallerPc, amount : Int]]
      /\ x \in [pc : CallerPc, amount : Int] /\ Within /\ SingleBook(x)
      /\ used \in Int /\ Answered \in Int /\ used' \in Int /\ Answered' \in Int
  BY <1>1, <1>2, Calls DEF Callers, VerificationInv, Types, BookTypes
<1>4. UNCHANGED <<vjob, task, uploads, pending, joined, left, inconclusive, refused>>
  BY DEF SingleStep, AskSingle, Reserve, UndoReserve, VerifySingle, ReleaseSingle, docVars, jobVars,
     envVars, KeepHistory, KeepOthers
<1>5. ASSUME NEW w \in CallerPc, CallerGoto(c, w)
      PROVE  /\ y = [pc |-> w, amount |-> x.amount]
             /\ \A q \in Callers \ {c} : caller'[q] = caller[q]
  BY <1>2, <1>3, <1>5 DEF CallerGoto
<1>6. {"end", "reserve", "undo", "ask", "release"} \subseteq CallerPc
  BY DEF CallerPc
<1> DEFINE held(z) == IF z.pc \in {"undo", "ask", "release"} THEN z.amount ELSE 0
<1>7. Asking[c] = held(x) /\ Asking'[c] = held(y)
  BY <1>2 DEF Asking
<1>8. ASSUME SingleBook(y), used' - Answered' = used - Answered + held(y) - held(x),
             \A q \in Callers \ {c} : caller'[q] = caller[q], Within'
      PROVE  BooksHold'
  <2>1. PICK a, b : a = held(x) /\ b = held(y)
    OBVIOUS
  <2>2. a = Asking[c] /\ b = Asking'[c] /\ used' - Answered' = used - Answered + b - a
    BY <1>7, <1>8, <2>1
  <2>3. SingleBook(caller'[c])
    BY <1>2, <1>8
  <2> QED BY <1>1, <1>4, <1>8, <2>2, <2>3, SingleMoves
<1>9. CASE AskSingle(c)
  <2>1. x.pc = "idle" /\ used' = used /\ Answered' = Answered
    BY <1>2, <1>9 DEF AskSingle, CallerAt, provider, Answered
  <2>2. /\ y.pc \in {"reserve", "end"} /\ (y.pc = "reserve" => y.amount = 1)
        /\ \A q \in Callers \ {c} : caller'[q] = caller[q]
    <3>1. CASE CallerGoto(c, "end")
      BY <1>5, <1>6, <3>1
    <3>2. CASE caller' = [caller EXCEPT ![c] = [pc |-> "reserve", amount |-> 1]]
      BY <1>2, <1>3, <3>2
    <3> QED BY <1>9, <3>1, <3>2 DEF AskSingle
  <2>3. Within'
    <3>1. Undo(c) = 0 /\ Undo(c)' = 0
      BY <1>2, <2>1, <2>2 DEF Undo
    <3>2. used' <= used + Undo(c)' - Undo(c)
      BY <1>3, <2>1, <3>1
    <3> QED BY <1>3, <2>2, <3>2, WithinMoves
  <2>4. SingleBook(y)
    BY <2>2 DEF SingleBook
  <2>5. used' - Answered' = used - Answered + held(y) - held(x)
    BY <1>3, <2>1, <2>2
  <2> QED BY <1>8, <2>2, <2>3, <2>4, <2>5
<1>10. CASE Reserve(c, "ask")
  <2> DEFINE w == IF OverLimit(used', caller[c].amount) THEN "undo" ELSE "ask"
  <2>1. /\ x.pc = "reserve" /\ used' = used + x.amount /\ CallerGoto(c, w) /\ Answered' = Answered
    BY <1>2, <1>10 DEF Reserve, CallerAt, provider, Answered
  <2>2. w \in {"undo", "ask"}
    OBVIOUS
  <2> HIDE DEF w
  <2>3. y = [pc |-> w, amount |-> x.amount] /\ \A q \in Callers \ {c} : caller'[q] = caller[q]
    BY <1>5, <1>6, <2>1, <2>2
  <2>4. x.amount = 1
    BY <1>3, <2>1 DEF SingleBook
  <2>5. Within'
    BY <1>1, <1>3, <1>10, ReserveWithin
  <2>6. SingleBook(y)
    BY <2>2, <2>3, <2>4 DEF SingleBook
  <2>7. used' - Answered' = used - Answered + held(y) - held(x)
    BY <1>3, <2>1, <2>2, <2>3, <2>4
  <2> QED BY <1>8, <2>3, <2>5, <2>6, <2>7
<1>11. CASE UndoReserve(c) \/ VerifySingle(c) \/ ReleaseSingle(c)
  <2>1. /\ x.pc \in {"undo", "ask", "release"} /\ x.amount = 1
        /\ \/ CallerGoto(c, "end") /\ used' - Answered' = used - Answered - 1
           \/ CallerGoto(c, "release") /\ used' = used /\ Answered' = Answered /\ x.pc = "ask"
        /\ used' = IF x.pc = "ask" THEN used ELSE used - 1
    <3>1. x.pc \in {"undo", "ask", "release"} /\ x.amount = 1
      BY <1>2, <1>3, <1>11 DEF UndoReserve, VerifySingle, ReleaseSingle, CallerAt, SingleBook
    <3>2. CASE UndoReserve(c)
      BY <1>2, <1>3, <3>1, <3>2 DEF UndoReserve, CallerAt, provider, Answered
    <3>3. CASE VerifySingle(c)
      <4>1. x.pc = "ask" /\ used' = used
        BY <1>2, <3>3 DEF VerifySingle, CallerAt
      <4>2. \/ CallerGoto(c, "release") /\ Answered' = Answered
            \/ CallerGoto(c, "end") /\ Answered' = Answered + 1
        BY <3>3, ChargeAnswered
      <4>3. CASE CallerGoto(c, "release") /\ Answered' = Answered
        BY <3>1, <4>1, <4>3
      <4>4. CASE CallerGoto(c, "end") /\ Answered' = Answered + 1
        <5>1. used' - Answered' = used - Answered - 1
          BY <1>3, <4>1, <4>4
        <5> QED BY <3>1, <4>1, <4>4, <5>1
      <4> QED BY <4>2, <4>3, <4>4
    <3>4. CASE ReleaseSingle(c)
      BY <1>2, <1>3, <3>1, <3>4 DEF ReleaseSingle, CallerAt, provider, Answered
    <3> QED BY <1>11, <3>1, <3>2, <3>3, <3>4
  <2>2. PICK w \in {"end", "release"} :
           /\ CallerGoto(c, w)
           /\ w = "end" => used' - Answered' = used - Answered - 1
           /\ w = "release" => used' = used /\ Answered' = Answered /\ x.pc = "ask"
    BY <2>1
  <2>3. y = [pc |-> w, amount |-> 1] /\ \A q \in Callers \ {c} : caller'[q] = caller[q]
    BY <1>5, <1>6, <2>1, <2>2
  <2>4. Within'
    <3>1. /\ Undo(c) = IF x.pc = "undo" THEN 1 ELSE 0
          /\ Undo(c)' = 0
      BY <1>2, <2>1, <2>2, <2>3 DEF Undo
    <3>2. used' <= used + Undo(c)' - Undo(c)
      BY <1>3, <2>1, <2>2, <3>1
    <3> QED BY <1>3, <2>3, <3>2, WithinMoves
  <2>5. SingleBook(y)
    BY <2>2, <2>3 DEF SingleBook
  <2>6. used' - Answered' = used - Answered + held(y) - held(x)
    <3>1. held(x) = 1
      BY <2>1
    <3>2. held(y) = IF w = "end" THEN 0 ELSE 1
      BY <2>2, <2>3
    <3> HIDE DEF held
    <3>3. CASE w = "end"
      <4>1. used' - Answered' = used - Answered - 1
        BY <2>2, <3>3
      <4>2. held(y) = 0
        BY <3>2, <3>3
      <4>3. used \in Int /\ Answered \in Int
        BY <1>3
      <4> QED BY <3>1, <4>1, <4>2, <4>3
    <3>4. CASE w = "release"
      BY <1>3, <2>2, <3>1, <3>2, <3>4
    <3> QED BY <3>3, <3>4
  <2> QED BY <1>8, <2>3, <2>4, <2>5, <2>6
<1> QED BY <1>9, <1>10, <1>11 DEF SingleStep

-----------------------------------------------------------------------------
(* The theorems of the books.                                               *)

\* The numbers of the month are numbers.
LEMMA BookTypesHold ==
  ASSUME VerificationInv, BookTypes, [Next]_vars
  PROVE  BookTypes'
<1>1. /\ used \in Int /\ billed \in Int /\ unanswered \in Int /\ joined \in Nat /\ left \in Nat
      /\ inconclusive \subseteq Contacts
  BY DEF BookTypes
<1>2. ASSUME NEW c \in Singles, SingleStep(c) PROVE BookTypes'
  <2>1. c \in Callers
    BY DEF Callers
  <2>2. caller[c].amount \in Int
    BY <2>1 DEF VerificationInv, Types
  <2>3. UNCHANGED envVars
    BY <1>2 DEF SingleStep, AskSingle, Reserve, UndoReserve, VerifySingle, ReleaseSingle
  <2>4. /\ used' \in {used, used + caller[c].amount, used - caller[c].amount, used - 1}
        /\ billed' \in {billed, billed + 1} /\ unanswered' \in {unanswered, unanswered + 1}
    BY <1>2, ChargeAnswered DEF SingleStep, AskSingle, Reserve, UndoReserve, VerifySingle, ReleaseSingle, provider
  <2> QED BY <1>1, <2>2, <2>3, <2>4 DEF BookTypes, Answered, envVars
<1>3. ASSUME NEW r \in Requests, RequestStep(r) PROVE BookTypes'
  <2>1. r \in Callers
    BY DEF Callers
  <2>2. caller[r].amount \in Int
    BY <2>1 DEF VerificationInv, Types
  <2>3. UNCHANGED <<envVars, billed, unanswered>>
    BY <1>3 DEF RequestStep, CheckRunning, CountPending, Reserve, UndoReserve, CreateJob, EnqueueUpload,
       provider
  <2>4. used' \in {used, used + caller[r].amount, used - caller[r].amount}
    BY <1>3 DEF RequestStep, CheckRunning, CountPending, Reserve, UndoReserve, CreateJob, EnqueueUpload
  <2> QED BY <1>1, <2>2, <2>3, <2>4 DEF BookTypes, Answered, envVars
<1>4. ASSUME NEW t \in Tasks, WorkerStep(t) PROVE BookTypes'
  <2> DEFINE b == task[t].doc.batch
  <2>1. /\ task[t].doc.reserved \in Int /\ b \in SUBSET Contacts
    BY Typed DEF Docs
  <2>2. /\ Cardinality(b) \in Int /\ Cardinality(b \cap inconclusive) \in Int /\ Billable(b) \in Int
    <3> HIDE DEF b
    <3> QED BY <1>1, <2>1, Sizes DEF Unknown
  <2>3. CASE \/ TakeStep(t) \/ Finish(t) \/ Retry(t) \/ Fail(t) \/ SaveUploading(t) \/ ReadPending(t)
             \/ SaveEmpty(t) \/ SaveQueued(t) \/ SaveVerifying(t) \/ EnqueuePoll(t)
             \/ SaveApplying(t) \/ EnqueueApply(t) \/ Download(t) \/ SaveDone(t) \/ DeleteList(t)
             \/ MarkFailed(t)
    <3>1. UNCHANGED <<envVars, used, billed, unanswered>>
      BY <2>3 DEF TakeStep, Finish, Retry, Fail, SaveUploading, ReadPending, SaveEmpty, SaveQueued,
         SaveVerifying, EnqueuePoll, SaveApplying, EnqueueApply, Download, SaveDone, DeleteList,
         MarkFailed, Save, provider
    <3> QED BY <1>1, <3>1 DEF BookTypes, Answered, envVars
  <2>4. CASE GiveBack(t) \/ Refund(t) \/ ReleaseUnused(t) \/ ReleaseUnknown(t)
    <3>1. UNCHANGED <<envVars, billed, unanswered>>
      BY <2>4 DEF GiveBack, Refund, ReleaseUnused, ReleaseUnknown, Release, provider
    <3>2. used' \in {used - task[t].doc.reserved, used - (task[t].doc.reserved - Cardinality(b)),
                     used - Cardinality(b \cap inconclusive)}
      BY <2>4 DEF GiveBack, Refund, ReleaseUnused, ReleaseUnknown, Release, Unused
    <3> HIDE DEF b
    <3> QED BY <1>1, <2>1, <2>2, <3>1, <3>2 DEF BookTypes, Answered, envVars
  <2>5. CASE UploadList(t) \/ GetProgress(t)
    <3>1. UNCHANGED <<envVars, used, unanswered>>
      BY <2>5 DEF UploadList, GetProgress, provider
    <3>2. billed' \in {billed, billed + Billable(b), billed - Billable(b)}
      BY <2>5 DEF UploadList, GetProgress, provider
    <3> HIDE DEF b
    <3> QED BY <1>1, <2>1, <2>2, <3>1, <3>2 DEF BookTypes, Answered, envVars
  <2>6. CASE Write(t)
    <3>1. /\ UNCHANGED <<used, billed, unanswered, joined, inconclusive>> /\ left' \in {left, left + 1}
      BY <2>6 DEF Write, WriteRows, provider
    <3> QED BY <1>1, <3>1 DEF BookTypes, Answered
  <2> QED BY <1>4, <2>3, <2>4, <2>5, <2>6 DEF WorkerStep
<1>5. ASSUME NEW t \in Tasks, MongoFault(t) \/ WorkerDies(t) PROVE BookTypes'
  <2>1. UNCHANGED <<envVars, used, billed, unanswered>>
    BY <1>5 DEF MongoFault, WorkerDies, provider
  <2> QED BY <1>1, <2>1 DEF BookTypes, Answered, envVars
<1>6. ASSUME NEW c \in Callers, CallerDies(c) PROVE BookTypes'
  <2>1. UNCHANGED <<envVars, used, billed, unanswered>>
    BY <1>6 DEF CallerDies, provider
  <2> QED BY <1>1, <2>1 DEF BookTypes, Answered, envVars
<1>7. ASSUME NEW c \in Contacts, Join(c) \/ Leave(c) PROVE BookTypes'
  <2>1. /\ UNCHANGED <<inconclusive, used, billed, unanswered>> /\ joined' \in {joined, joined + 1}
        /\ left' \in {left, left + 1}
    BY <1>7 DEF Join, Leave, provider
  <2> QED BY <1>1, <2>1 DEF BookTypes, Answered
<1>8. CASE UNCHANGED vars
  BY <1>1, <1>8 DEF BookTypes, Answered, vars
<1> QED BY <1>2, <1>3, <1>4, <1>5, <1>6, <1>7, <1>8 DEF Next

\* Any step of a worker keeps the books.
LEMMA WorkerBooks ==
  ASSUME VerificationInv, VerificationInv', BookTypes, BookTypes', troubles = 0, BooksHold,
         NEW t \in Tasks, WorkerStep(t)
  PROVE  BooksHold'
BY TakeStepBooks, FinishBooks, RetryBooks, GiveBackBooks, FailBooks, SaveUploadingBooks,
   ReadPendingBooks, ReleaseUnusedBooks, SaveEmptyBooks, UploadListBooks, SaveQueuedBooks,
   SaveVerifyingBooks, EnqueuePollBooks, GetProgressBooks, SaveApplyingBooks,
   DownloadBooks, WriteBooks, ReleaseUnknownBooks, SaveDoneBooks, DeleteListBooks, MarkFailedBooks
   DEF WorkerStep

\* Any step at all.
LEMMA QuotaNext == QuotaInv /\ [Next]_vars => QuotaInv'
<1> SUFFICES ASSUME QuotaInv, [Next]_vars PROVE QuotaInv'
  OBVIOUS
<1>1. VerificationInv /\ VerificationInv' /\ BookTypes /\ BookTypes'
  BY NextKeeps, BookTypesHold DEF QuotaInv
<1>2. ASSUME troubles' = 0 PROVE troubles = 0 /\ BooksHold
  <2>1. troubles \in Nat
    BY <1>1 DEF VerificationInv, Types
  <2>2. troubles' \in {troubles, troubles + 1}
    <3>1. ASSUME NEW c \in Singles, SingleStep(c) PROVE troubles' = troubles
      BY <3>1 DEF SingleStep, AskSingle, Reserve, UndoReserve, VerifySingle, ReleaseSingle, KeepHistory,
         KeepOthers
    <3>2. ASSUME NEW r \in Requests, RequestStep(r) PROVE troubles' = troubles
      BY <3>2 DEF RequestStep, CheckRunning, CountPending, Reserve, UndoReserve, CreateJob,
         EnqueueUpload, KeepHistory, KeepOthers
    <3>3. ASSUME NEW t \in Tasks, WorkerStep(t) PROVE troubles' = troubles
      BY <3>3 DEF WorkerStep, TakeStep, Finish, Retry, GiveBack, Fail, SaveUploading, ReadPending,
         ReleaseUnused, SaveEmpty, UploadList, SaveQueued, SaveVerifying, EnqueuePoll, GetProgress,
         Refund, SaveApplying, EnqueueApply, Download, Write, ReleaseUnknown, SaveDone, DeleteList,
         MarkFailed, Save, Release, KeepHistory, KeepOthers
    <3>4. ASSUME NEW t \in Tasks, MongoFault(t) \/ WorkerDies(t) PROVE troubles' = troubles + 1
      BY <3>4 DEF MongoFault, WorkerDies, Trouble
    <3>5. ASSUME NEW c \in Callers, CallerDies(c) PROVE troubles' = troubles + 1
      BY <3>5 DEF CallerDies, Trouble
    <3>6. ASSUME NEW c \in Contacts, Join(c) \/ Leave(c) PROVE troubles' = troubles
      BY <3>6 DEF Join, Leave, KeepOthers
    <3>7. CASE UNCHANGED vars
      BY <3>7 DEF vars
    <3> QED BY <3>1, <3>2, <3>3, <3>4, <3>5, <3>6, <3>7 DEF Next
  <2>3. troubles = 0
    BY <1>2, <2>1, <2>2
  <2> QED BY <2>3 DEF QuotaInv
<1>3. ASSUME troubles' = 0 PROVE BooksHold'
  <2>1. troubles = 0 /\ BooksHold
    BY <1>2, <1>3
  <2>2. ASSUME NEW c \in Singles, SingleStep(c) PROVE BooksHold'
    BY <1>1, <2>1, <2>2, SingleBooks
  <2>3. ASSUME NEW r \in Requests, RequestStep(r) PROVE BooksHold'
    BY <1>1, <2>1, <2>3, RequestBooks, EnqueueUploadBooks DEF RequestStep
  <2>4. ASSUME NEW t \in Tasks, WorkerStep(t) PROVE BooksHold'
    BY <1>1, <2>1, <2>4, WorkerBooks
  <2>5. ASSUME NEW t \in Tasks, MongoFault(t) \/ WorkerDies(t) PROVE FALSE
    BY <1>3, <2>1, <2>5 DEF MongoFault, WorkerDies, Trouble
  <2>6. ASSUME NEW c \in Callers, CallerDies(c) PROVE FALSE
    BY <1>3, <2>1, <2>6 DEF CallerDies, Trouble
  <2>7. ASSUME NEW c \in Contacts, Join(c) \/ Leave(c) PROVE BooksHold'
    BY <1>1, <2>1, <2>7, ListBooks
  <2>8. CASE UNCHANGED vars
    <3>1. /\ UNCHANGED <<vjob, caller, used, Answered, refused, uploads, task>>
          /\ UNCHANGED <<pending, joined, left, inconclusive>>
      BY <2>8 DEF vars, Answered
    <3>2. Grows
      BY <1>1, <3>1, Still
    <3> QED BY <1>1, <2>1, <3>1, <3>2, Meanwhile
  <2> QED BY <2>2, <2>3, <2>4, <2>5, <2>6, <2>7, <2>8 DEF Next
<1> QED BY <1>1, <1>3 DEF QuotaInv

\* In the beginning nothing is reserved.
LEMMA QuotaInit == Init => QuotaInv
<1> SUFFICES ASSUME Init PROVE QuotaInv
  OBVIOUS
<1>1. VerificationInv
  BY InitHolds
<1>2. BookTypes
  BY DEF Init, BookTypes, Answered
<1> DEFINE d == [r \in Requests |-> 0]
           z == [c \in Singles |-> 0]
<1>3. d \in [Requests -> Int] /\ d \in [Requests -> Nat] /\ z \in [Singles -> Int]
  OBVIOUS
<1>4. caller = [c \in Callers |-> [pc |-> "idle", amount |-> 0]]
  BY DEF Init
<1>5. Undoing(Requests) = d /\ Undoing(Singles) = z /\ Asking = z
  BY <1>4 DEF Undoing, Asking, Callers
<1>6. Sum(d, Requests) = 0 /\ Sum(z, Singles) = 0
  <2>1. \A r \in Requests : d[r] = 0
    OBVIOUS
  <2>2. \A c \in Singles : z[c] = 0
    OBVIOUS
  <2> HIDE DEF d, z
  <2> QED BY <1>3, <2>1, <2>2, SumZero, VerificationAssumption
<1>7. ASSUME NEW r \in Requests PROVE DocBook(r, 0, 0)
  <2>1. caller[r].pc = "idle" /\ uploads = {}
    BY <1>4 DEF Callers, Init
  <2> QED BY <2>1 DEF DocBook, Asked, NewIds
<1>8. \A r \in Requests : DocBook(r, d[r], d[r])
  BY <1>7
<1>9. \A c \in Singles : SingleBook(caller[c])
  BY <1>4 DEF Callers, SingleBook
<1>10. used = 0 /\ Answered = 0 /\ refused = 0 /\ MonthlyLimit \in Nat
  BY VerificationAssumption DEF Init, Answered
<1>11. Books(d, d)
  <2> HIDE DEF d, z
  <2> QED BY <1>5, <1>6, <1>8, <1>9, <1>10 DEF Books
<1>12. BooksHold
  <2> HIDE DEF d
  <2> QED BY <1>3, <1>11 DEF BooksHold
<1> QED BY <1>1, <1>2, <1>12 DEF QuotaInv

\* The month's counter is accounted for, document by document, for any number of requests,
\* single addresses, workers, contacts and retries, until a crash or a failure of MongoDB.
THEOREM BooksAreKept == Spec => []QuotaInv
<1> QED BY QuotaInit, QuotaNext, PTL DEF Spec

\* The part of a document in the counter, when nothing is reserved beyond the limit for it.
LEMMA HeldBounds ==
  ASSUME VerificationInv, BookTypes, troubles = 0, NEW d \in [Requests -> Int],
         NEW f \in [Requests -> Nat], Books(d, f), NEW r \in Requests
  PROVE  d[r] - Undo(r) + joined + left * f[r] >= 0 /\ Undo(r) \in Int
<1> DEFINE c == caller[r]
           a == left * f[r]
<1>1. /\ r \in Callers /\ d[r] \in Int /\ f[r] \in Nat /\ joined \in Nat /\ left \in Nat
      /\ c \in [pc : CallerPc, amount : Int] /\ vjob[r] \in Docs /\ task \in [Tasks -> Jobs]
  BY DEF Callers, BookTypes, VerificationInv, Types
<1>2. a \in Nat
  BY <1>1, Times
<1>3. CASE c.pc # "end"
  <2>1. Asked(c, vjob[r], d[r])
    BY <1>1, <1>3, Calls
  <2>2. /\ Undo(r) = IF c.pc = "undo" THEN c.amount ELSE 0
        /\ d[r] = IF c.pc \in {"undo", "create"} THEN c.amount
                  ELSE IF c.pc = "enqueue" THEN vjob[r].reserved ELSE 0
        /\ c.pc = "create" => c.amount \in Nat
        /\ c.pc = "enqueue" => vjob[r].reserved \in Nat
    BY <2>1 DEF Undo, Asked, Sized
  <2>3. d[r] - Undo(r) >= 0 /\ Undo(r) \in Int
    BY <1>1, <2>2
  <2> HIDE DEF a
  <2>4. d[r] - Undo(r) + joined + a >= 0
    BY <1>1, <1>2, <2>3
  <2> QED BY <2>3, <2>4 DEF a
<1>4. CASE c.pc = "end"
  <2>1. Undo(r) = 0
    BY <1>4 DEF Undo
  <2>2. DocBook(r, d[r], f[r])
    BY DEF Books
  <2>3. d[r] + joined + a >= 0
    <3>1. CASE Rest(vjob[r], d[r], f[r])
      BY <3>1 DEF Rest
    <3>2. ASSUME NEW t \in Tasks, Acts(t, r), Book(task[t], vjob[r], d[r], f[r])
          PROVE  d[r] + joined + a >= 0
      <4> DEFINE x == task[t]
                 doc == vjob[r]
      <4>1. /\ x \in Jobs /\ x.pc \notin {"idle", "finish"} /\ x.v = r
            /\ TaskFits(x, doc, accepted[r], checked[r], refused)
        BY <1>1, <3>2, Acting DEF Acts
      <4>2. ASSUME NEW n \in Nat, Full(d[r], n, f[r]) \/ Short(d[r], n, f[r])
            PROVE  d[r] + joined + a >= 0
        BY <1>1, <1>2, <4>2 DEF Full, Short
      <4>3. /\ Cardinality(x.doc.batch) \in Nat /\ Unknown(x.doc.batch) \in Nat
            /\ Unknown(doc.batch) \in Nat
        BY <1>1, <4>1, Numbers
      <4>4. \/ \E n \in Nat : Full(d[r], n, f[r]) \/ Short(d[r], n, f[r])
            \/ d[r] + joined + a >= 0
        <5>1. CASE x.pc = "fail" \/ x.pc = "enqueuePoll"
          BY <3>2, <4>3, <5>1 DEF Book, Charged
        <5>2. CASE x.step = "upload" /\ x.pc \notin {"fail", "enqueuePoll"}
          <6>1. x.pc \in ReservedPc \cup {"upload", "saveEmpty", "saveVerifying"}
            BY <3>2, <4>1, <5>2 DEF TaskFits, StepFits, OnlyPoll, OnlyApply, Jobs, TaskPc, ReservedPc,
               Book
          <6> QED BY <3>2, <4>3, <5>2, <6>1 DEF Book, UploadBook, Sized
        <5>3. CASE x.step # "upload" /\ x.pc \notin {"fail", "enqueuePoll"}
          <6>1. x.pc \in ChargedPc \cup {"waiting", "refund", "saveDone", "deleteList"}
            BY <3>2, <4>1, <5>3 DEF TaskFits, StepFits, OnlyUpload, Jobs, TaskPc, ChargedPc, Book
          <6>2. 0 \in Nat
            OBVIOUS
          <6> QED BY <3>2, <4>3, <5>3, <6>1, <6>2 DEF Book, LaterBook, Charged
        <5> QED BY <5>1, <5>2, <5>3
      <4> QED BY <4>2, <4>4
    <3> QED BY <1>4, <2>2, <3>1, <3>2 DEF DocBook
  <2> HIDE DEF a
  <2>4. d[r] - Undo(r) + joined + a >= 0
    BY <1>1, <1>2, <2>1, <2>3
  <2> QED BY <2>1, <2>4 DEF a
<1> QED BY <1>3, <1>4

\* What is charged for is in the counter, but for contacts that joined in between and what
\* repeated uploads gave back again.
LEMMA BilledIsHeld ==
  ASSUME QuotaInv PROVE BilledWithinQuota
<1> SUFFICES ASSUME MonthlyLimit # 0, troubles = 0
             PROVE  billed <= MonthlyLimit + joined * Cardinality(Requests) + left * refused + unanswered
  BY DEF BilledWithinQuota
<1>1. VerificationInv /\ BookTypes /\ BooksHold
  BY DEF QuotaInv
<1>2. PICK d \in [Requests -> Int], f \in [Requests -> Nat] : Books(d, f)
  BY <1>1 DEF BooksHold
<1> DEFINE u == Undoing(Requests)
           v == Undoing(Singles)
           h == Asking
<1>3. /\ used - Answered = Sum(d, Requests) + Sum(h, Singles) /\ refused = Sum(f, Requests)
      /\ used <= MonthlyLimit + Sum(u, Requests) + Sum(v, Singles)
  BY <1>2 DEF Books
<1>4. /\ used \in Int /\ Answered \in Int /\ joined \in Int /\ left \in Int /\ MonthlyLimit \in Int
      /\ f \in [Requests -> Int] /\ IsFiniteSet(Requests) /\ IsFiniteSet(Singles)
      /\ \A c \in Callers : caller[c].amount \in Int
  BY <1>1, VerificationAssumption DEF BookTypes, VerificationInv, Types
<1>5. /\ u \in [Requests -> Int] /\ v \in [Singles -> Int] /\ h \in [Singles -> Int]
      /\ \A c \in Singles : v[c] <= h[c]
  <2>1. \A c \in Singles : SingleBook(caller[c])
    BY <1>2 DEF Books
  <2> QED BY <1>4, <2>1 DEF Undoing, Asking, Callers, SingleBook
<1>6. \A r \in Requests : d[r] - u[r] + joined + left * f[r] >= 0
  BY <1>1, <1>2, HeldBounds DEF Undoing, Undo
<1> HIDE DEF u, v, h
<1>7. Sum(d, Requests) - Sum(u, Requests) + joined * Cardinality(Requests) + left * Sum(f, Requests) >= 0
  BY <1>4, <1>5, <1>6, SumBound
<1>8. Sum(v, Singles) <= Sum(h, Singles)
  BY <1>4, <1>5, SumGrows
<1>9. /\ Sum(d, Requests) \in Int /\ Sum(u, Requests) \in Int /\ Sum(v, Singles) \in Int
      /\ Sum(h, Singles) \in Int
  BY <1>4, <1>5, SumInt
<1> DEFINE a == joined * Cardinality(Requests)
           b == left * refused
<1>10. a \in Int /\ b \in Int /\ billed \in Int /\ unanswered \in Int /\ Answered = billed - unanswered
  <2>1. refused \in Int /\ Cardinality(Requests) \in Int
    BY <1>1, <1>4, FS_CardinalityType DEF VerificationInv, Types
  <2> QED BY <1>1, <1>4, <2>1 DEF BookTypes, Answered
<1>11. Sum(d, Requests) - Sum(u, Requests) + a + b >= 0
  BY <1>3, <1>7
<1> HIDE DEF a, b
<1>12. Answered <= MonthlyLimit + a + b
  BY <1>3, <1>4, <1>8, <1>9, <1>10, <1>11
<1>13. billed <= MonthlyLimit + a + b + unanswered
  BY <1>4, <1>10, <1>12
<1> QED BY <1>13 DEF a, b

\* The fold over Kept is the sum of its values.
LEMMA KeptIsSum ==
  ASSUME NEW g, g = [r \in Requests |-> Kept(r)]
  PROVE  MapThenSumSet(Kept, Requests) = Sum(g, Requests)
<1>0. IsFiniteSet(Requests)
  BY VerificationAssumption
<1> DEFINE Is(k) == k = [s \in SUBSET Requests |-> IF s = {} THEN 0
                         ELSE LET x == Some(s) IN Kept(x) + k[s \ {x}]]
           K == CHOOSE k : Is(k)
<1>1. MapThenSumSet(Kept, Requests) = K[Requests]
  BY Zenon DEF MapThenSumSet, MapThenFoldSet, Some
<1>2. ASSUME NEW k PROVE Is(k) <=> IsSum(k, g, Requests)
  <2>1. ASSUME NEW s \in SUBSET Requests, s # {} PROVE g[Some(s)] = Kept(Some(s))
    <3>1. Some(s) \in s
      BY ONLY <2>1, Zenon DEF Some
    <3> QED BY <2>1, <3>1
  <2>2. [s \in SUBSET Requests |-> IF s = {} THEN 0
                         ELSE LET x == Some(s) IN Kept(x) + k[s \ {x}]]
        = [s \in SUBSET Requests |-> IF s = {} THEN 0
                         ELSE LET x == Some(s) IN g[x] + k[s \ {x}]]
    BY <2>1, Zenon
  <2> QED BY <2>2, Zenon DEF IsSum
<1>3. PICK k : IsSum(k, g, Requests)
  BY <1>0, SumExists
<1>4. IsSum(K, g, Requests)
  <2>1. Is(k)
    BY <1>2, <1>3
  <2> HIDE DEF Is
  <2>2. Is(K)
    BY <2>1
  <2> QED BY <1>2, <2>2
<1>5. PICK G : IsSum(G, g, Requests) /\ Sum(g, Requests) = G[Requests]
  <2> DEFINE G == CHOOSE j : IsSum(j, g, Requests)
  <2>1. IsSum(G, g, Requests)
    BY <1>3
  <2>2. Sum(g, Requests) = G[Requests]
    BY SumIs
  <2> QED BY <2>1, <2>2
<1>6. K[Requests] = G[Requests]
  <2> Requests \subseteq Requests
    OBVIOUS
  <2> HIDE DEF K
  <2> QED BY <1>0, <1>4, <1>5, SumsAgree
<1> QED BY <1>1, <1>5, <1>6

\* At rest no document holds more than what it keeps, nor less than what is charged for it.
LEMMA RestIsAccounted ==
  ASSUME QuotaInv PROVE QuotaMatchesBilling
<1> SUFFICES ASSUME AtRest, troubles = 0, joined = 0, left = 0 \/ refused = 0
             PROVE  /\ billed <= used + unanswered
                    /\ used + unanswered <= billed + MapThenSumSet(Kept, Requests)
  BY DEF QuotaMatchesBilling
<1>1. VerificationInv /\ BookTypes /\ BooksHold
  BY DEF QuotaInv
<1>2. PICK d \in [Requests -> Int], f \in [Requests -> Nat] : Books(d, f)
  BY <1>1 DEF BooksHold
<1> DEFINE h == Asking
           u == [r \in Requests |-> 0]
           g == [r \in Requests |-> Kept(r)]
<1>3. used - Answered = Sum(d, Requests) + Sum(h, Singles) /\ refused = Sum(f, Requests)
  BY <1>2 DEF Books
<1>4. /\ used \in Int /\ Answered \in Int /\ left \in Int /\ refused \in Int
      /\ f \in [Requests -> Int] /\ IsFiniteSet(Requests) /\ IsFiniteSet(Singles)
      /\ u \in [Requests -> Int] /\ Cardinality(Requests) \in Int
  BY <1>1, VerificationAssumption, FS_CardinalityType DEF BookTypes, VerificationInv, Types
<1>5. h \in [Singles -> Int] /\ \A c \in Singles : h[c] = 0
  BY DEF Asking, AtRest, Callers
<1>6. g \in [Requests -> Int] /\ \A r \in Requests : d[r] <= g[r] /\ d[r] + left * f[r] >= 0
  <2>1. ASSUME NEW r \in Requests
        PROVE  Kept(r) \in Int /\ d[r] <= Kept(r) /\ d[r] + left * f[r] >= 0
    <3>1. d[r] \in Int /\ f[r] \in Nat /\ vjob[r] \in Docs /\ vjob[r].reserved \in Int
      BY <1>1 DEF VerificationInv, Types, Docs
    <3>2. /\ r \in Callers /\ caller[r].pc \in {"idle", "end"}
          /\ \A t \in Tasks : ~Acts(t, r)
      BY DEF AtRest, Callers, At, Acts
    <3>3. DocBook(r, d[r], f[r])
      BY <1>2 DEF Books
    <3>4. left * f[r] \in Nat /\ left \in Nat
      BY <1>1, <3>1, Times DEF BookTypes
    <3>5. CASE caller[r].pc = "idle"
      <4>1. d[r] = 0
        BY <3>3, <3>5 DEF DocBook, Asked
      <4>2. vjob[r].status = "none"
        BY <1>1, <1>2, <3>2, <3>5, Calls DEF Untouched, CallerAt
      <4> QED BY <3>1, <3>4, <4>1, <4>2 DEF Kept
    <3>6. CASE caller[r].pc = "end"
      <4>1. Rest(vjob[r], d[r], f[r])
        BY <3>2, <3>3, <3>6 DEF DocBook
      <4>2. d[r] <= Kept(r) /\ Kept(r) \in Int
        BY <3>1, <4>1 DEF Rest, Kept
      <4>3. d[r] + 0 + left * f[r] >= 0
        BY <4>1 DEF Rest
      <4> HIDE DEF g, u, h
      <4>4. d[r] + left * f[r] >= 0
        BY <3>1, <3>4, <4>3
      <4> QED BY <4>2, <4>4
    <3> QED BY <3>2, <3>5, <3>6
  <2> QED BY <2>1
<1>7. MapThenSumSet(Kept, Requests) = Sum(g, Requests)
  BY KeptIsSum
<1>8. \A r \in Requests : d[r] - u[r] + 0 + left * f[r] >= 0
  <2> SUFFICES ASSUME NEW r \in Requests PROVE d[r] - 0 + 0 + left * f[r] >= 0
    OBVIOUS
  <2>1. left * f[r] \in Int /\ d[r] \in Int
    BY <1>4
  <2> QED BY <1>6, <2>1
<1>9. Sum(u, Requests) = 0
  <2>1. \A r \in Requests : u[r] = 0
    OBVIOUS
  <2> HIDE DEF u
  <2> QED BY <1>4, <2>1, SumZero
<1> HIDE DEF h, g, u
<1>10. Sum(d, Requests) <= Sum(g, Requests)
  BY <1>4, <1>6, SumGrows
<1>11. Sum(h, Singles) = 0
  BY <1>4, <1>5, SumZero
<1>12. /\ Sum(d, Requests) \in Int /\ Sum(g, Requests) \in Int /\ Sum(f, Requests) \in Int
  BY <1>4, <1>6, SumInt
<1>13. Sum(d, Requests) - Sum(u, Requests) + 0 * Cardinality(Requests) + left * Sum(f, Requests) >= 0
  <2> 0 \in Int
    OBVIOUS
  <2> QED BY <1>4, <1>8, SumBound
<1>14. left * Sum(f, Requests) = 0 /\ 0 * Cardinality(Requests) = 0
  BY <1>3, <1>4, <1>12
<1>15. Sum(d, Requests) >= 0
  BY <1>9, <1>12, <1>13, <1>14
<1>16. Answered <= used /\ used <= Answered + Sum(g, Requests)
  BY <1>3, <1>4, <1>10, <1>11, <1>12, <1>15
<1>17. billed \in Int /\ unanswered \in Int /\ Answered = billed - unanswered
  BY <1>1 DEF BookTypes, Answered
<1> QED BY <1>4, <1>7, <1>12, <1>16, <1>17

\* "Cada cliente tem uma cota mensal": the provider charges no more than it, beyond the
\* contacts that joined in between, what repeated uploads gave back again and the single
\* addresses whose answer was lost after the charge.
THEOREM BillFitsTheQuota == Spec => []BilledWithinQuota
<1> QED BY BooksAreKept, BilledIsHeld, PTL

\* At rest the counter covers what was charged, less the single addresses whose answer was
\* lost, and holds no more than that and the reservations of lists that failed with their
\* fate unknown.
THEOREM CounterMatchesTheBill == Spec => []QuotaMatchesBilling
<1> QED BY BooksAreKept, RestIsAccounted, PTL
=============================================================================
