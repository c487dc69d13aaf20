--------------------------- MODULE ContactImport ---------------------------
(***************************************************************************)
(* The import of a file of contacts (services/contactImport.service.ts,    *)
(* queue/import.worker.ts) next to the requests of Contacts.tla: a job     *)
(* validates the file into two others, the user confirms, a second job     *)
(* reads the accepted rows back and writes contacts.  Batches are of one   *)
(* row; one action per round trip.                                         *)
(***************************************************************************)
EXTENDS Contacts

CONSTANTS Imports,     \* documents of ImportJob
          Users,       \* requests to confirm or to cancel, in flight at once
          Cells,       \* what a row may hold: an address, or what is none
          Rows,        \* rows of a file
          Concurrency  \* IMPORT_WORKER_CONCURRENCY

ASSUME ImportAssumption == Rows \in Nat

VARIABLES
    file,    \* disk: the rows of each uploaded file
    target,  \* the list each import was made for (ImportJob.listIds)
    valid,   \* disk: the accepted rows (validPath)
    ijob,    \* the documents of ImportJob
    queue,   \* BullMQ: the job of each step, by its id; an id is never added twice
    val,     \* memory of the job that validates
    imp,     \* memory of the job that imports
    user,    \* memory of the requests to confirm or to cancel
    stalled, \* BullMQ: jobs delivered a second time
    unclosed,\* history: imports whose validPath was read, or left, before it was closed
    twice,   \* history: imports confirmed by a second request before, or after, the first had saved
    raced    \* history: rows of an import that met an insert of the same address

importHistory == <<unclosed, twice, raced>>
importVars == <<file, target, valid, ijob, queue, val, imp, user, stalled, importHistory>>
vars == <<contactVars, importVars>>

Ongoing == {"uploaded", "validating", "importing"}
Settled == {"validated", "done", "failed", "canceled"}
Actions == {"validate", "import"}
NoCounters == [rows |-> 0, accepted |-> 0, ignored |-> 0, invalid |-> 0]
NoJob == [status |-> "none", counters |-> NoCounters, imported |-> 0, skipped |-> 0]
NoVal == [pc |-> "idle", at |-> 1, seen |-> {}, counters |-> NoCounters, canceled |-> FALSE]
NoImp == [pc |-> "idle", source |-> <<>>, found |-> Absent, gone |-> FALSE, imported |-> 0, skipped |-> 0, counted |-> <<>>]
NoUser == [pc |-> "idle", i |-> "none", status |-> "none"]

Init ==
    /\ ContactsInit
    /\ file = [i \in Imports |-> <<>>]
    /\ target = [i \in Imports |-> "none"]
    /\ valid = [i \in Imports |-> <<>>]
    /\ ijob = [i \in Imports |-> NoJob]
    /\ queue = [i \in Imports |-> [a \in Actions |-> "none"]]
    /\ val = [i \in Imports |-> NoVal]
    /\ imp = [i \in Imports |-> NoImp]
    /\ user = [u \in Users |-> NoUser]
    /\ stalled = {} /\ unclosed = {} /\ twice = {} /\ raced = {}

keepContacts == UNCHANGED contactVars
InQueue(i, a, w) == queue[i][a] = w
Queued(i, a, w) == queue' = [queue EXCEPT ![i][a] = w]
ValAt(i, w) == val[i].pc = w
ImpAt(i, w) == imp[i].pc = w
Working == Cardinality({i \in Imports : InQueue(i, "validate", "active")})
           + Cardinality({i \in Imports : InQueue(i, "import", "active")})
\* Rows an import may still write, and counts it has still to take: it is busy.
ImportBusy == \E i \in Imports : InQueue(i, "import", "active")

-----------------------------------------------------------------------------
(* create, confirm and cancel.                                              *)
Create(i) ==
    /\ ijob[i].status = "none" /\ Happens
    /\ ijob' = [ijob EXCEPT ![i].status = "uploaded"]
    /\ \E rows \in [1..Rows -> Cells] : file' = [file EXCEPT ![i] = rows]
    /\ \E l \in lists : target' = [target EXCEPT ![i] = l]
    /\ UNCHANGED <<documents, op, touched, overlap, troubles, valid, queue, val, imp, user, stalled, importHistory>>

\* The id is built from the document: one that BullMQ knows is not added again.
AddSameId(i, a) ==  \* Mutant: the id is that of the document alone.
    queue' = IF \A b \in Actions : InQueue(i, b, "none") THEN [queue EXCEPT ![i][a] = "waiting"] ELSE queue
Add(i, a) == queue' = IF InQueue(i, a, "none") THEN [queue EXCEPT ![i][a] = "waiting"] ELSE queue

EnqueueValidation(i) ==
    /\ ijob[i].status # "none" /\ InQueue(i, "validate", "none")
    /\ Add(i, "validate")
    /\ keepContacts /\ UNCHANGED <<file, target, valid, ijob, val, imp, user, stalled, importHistory>>

\* getById, and the checks of the status (canceling again writes nothing that is read).
AskConfirm(u, i) ==
    /\ user[u].pc = "idle"
    /\ ijob[i].status = "validated" /\ ijob[i].counters.accepted > 0
    /\ user' = [user EXCEPT ![u] = [pc |-> "save", i |-> i, status |-> "importing"]]
    /\ keepContacts /\ UNCHANGED <<file, target, valid, ijob, queue, val, imp, stalled, importHistory>>

AskCancel(u, i) ==
    /\ user[u].pc = "idle" /\ Happens
    /\ ijob[i].status \in Ongoing \cup {"validated"}
    /\ user' = [user EXCEPT ![u] = [pc |-> "save", i |-> i, status |-> "canceled"]]
    /\ UNCHANGED <<documents, op, touched, overlap, troubles, file, target, valid, ijob, queue, val, imp, stalled, importHistory>>

\* The counts of rows were 0 on the copy and are not written.
SaveRequest(u) ==
    LET i == user[u].i
        confirmed == user[u].status = "importing" IN
    /\ user[u].pc = "save"
    /\ ijob' = [ijob EXCEPT ![i].status = user[u].status]
    /\ user' = [user EXCEPT ![u] = IF confirmed THEN [@ EXCEPT !.pc = "enqueue"] ELSE NoUser]
    /\ twice' = IF confirmed /\ ijob[i].status # "validated" THEN twice \cup {i} ELSE twice
    /\ keepContacts /\ UNCHANGED <<file, target, valid, queue, val, imp, stalled, unclosed, raced>>

EnqueueImport(u) ==
    /\ user[u].pc = "enqueue"
    /\ Add(user[u].i, "import")
    /\ user' = [user EXCEPT ![u] = NoUser]
    /\ keepContacts /\ UNCHANGED <<file, target, valid, ijob, val, imp, stalled, importHistory>>

-----------------------------------------------------------------------------
(* runValidation.  A document that says validating is taken up again if it  *)
(* was not written for two minutes, which only a second delivery may find.  *)
Dropped(i, a) == Queued(i, a, "gone")

TakeValidation(i) ==
    /\ InQueue(i, "validate", "waiting") /\ Working < Concurrency
    /\ \/ /\ ijob[i].status \in {"uploaded", "validating"}
          /\ Queued(i, "validate", "active")
          /\ val' = [val EXCEPT ![i] = [NoVal EXCEPT !.pc = "begin"]]
       \/ ijob[i].status # "uploaded" /\ Dropped(i, "validate") /\ UNCHANGED val
    /\ keepContacts /\ UNCHANGED <<file, target, valid, ijob, imp, user, stalled, importHistory>>

\* Mutant: the files are opened to append.
BeginValidationAppending(i) ==
    /\ ValAt(i, "begin")
    /\ ijob' = [ijob EXCEPT ![i].status = "validating", ![i].counters = NoCounters]
    /\ val' = [val EXCEPT ![i].pc = "rows"]
    /\ keepContacts /\ UNCHANGED <<file, target, valid, queue, imp, user, stalled, importHistory>>

\* The two files are opened afresh.
BeginValidation(i) ==
    /\ ValAt(i, "begin")
    /\ ijob' = [ijob EXCEPT ![i].status = "validating", ![i].counters = NoCounters]
    /\ valid' = [valid EXCEPT ![i] = <<>>]
    /\ val' = [val EXCEPT ![i].pc = "rows"]
    /\ keepContacts /\ UNCHANGED <<file, target, queue, imp, user, stalled, importHistory>>

\* classifyBatch: an address is judged once per file; one without a contact may have a
\* domain that takes no mail.
Row(i) == file[i][val[i].at]
Verdicts(i) ==
    IF Row(i) \notin Emails \/ Row(i) \in val[i].seen THEN {"invalid"}
    ELSE IF Row(i) \notin Present THEN {"accepted", "invalid"}
    ELSE IF target[i] \in contact[Row(i)].in THEN {"ignored"} ELSE {"accepted"}

\* counters.rows, and tally.
Tally(c, verdict) ==
    [rows |-> c.rows + 1,
     accepted |-> IF verdict = "accepted" THEN c.accepted + 1 ELSE c.accepted,
     ignored |-> IF verdict = "ignored" THEN c.ignored + 1 ELSE c.ignored,
     invalid |-> IF verdict = "invalid" THEN c.invalid + 1 ELSE c.invalid]

ClassifyRow(i) ==
    /\ ValAt(i, "rows") /\ val[i].at <= Rows
    /\ \E verdict \in Verdicts(i) :
         /\ val' = [val EXCEPT ![i].at = @ + 1, ![i].seen = @ \cup ({Row(i)} \cap Emails),
                               ![i].counters = Tally(@, verdict)]
         /\ valid' = [valid EXCEPT ![i] = IF verdict = "accepted" THEN Append(@, Row(i)) ELSE @]
    /\ keepContacts /\ UNCHANGED <<file, target, ijob, queue, imp, user, stalled, importHistory>>

\* flush, when the interval has passed: stop if canceled (the progress it writes otherwise
\* is read by nobody but the screen).
StopValidation(i) ==
    /\ ValAt(i, "rows") /\ val[i].at > 1 /\ ijob[i].status = "canceled"
    /\ val' = [val EXCEPT ![i].pc = "close"]
    /\ keepContacts /\ UNCHANGED <<file, target, valid, ijob, queue, imp, user, stalled, importHistory>>

\* The last write does not look at the status.
FinishValidation(i) ==
    /\ ValAt(i, "rows") /\ val[i].at > Rows
    /\ ijob' = [ijob EXCEPT ![i].status = "validated", ![i].counters = val[i].counters]
    /\ val' = [val EXCEPT ![i].pc = "close"]
    /\ keepContacts /\ UNCHANGED <<file, target, valid, queue, imp, user, stalled, importHistory>>

CloseFiles(i) ==
    /\ ValAt(i, "close")
    /\ val' = [val EXCEPT ![i] = NoVal]
    /\ Dropped(i, "validate")
    /\ keepContacts /\ UNCHANGED <<file, target, valid, ijob, imp, user, stalled, importHistory>>

-----------------------------------------------------------------------------
(* runImport.  What is read of a file that is not closed yet is a part.     *)
Prefixes(s) == {SubSeq(s, 1, n) : n \in 0..Len(s)}

TakeImport(i) ==
    /\ InQueue(i, "import", "waiting") /\ Working < Concurrency
    /\ IF ijob[i].status # "importing" THEN Dropped(i, "import") /\ UNCHANGED <<imp, unclosed, overlap>>
       ELSE /\ Queued(i, "import", "active")
            /\ \E source \in IF ValAt(i, "close") THEN Prefixes(valid[i]) ELSE {valid[i]} :
                 imp' = [imp EXCEPT ![i] = [NoImp EXCEPT !.pc = "rows", !.source = source]]
            /\ unclosed' = IF ValAt(i, "close") THEN unclosed \cup {i} ELSE unclosed
            /\ overlap' = (overlap \/ ImportBusy \/ \E k \in Clerks : ~OpAt(k, "idle"))
    /\ UNCHANGED <<documents, op, touched, troubles, events, file, target, valid, ijob, val, user, stalled, twice, raced>>

\* importRows: look the address up; then link the contact it found, by its _id (gone: one
\* deleted since is not found, though its address may be back), or insert.
FindRow(i) ==
    /\ ImpAt(i, "rows") /\ imp[i].source # <<>>
    /\ imp' = [imp EXCEPT ![i].pc = "write", ![i].found = contact[Head(imp[i].source)]]
    /\ keepContacts /\ UNCHANGED <<file, target, valid, ijob, queue, val, user, stalled, importHistory>>

Wrote(i, imported, skipped) ==
    imp' = [imp EXCEPT ![i].pc = "rows", ![i].source = Tail(@), ![i].found = Absent, ![i].gone = FALSE,
                       ![i].imported = @ + imported, ![i].skipped = @ + skipped]

LinkRow(i, e) ==
    /\ imp[i].found # Absent /\ target[i] \notin imp[i].found.in
    /\ contact' = IF imp[i].gone THEN contact
                  ELSE [contact EXCEPT ![e].in = @ \cup {target[i]}]
    /\ Wrote(i, 1, 0) /\ UNCHANGED raced

SkipRow(i, e) ==
    /\ imp[i].found # Absent /\ target[i] \in imp[i].found.in
    /\ Wrote(i, 0, 1) /\ UNCHANGED <<contact, raced>>

\* Mutant: the first duplicate ends the batch and those after it.
InsertRowOrdered(i, e) ==
    /\ imp[i].found = Absent
    /\ \/ /\ e \notin Present
          /\ contact' = [contact EXCEPT ![e] = Contact({target[i]})]
          /\ Wrote(i, 1, 0) /\ UNCHANGED raced
       \/ /\ e \in Present
          /\ raced' = raced \cup {<<i, e>>}
          /\ imp' = [imp EXCEPT ![i].pc = "rows", ![i].source = <<>>, ![i].skipped = @ + 1] /\ UNCHANGED contact

\* insertNew: an address somebody else inserted meanwhile is skipped, and not linked.
InsertRow(i, e) ==
    /\ imp[i].found = Absent
    /\ \/ /\ e \notin Present
          /\ contact' = [contact EXCEPT ![e] = Contact({target[i]})]
          /\ Wrote(i, 1, 0) /\ UNCHANGED raced
       \/ /\ e \in Present
          /\ raced' = raced \cup {<<i, e>>}
          /\ Wrote(i, 0, 1) /\ UNCHANGED contact

WriteRow(i) ==
    LET e == Head(imp[i].source) IN
    /\ ImpAt(i, "write")
    /\ LinkRow(i, e) \/ SkipRow(i, e) \/ InsertRow(i, e)
    /\ UNCHANGED <<stale, lists, count, op, contactHistory, file, target, valid, ijob, queue, val, user, stalled, unclosed, twice>>

\* When the interval has passed: a canceled import stops, with what it has written so far.
StopImport(i) ==
    /\ ImpAt(i, "rows") /\ ijob[i].status = "canceled" /\ imp[i].imported + imp[i].skipped > 0
    /\ ijob' = [ijob EXCEPT ![i].imported = imp[i].imported, ![i].skipped = imp[i].skipped]
    /\ imp' = [imp EXCEPT ![i].pc = "countCanceled"]
    /\ keepContacts /\ UNCHANGED <<file, target, valid, queue, val, user, stalled, importHistory>>

CountTarget(i) ==
    /\ ImpAt(i, "countCanceled") \/ (ImpAt(i, "rows") /\ imp[i].source = <<>>)
    /\ imp' = [imp EXCEPT ![i].counted = Counted({target[i]}),
                          ![i].pc = IF ImpAt(i, "rows") THEN "store" ELSE "storeCanceled"]
    /\ keepContacts /\ UNCHANGED <<file, target, valid, ijob, queue, val, user, stalled, importHistory>>

StoreTarget(i) ==
    /\ ImpAt(i, "store") \/ ImpAt(i, "storeCanceled")
    /\ count' = Stored(imp[i].counted)
    /\ IF ImpAt(i, "store") THEN imp' = [imp EXCEPT ![i].pc = "finish", ![i].counted = <<>>] /\ UNCHANGED queue
       ELSE imp' = [imp EXCEPT ![i] = NoImp] /\ Dropped(i, "import")
    /\ UNCHANGED <<contact, stale, lists, op, contactHistory, file, target, valid, ijob, val, user, stalled, importHistory>>

\* The last write does not look at the status.
FinishImport(i) ==
    /\ ImpAt(i, "finish")
    /\ ijob' = [ijob EXCEPT ![i].status = "done", ![i].imported = imp[i].imported, ![i].skipped = imp[i].skipped]
    /\ imp' = [imp EXCEPT ![i] = NoImp]
    /\ Dropped(i, "import")
    /\ keepContacts /\ UNCHANGED <<file, target, valid, val, user, stalled, importHistory>>

-----------------------------------------------------------------------------
(* Failures.  A job that throws is not retried: the listener of the worker  *)
(* marks the document, whatever its status, if MongoDB answers.  BullMQ     *)
(* gives the job of a dead worker to another one, once.                     *)
Trouble == Happens /\ troubles' = troubles + 1 /\ UNCHANGED <<documents, op, touched, overlap>>

Stops(i, a) ==
    IF a = "validate" THEN val' = [val EXCEPT ![i] = NoVal] /\ UNCHANGED imp
    ELSE imp' = [imp EXCEPT ![i] = NoImp] /\ UNCHANGED val

JobFails(i, a) ==
    /\ InQueue(i, a, "active") /\ Trouble
    /\ Stops(i, a) /\ Dropped(i, a)
    /\ ijob' \in {ijob, [ijob EXCEPT ![i].status = "failed"]}
    /\ UNCHANGED <<file, target, valid, user, stalled, importHistory>>

WorkerDies(i, a) ==
    /\ InQueue(i, a, "active") /\ <<i, a>> \notin stalled /\ Trouble
    /\ Stops(i, a) /\ Queued(i, a, "waiting")
    /\ stalled' = stalled \cup {<<i, a>>}
    /\ IF a = "validate" THEN \E left \in Prefixes(valid[i]) : valid' = [valid EXCEPT ![i] = left]
       ELSE UNCHANGED valid
    /\ unclosed' = IF a = "validate" /\ ValAt(i, "close") THEN unclosed \cup {i} ELSE unclosed
    /\ UNCHANGED <<file, target, ijob, user, twice, raced>>

\* The request ends between its write and its job.
RequestDies ==
    /\ Trouble
    /\ \/ \E i \in Imports : /\ ijob[i].status # "none" /\ InQueue(i, "validate", "none")
                             /\ Dropped(i, "validate") /\ UNCHANGED user
       \/ \E u \in Users : user[u].pc # "idle" /\ user' = [user EXCEPT ![u] = NoUser] /\ UNCHANGED queue
    /\ UNCHANGED <<file, target, valid, ijob, val, imp, stalled, importHistory>>

\* cleanupExpired: 48 hours after the upload the files and the document go.
Expire(i) ==
    /\ ijob[i].status \in Settled /\ Happens
    /\ \A a \in Actions : queue[i][a] \in {"none", "gone"}
    /\ \A u \in Users : user[u].i # i
    /\ ijob' = [ijob EXCEPT ![i] = [NoJob EXCEPT !.status = "expired"]]
    /\ valid' = [valid EXCEPT ![i] = <<>>]
    /\ file' = [file EXCEPT ![i] = <<>>]
    /\ target' = [target EXCEPT ![i] = "none"]
    /\ UNCHANGED <<documents, op, touched, overlap, troubles, queue, val, imp, user, stalled, importHistory>>

-----------------------------------------------------------------------------
JobSteps ==
    \E i \in Imports :
        \/ TakeValidation(i) \/ BeginValidation(i) \/ ClassifyRow(i) \/ FinishValidation(i) \/ CloseFiles(i)
        \/ TakeImport(i) \/ FindRow(i) \/ WriteRow(i) \/ CountTarget(i) \/ StoreTarget(i) \/ FinishImport(i)

RequestSteps ==
    \/ \E i \in Imports : EnqueueValidation(i)
    \/ \E u \in Users : SaveRequest(u) \/ EnqueueImport(u)

Asks ==
    \/ \E i \in Imports : Create(i) \/ Expire(i)
    \/ \E u \in Users, i \in Imports : AskConfirm(u, i) \/ AskCancel(u, i)

ClerkRequests ==
    /\ \E k \in Clerks : ClerkSteps(k) \/ ClerkDies(k) \/ Request(k, ImportBusy)
    /\ imp' = [i \in Imports |-> [imp[i] EXCEPT !.gone =
                  @ \/ (ImpAt(i, "write") /\ imp[i].found # Absent /\ Head(imp[i].source) \notin {e \in Emails : contact'[e].exists})]]
    /\ UNCHANGED <<file, target, valid, ijob, queue, val, user, stalled, importHistory>>

Next ==
    \/ JobSteps \/ RequestSteps \/ Asks \/ ClerkRequests
    \/ \E i \in Imports : StopValidation(i) \/ StopImport(i)
    \/ \E i \in Imports, a \in Actions : JobFails(i, a) \/ WorkerDies(i, a)
    \/ RequestDies

Spec == Init /\ [][Next]_vars /\ WF_vars(JobSteps) /\ WF_vars(RequestSteps)
-----------------------------------------------------------------------------
TypeOK ==
    /\ \A e \in Emails : contact[e].in \subseteq Lists
    /\ lists \subseteq Lists /\ count \in [Lists -> 0..Cardinality(Emails)]
    /\ \A k \in Clerks : op[k].pc \in OpPc /\ op[k].kind \in OpKinds
    /\ \A i \in Imports : ijob[i].status \in {"none", "expired"} \cup Ongoing \cup Settled
    /\ queue \in [Imports -> [Actions -> {"none", "waiting", "active", "gone"}]]

\* The verdict the user confirms is that of the file: every row counted once, and as many
\* accepted rows on disk as the document says, after crashes, second validations and
\* cancellations that came in between.
VerdictMatchesFile ==
    \A i \in Imports \ unclosed : ijob[i].status \in {"validated", "importing", "done"} =>
        LET c == ijob[i].counters IN
        /\ c.rows = Rows /\ c.accepted + c.ignored + c.invalid = Rows
        /\ Len(valid[i]) = c.accepted

\* An import that says done has every accepted address in its list, whatever was written
\* next to it and however often it was delivered, but for contacts somebody changed and
\* addresses somebody else inserted in the same moment; and "o contador precisa refletir
\* isso": imported and skipped are the accepted rows.
ImportComplete ==
    \A i \in Imports \ unclosed : ijob[i].status = "done" =>
        /\ ijob[i].imported + ijob[i].skipped = ijob[i].counters.accepted
        /\ \A n \in DOMAIN valid[i] :
            LET e == valid[i][n] IN
            target[i] \in contact[e].in \/ e \in touched \/ <<i, e>> \in raced

\* contactCount is the number of contacts in the list whenever nothing runs, unless two
\* operations that count ran at once, or one broke off ("importação interrompida").
AtRest == (\A k \in Clerks : OpAt(k, "idle")) /\ ~ImportBusy
CountsRight == AtRest /\ ~overlap /\ troubles = 0 => Wrong = {}

\* "Sem isto ficaria 'validando' para sempre": an import reaches a status the user can act
\* on, unless a crash or a failure takes its job away, or two requests confirm it: the
\* second one says importing again, and its job is not added, as the first had the same id.
ImportSettles ==
    \A i \in Imports :
        ijob[i].status \in Ongoing ~> ijob[i].status \in Settled \/ troubles # 0 \/ i \in twice
=============================================================================
