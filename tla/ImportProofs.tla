---------------------------- MODULE ImportProofs ----------------------------
(***************************************************************************)
(* The import of contacts, for any imports, users, requests of the panel,  *)
(* addresses, lists, rows and faults: the verdict the user confirms is     *)
(* that of the file, an import that says done is complete, and the counts  *)
(* of the lists are right at rest.  Each stands on Types and JobsFit and   *)
(* adds an invariant of its own: VerdictInv, CompleteInv and CountsInv.    *)
(***************************************************************************)
EXTENDS ContactImport, TLAPS

ValPc == {"idle", "begin", "rows", "close"}
ImpPc == {"idle", "rows", "write", "countCanceled", "storeCanceled", "store", "finish"}
Tallies == [rows : Nat, accepted : Nat, ignored : Nat, invalid : Nat]
Statuses == {"none", "expired"} \cup Ongoing \cup Settled
Docs == [status : Statuses, counters : Tallies, imported : Nat, skipped : Nat]
Askers == [pc : {"idle", "save", "enqueue"}, i : Imports \cup {"none"},
           status : {"none", "importing", "canceled"}]
Queues == [Imports -> [Actions -> {"none", "waiting", "active", "gone"}]]
Targets == Lists \cup {"none"}
Listings == [in : SUBSET Targets, exists : BOOLEAN]

Sizes == {Cardinality(s) : s \in SUBSET Emails}
Counts == {<<>>} \cup UNION {[ls -> Sizes] : ls \in SUBSET Targets}

Judges == [pc : ValPc, at : Nat, seen : SUBSET Emails, counters : Tallies, canceled : BOOLEAN]
Importers == [pc : ImpPc, source : Seq(Emails), found : Listings, gone : BOOLEAN,
              imported : Nat, skipped : Nat, counted : Counts]
OpRecords == [pc : OpPc, kind : OpKinds, emails : SUBSET Emails, ls : SUBSET Lists,
              sync : SUBSET Targets, counted : Counts]
Ops == {o \in OpRecords : o.pc = "write" /\ o.kind \in {"create", "update"} => o.emails # {}}

ContactTypes ==
    /\ contact \in [Emails -> Listings] /\ lists \subseteq Lists
    /\ op \in [Clerks -> Ops]
    /\ touched \subseteq Emails /\ troubles \in Nat

ImportTypes ==
    /\ target \in [Imports -> Targets]
    /\ valid \in [Imports -> Seq(Emails)]
    /\ ijob \in [Imports -> Docs]
    /\ queue \in Queues
    /\ val \in [Imports -> Judges]
    /\ imp \in [Imports -> Importers]
    /\ \A i \in Imports : ImpAt(i, "write") => imp[i].source # <<>>
    /\ user \in [Users -> Askers]
    /\ \A u \in Users : user[u].pc # "idle" => user[u].i \in Imports /\ user[u].status # "none"
    /\ \A u \in Users : user[u].pc = "enqueue" => user[u].status = "importing"
    /\ unclosed \subseteq Imports

Types == ContactTypes /\ ImportTypes

(* A job works exactly while BullMQ says active. *)
JobsFit ==
    \A i \in Imports : /\ ~ValAt(i, "idle") <=> InQueue(i, "validate", "active")
                       /\ ~ImpAt(i, "idle") <=> InQueue(i, "import", "active")

(* The validation: while it runs, its tally is that of the rows it has read
   and the file of accepted rows is as long as the tally says. *)
RowsCounted(x, s) ==
    /\ x.pc = "begin" => x.at = 1 /\ x.counters = NoCounters
    /\ x.pc = "rows" => /\ x.at \in 1..(Rows + 1) /\ x.counters.rows = x.at - 1
                        /\ x.counters.accepted + x.counters.ignored + x.counters.invalid = x.at - 1
                        /\ Len(s) = x.counters.accepted

\* A whole file.
AllRows(c) == c.rows = Rows /\ c.accepted + c.ignored + c.invalid = Rows

\* Whoever asks to confirm, and whatever imports, has a verdict under its feet, which no
\* other validation may touch until the document is gone.
Confirms(u, i) == user[u].pc # "idle" /\ user[u].i = i /\ user[u].status = "importing"
Judged(i) ==
    \/ ijob[i].status \in {"validated", "importing", "done"}
    \/ \E u \in Users : Confirms(u, i)
    \/ ~ImpAt(i, "idle")
VerdictStands(i) ==
    /\ AllRows(ijob[i].counters)
    /\ val[i].pc \in {"idle", "close"}
    /\ ijob[i].status \in {"validated", "importing", "canceled", "failed", "done"}
    /\ i \notin unclosed => Len(valid[i]) = ijob[i].counters.accepted

VerdictInv ==
    /\ \A i \in Imports : RowsCounted(val[i], valid[i])
    /\ \A i \in Imports : Judged(i) => VerdictStands(i)

(* The import: the rows it has read off its source are in the list, or the
   contact was changed by somebody, or the row met an insert. *)
Covered(i, e) == target[i] \in contact[e].in \/ e \in touched \/ <<i, e>> \in raced
Done(i) == imp[i].imported + imp[i].skipped
RowsCovered(i, n) == \A m \in 1..n : Covered(i, valid[i][m])

\* Under way: what is left of the source is the end of the file.
Reads(i) ==
    LET x == imp[i] IN
    imp[i].pc \in {"rows", "write"} =>
        /\ Done(i) + Len(x.source) = Len(valid[i])
        /\ \A m \in 1..Len(x.source) : x.source[m] = valid[i][Done(i) + m]
        /\ RowsCovered(i, Done(i))

\* Past the last row.
HasRead(i) == imp[i].pc \in {"store", "finish"} => Done(i) = Len(valid[i]) /\ RowsCovered(i, Len(valid[i]))

\* The contact the lookup found may be outdated, and only a request that touched it did that.
Finds(i) ==
    LET x == imp[i]
        e == Head(x.source) IN
    /\ imp[i].pc = "rows" => ~x.gone
    /\ imp[i].pc = "write" => /\ x.found # Absent /\ target[i] \in x.found.in => Covered(i, e)
                              /\ x.found # Absent => e \in Present \/ x.gone
                              /\ x.gone => e \in touched

\* The document that says so.
IsDone(i) ==
    ijob[i].status = "done" =>
        ijob[i].imported + ijob[i].skipped = ijob[i].counters.accepted /\ RowsCovered(i, Len(valid[i]))

CompleteInv ==
    /\ \A e \in Emails : e \in Present \/ contact[e] = Absent
    /\ \A i \in Imports : Finds(i)
    /\ \A i \in Imports \ unclosed : Reads(i) /\ HasRead(i) /\ IsDone(i)

(* The counts: as long as nothing overlapped or broke off, one request or
   one import is under way at most, and it knows which counts are wrong. *)
Calm == ~overlap /\ troubles = 0
Busy(k) == ~OpAt(k, "idle")
Importing(i) == InQueue(i, "import", "active")
OneActor ==
    /\ \A k1, k2 \in Clerks : Busy(k1) /\ Busy(k2) => k1 = k2
    /\ \A i, j \in Imports : Importing(i) /\ Importing(j) => i = j
    /\ \A k \in Clerks, i \in Imports : ~(Busy(k) /\ Importing(i))
Size(l) == Cardinality(Members(l))

\* The lists whose count is wrong are among these; these counts, once stored, right all.
OnlyOff(ls) == \A l \in lists : l \in ls \/ count[l] = Size(l)
RightAfter(counted) == \A l \in lists : Size(l) = IF l \in DOMAIN counted THEN counted[l] ELSE count[l]

\* What a request knows of the counts at each of its steps, and an import.
ClerkCounts(o) ==
    /\ o.pc = "write" =>
        /\ OnlyOff({})
        /\ o.kind \in {"create", "update"} => o.ls \subseteq o.sync
        /\ o.kind \in {"update", "delete"} => \A e \in o.emails : contact[e].in \subseteq o.sync
    /\ o.pc = "count" => o.kind = "resync" \/ OnlyOff(o.sync)
    /\ o.pc = "dropList" => OnlyOff(o.ls)
    /\ o.pc = "store" => RightAfter(o.counted)
ImportCounts(x, l) ==
    /\ x.pc \in {"rows", "write", "countCanceled"} => OnlyOff({l})
    /\ x.pc \in {"store", "storeCanceled"} => RightAfter(x.counted)
    /\ x.pc = "finish" => OnlyOff({})

CalmInv ==
    /\ OneActor
    /\ \A k \in Clerks : Busy(k) => ClerkCounts(op[k])
    /\ \A i \in Imports : Importing(i) => ImportCounts(imp[i], target[i])
    /\ AtRest => OnlyOff({})
CountsInv == Calm => CalmInv

-----------------------------------------------------------------------------
(* Types.                                                                   *)
\* What the types of the contacts speak of stays as it is.
LEMMA ContactsKept ==
    ASSUME ContactTypes, UNCHANGED <<contact, lists, op, touched>>, troubles' \in {troubles, troubles + 1}
    PROVE  ContactTypes'
  BY DEF ContactTypes

\* The state of a job in the queue.
LEMMA QueueMoves ==
    ASSUME queue \in Queues, NEW i \in Imports, NEW a \in Actions
    PROVE  /\ Add(i, a) => queue' \in Queues
           /\ Queued(i, a, "active") \/ Queued(i, a, "gone") \/ Queued(i, a, "waiting") => queue' \in Queues
  BY DEF Queues, Add, Queued, InQueue

\* What a job and a document start from.
LEMMA Defaults ==
    /\ NoCounters \in Tallies /\ NoVal \in Judges /\ NoImp \in Importers /\ NoImp.pc = "idle"
    /\ [NoVal EXCEPT !.pc = "begin"] \in Judges
    /\ [NoJob EXCEPT !.status = "expired"] \in Docs /\ NoJob \in Docs
  <1>1. NoCounters \in Tallies
    BY DEF NoCounters, Tallies
  <1>2. NoVal \in Judges /\ [NoVal EXCEPT !.pc = "begin"] \in Judges
    BY <1>1 DEF NoVal, Judges, ValPc
  <1>3. <<>> \in Seq(Emails) /\ <<>> \in Counts /\ Absent \in Listings
    BY DEF Counts, Absent, Listings
  <1>4. NoImp \in Importers /\ NoImp.pc = "idle"
    BY <1>3 DEF NoImp, Importers, ImpPc
  <1>5. [NoJob EXCEPT !.status = "expired"] \in Docs /\ NoJob \in Docs
    BY <1>1 DEF NoJob, Docs, Statuses
  <1> QED BY <1>1, <1>2, <1>4, <1>5

\* One more row is judged.
LEMMA OneMoreJudged ==
    ASSUME NEW x \in Judges, NEW seen \in SUBSET Emails, NEW c \in Tallies
    PROVE  [x EXCEPT !.at = x.at + 1, !.seen = seen, !.counters = c] \in Judges
  <1>1. x.at + 1 \in Nat
    BY DEF Judges
  <1> QED BY <1>1 DEF Judges

\* One more row is written.
LEMMA OneMoreWritten ==
    ASSUME NEW x \in Importers, NEW source \in Seq(Emails), NEW a1 \in {0, 1}, NEW a2 \in {0, 1}
    PROVE  [x EXCEPT !.pc = "rows", !.source = source, !.found = Absent, !.gone = FALSE,
                     !.imported = x.imported + a1, !.skipped = x.skipped + a2] \in Importers
  <1>1. x.imported + a1 \in Nat /\ x.skipped + a2 \in Nat /\ Absent \in Listings
    BY DEF Importers, Absent, Listings
  <1> QED BY <1>1 DEF Importers, ImpPc

\* The status of a document is written.
LEMMA StatusWritten ==
    ASSUME ijob \in [Imports -> Docs], NEW i \in Imports, NEW status \in Statuses,
           ijob' = [ijob EXCEPT ![i].status = status]
    PROVE  ijob' \in [Imports -> Docs]
  BY DEF Docs

\* A step of a validation keeps the types.
LEMMA ValidationTypes ==
    ASSUME Types, ImportAssumption, NEW i \in Imports,
           \/ EnqueueValidation(i)
           \/ TakeValidation(i)
           \/ BeginValidation(i)
           \/ ClassifyRow(i)
           \/ StopValidation(i)
           \/ FinishValidation(i)
           \/ CloseFiles(i)
    PROVE  Types'

  <1>0. ImportTypes /\ ContactTypes /\ (ContactTypes' /\ ImportTypes' => Types')
    BY DEF Types
  <1>q. queue \in Queues /\ "validate" \in Actions /\ "import" \in Actions
    BY <1>0 DEF ImportTypes, Actions
  <1>k. keepContacts => ContactTypes'
    BY <1>0, ContactsKept DEF keepContacts, contactVars, documents, contactHistory
  <1>1. CASE EnqueueValidation(i)
    <2>1. ContactTypes'
      BY <1>1, <1>k DEF EnqueueValidation
    <2>2. queue' \in Queues
      BY <1>1, <1>q, QueueMoves DEF EnqueueValidation
    <2>3. ImportTypes'
      BY <1>1, <1>0, <2>2 DEF EnqueueValidation, ImportTypes, importHistory, ImpAt
    <2> QED BY <2>1, <2>3, <1>0
  <1>2. CASE TakeValidation(i)
    <2>1. ContactTypes'
      BY <1>2, <1>k DEF TakeValidation
    <2>2. queue' \in Queues
      BY <1>2, <1>q, QueueMoves DEF TakeValidation, Dropped
    <2>3. val' \in [Imports -> Judges]
      BY <1>2, <1>0, Defaults DEF TakeValidation, ImportTypes
    <2>4. ImportTypes'
      BY <1>2, <1>0, <2>2, <2>3 DEF TakeValidation, ImportTypes, importHistory, ImpAt
    <2> QED BY <2>1, <2>4, <1>0
  <1>3. CASE BeginValidation(i)
    <2>1. ContactTypes'
      BY <1>3, <1>k DEF BeginValidation
    <2>2. valid' \in [Imports -> Seq(Emails)]
      BY <1>3, <1>0 DEF BeginValidation, ImportTypes
    <2>3. ijob' \in [Imports -> Docs]
      BY <1>3, <1>0 DEF BeginValidation, ImportTypes, NoCounters, Tallies, Docs, Statuses, Ongoing
    <2>4. val' \in [Imports -> Judges]
      BY <1>3, <1>0 DEF BeginValidation, ImportTypes, Judges, ValPc
    <2>5. ImportTypes'
      BY <1>3, <1>0, <2>2, <2>3, <2>4 DEF BeginValidation, ImportTypes, importHistory, ImpAt
    <2> QED BY <2>1, <2>5, <1>0
  <1>4. CASE ClassifyRow(i)
    <2>1. ContactTypes'
      BY <1>4, <1>k DEF ClassifyRow
    <2>2. valid' \in [Imports -> Seq(Emails)]
      <3>1. PICK verdict \in Verdicts(i) :
                valid' = [valid EXCEPT ![i] = IF verdict = "accepted" THEN Append(@, Row(i)) ELSE @]
        BY <1>4 DEF ClassifyRow
      <3>2. verdict = "accepted" => Row(i) \in Emails
        BY DEF Verdicts
      <3>3. valid \in [Imports -> Seq(Emails)]
        BY <1>0 DEF ImportTypes
      <3> HIDE DEF Row
      <3>4. (IF verdict = "accepted" THEN Append(valid[i], Row(i)) ELSE valid[i]) \in Seq(Emails)
        BY <3>2, <3>3
      <3> QED BY <3>1, <3>3, <3>4
    <2>3. val' \in [Imports -> Judges]
      <3>1. val[i] \in Judges /\ val[i].counters \in Tallies
        BY <1>0 DEF ImportTypes, Judges
      <3>2. PICK verdict \in Verdicts(i) :
                val' = [val EXCEPT ![i].at = @ + 1, ![i].seen = @ \cup ({Row(i)} \cap Emails),
                                   ![i].counters = Tally(@, verdict)]
        BY <1>4 DEF ClassifyRow
      <3> DEFINE c == Tally(val[i].counters, verdict)
      <3>3. c \in Tallies
        BY <3>1 DEF Tallies, Tally
      <3> HIDE DEF c
      <3> DEFINE seen == val[i].seen \cup ({Row(i)} \cap Emails)
                 m == [val[i] EXCEPT !.at = val[i].at + 1, !.seen = seen, !.counters = c]
      <3>4. m \in Judges
        <4>1. seen \in SUBSET Emails
          BY <3>1 DEF Judges
        <4> HIDE DEF seen
        <4> QED BY <3>1, <3>3, <4>1, OneMoreJudged
      <3>5. val' = [val EXCEPT ![i] = m]
        BY <3>2 DEF c
      <3> HIDE DEF m
      <3> QED BY <1>0, <3>4, <3>5 DEF ImportTypes
    <2>4. ImportTypes'
      BY <1>4, <1>0, <2>2, <2>3 DEF ClassifyRow, ImportTypes, importHistory, ImpAt
    <2> QED BY <2>1, <2>4, <1>0
  <1>5. CASE StopValidation(i)
    <2>1. ContactTypes'
      BY <1>5, <1>k DEF StopValidation
    <2>2. val' \in [Imports -> Judges]
      BY <1>5, <1>0 DEF StopValidation, ImportTypes, Judges, ValPc
    <2>3. ImportTypes'
      BY <1>5, <1>0, <2>2 DEF StopValidation, ImportTypes, importHistory, ImpAt
    <2> QED BY <2>1, <2>3, <1>0
  <1>6. CASE FinishValidation(i)
    <2>1. ContactTypes'
      BY <1>6, <1>k DEF FinishValidation
    <2>2. ijob' \in [Imports -> Docs]
      <3>1. val[i].counters \in Tallies
        BY <1>0 DEF ImportTypes, Judges
      <3>2. ijob \in [Imports -> Docs]
        BY <1>0 DEF ImportTypes
      <3> QED BY <1>6, <3>1, <3>2 DEF FinishValidation, Docs, Statuses, Settled
    <2>3. val' \in [Imports -> Judges]
      BY <1>6, <1>0 DEF FinishValidation, ImportTypes, Judges, ValPc
    <2>4. ImportTypes'
      BY <1>6, <1>0, <2>2, <2>3 DEF FinishValidation, ImportTypes, importHistory, ImpAt
    <2> QED BY <2>1, <2>4, <1>0
  <1>7. CASE CloseFiles(i)
    <2>1. ContactTypes'
      BY <1>7, <1>k DEF CloseFiles
    <2>2. queue' \in Queues
      BY <1>7, <1>q, QueueMoves DEF CloseFiles, Dropped
    <2>3. val' \in [Imports -> Judges]
      BY <1>7, <1>0, Defaults DEF CloseFiles, ImportTypes
    <2>4. ImportTypes'
      BY <1>7, <1>0, <2>2, <2>3 DEF CloseFiles, ImportTypes, importHistory, ImpAt
    <2> QED BY <2>1, <2>4, <1>0
  <1> QED BY <1>1, <1>2, <1>3, <1>4, <1>5, <1>6, <1>7

\* A document of an import is made or expires.
LEMMA DocumentTypes ==
    ASSUME Types, ImportAssumption, NEW i \in Imports, Create(i) \/ Expire(i)
    PROVE  Types'
  <1>0. ImportTypes /\ ContactTypes /\ (ContactTypes' /\ ImportTypes' => Types')
    BY DEF Types
  <1>q. queue \in Queues /\ "validate" \in Actions /\ "import" \in Actions
    BY <1>0 DEF ImportTypes, Actions
  <1>k. keepContacts => ContactTypes'
    BY <1>0, ContactsKept DEF keepContacts, contactVars, documents, contactHistory
  <1>1. CASE Create(i)
    <2>1. ContactTypes'
      BY <1>1, <1>0, ContactsKept DEF Create, documents, Happens
    <2>2. target' \in [Imports -> Targets]
      BY <1>1, <1>0 DEF Create, ImportTypes, ContactTypes, Targets
    <2>3. ijob' \in [Imports -> Docs]
      <3>1. "uploaded" \in Statuses /\ ijob \in [Imports -> Docs]
        BY <1>0 DEF Statuses, Ongoing, ImportTypes
      <3> QED BY <1>1, <3>1, StatusWritten DEF Create
    <2>4. ImportTypes'
      BY <1>1, <1>0, <2>2, <2>3 DEF Create, ImportTypes, importHistory, ImpAt
    <2> QED BY <2>1, <2>4, <1>0
  <1>2. CASE Expire(i)
    <2>1. ContactTypes'
      BY <1>2, <1>0, ContactsKept DEF Expire, documents, Happens
    <2>2. target' \in [Imports -> Targets]
      BY <1>2, <1>0 DEF Expire, ImportTypes, Targets
    <2>3. valid' \in [Imports -> Seq(Emails)]
      BY <1>2, <1>0 DEF Expire, ImportTypes
    <2>4. ijob' \in [Imports -> Docs]
      BY <1>2, <1>0, Defaults DEF Expire, ImportTypes
    <2>5. ImportTypes'
      BY <1>2, <1>0, <2>2, <2>3, <2>4 DEF Expire, ImportTypes, importHistory, ImpAt
    <2> QED BY <2>1, <2>5, <1>0
  <1> QED BY <1>1, <1>2

\* A request about an import begins.
LEMMA AskTypes ==
    ASSUME Types, ImportAssumption, NEW i \in Imports, NEW u \in Users, AskConfirm(u, i) \/ AskCancel(u, i)
    PROVE  Types'
  <1>0. ImportTypes /\ ContactTypes /\ (ContactTypes' /\ ImportTypes' => Types')
    BY DEF Types
  <1>q. queue \in Queues /\ "validate" \in Actions /\ "import" \in Actions
    BY <1>0 DEF ImportTypes, Actions
  <1>k. keepContacts => ContactTypes'
    BY <1>0, ContactsKept DEF keepContacts, contactVars, documents, contactHistory
  <1>1. CASE AskConfirm(u, i)
    <2>1. ContactTypes'
      BY <1>1, <1>k DEF AskConfirm
    <2>2. /\ user' \in [Users -> Askers]
          /\ \A v \in Users : user'[v].pc # "idle" => user'[v].i \in Imports /\ user'[v].status # "none"
          /\ \A v \in Users : user'[v].pc = "enqueue" => user'[v].status = "importing"
      BY <1>1, <1>0 DEF AskConfirm, ImportTypes, Askers
    <2>3. ImportTypes'
      BY <1>1, <1>0, <2>2 DEF AskConfirm, ImportTypes, importHistory, ImpAt
    <2> QED BY <2>1, <2>3, <1>0
  <1>2. CASE AskCancel(u, i)
    <2>1. ContactTypes'
      BY <1>2, <1>0, ContactsKept DEF AskCancel, documents, Happens
    <2>2. /\ user' \in [Users -> Askers]
          /\ \A v \in Users : user'[v].pc # "idle" => user'[v].i \in Imports /\ user'[v].status # "none"
          /\ \A v \in Users : user'[v].pc = "enqueue" => user'[v].status = "importing"
      BY <1>2, <1>0 DEF AskCancel, ImportTypes, Askers
    <2>3. ImportTypes'
      BY <1>2, <1>0, <2>2 DEF AskCancel, ImportTypes, importHistory, ImpAt
    <2> QED BY <2>1, <2>3, <1>0
  <1> QED BY <1>1, <1>2

\* A request about an import writes, or ends.
LEMMA RequestTypes ==
    ASSUME Types, ImportAssumption, NEW u \in Users, SaveRequest(u) \/ EnqueueImport(u)
    PROVE  Types'
  <1>0. ImportTypes /\ ContactTypes /\ (ContactTypes' /\ ImportTypes' => Types')
    BY DEF Types
  <1>q. queue \in Queues /\ "validate" \in Actions /\ "import" \in Actions
    BY <1>0 DEF ImportTypes, Actions
  <1>k. keepContacts => ContactTypes'
    BY <1>0, ContactsKept DEF keepContacts, contactVars, documents, contactHistory
  <1>1. CASE SaveRequest(u)
    <2>1. ContactTypes'
      BY <1>1, <1>k DEF SaveRequest
    <2>2. ijob' \in [Imports -> Docs]
      <3>1. user[u].i \in Imports /\ user[u].status \in Statuses
        BY <1>1, <1>0 DEF SaveRequest, ImportTypes, Askers, Statuses, Ongoing, Settled
      <3>2. ijob \in [Imports -> Docs]
        BY <1>0 DEF ImportTypes
      <3> QED BY <1>1, <3>1, <3>2, StatusWritten DEF SaveRequest
    <2>3. /\ user' \in [Users -> Askers]
          /\ \A v \in Users : user'[v].pc # "idle" => user'[v].i \in Imports /\ user'[v].status # "none"
          /\ \A v \in Users : user'[v].pc = "enqueue" => user'[v].status = "importing"
      BY <1>1, <1>0 DEF SaveRequest, ImportTypes, Askers, NoUser
    <2>4. ImportTypes'
      BY <1>1, <1>0, <2>2, <2>3 DEF SaveRequest, ImportTypes, importHistory, ImpAt
    <2> QED BY <2>1, <2>4, <1>0
  <1>2. CASE EnqueueImport(u)
    <2>1. ContactTypes'
      BY <1>2, <1>k DEF EnqueueImport
    <2>2. queue' \in Queues
      <3>1. user[u].i \in Imports
        BY <1>2, <1>0 DEF EnqueueImport, ImportTypes
      <3> QED BY <1>2, <1>q, <3>1, QueueMoves DEF EnqueueImport
    <2>3. /\ user' \in [Users -> Askers]
          /\ \A v \in Users : user'[v].pc # "idle" => user'[v].i \in Imports /\ user'[v].status # "none"
          /\ \A v \in Users : user'[v].pc = "enqueue" => user'[v].status = "importing"
      BY <1>2, <1>0 DEF EnqueueImport, ImportTypes, Askers, NoUser
    <2>4. ImportTypes'
      BY <1>2, <1>0, <2>2, <2>3 DEF EnqueueImport, ImportTypes, importHistory, ImpAt
    <2> QED BY <2>1, <2>4, <1>0
  <1> QED BY <1>1, <1>2

\* A request breaks off.
LEMMA RequestDiesTypes ==
    ASSUME Types, ImportAssumption, RequestDies
    PROVE  Types'
  <1>0. ImportTypes /\ ContactTypes /\ (ContactTypes' /\ ImportTypes' => Types')
    BY DEF Types
  <1>q. queue \in Queues /\ "validate" \in Actions /\ "import" \in Actions
    BY <1>0 DEF ImportTypes, Actions
  <1>k. keepContacts => ContactTypes'
    BY <1>0, ContactsKept DEF keepContacts, contactVars, documents, contactHistory
  <1>1. CASE RequestDies
    <2>1. ContactTypes'
      BY <1>1, <1>0, ContactsKept DEF RequestDies, Trouble, documents, Happens
    <2>2. queue' \in Queues
      BY <1>1, <1>q, QueueMoves DEF RequestDies, Dropped
    <2>3. /\ user' \in [Users -> Askers]
          /\ \A v \in Users : user'[v].pc # "idle" => user'[v].i \in Imports /\ user'[v].status # "none"
          /\ \A v \in Users : user'[v].pc = "enqueue" => user'[v].status = "importing"
      <3>1. CASE UNCHANGED user
        BY <1>0, <3>1 DEF ImportTypes
      <3>2. CASE \E v \in Users : user' = [user EXCEPT ![v] = NoUser]
        BY <1>0, <3>2 DEF ImportTypes, Askers, NoUser
      <3> QED BY <1>1, <3>1, <3>2 DEF RequestDies
    <2>4. ImportTypes'
      BY <1>1, <1>0, <2>2, <2>3 DEF RequestDies, ImportTypes, importHistory, ImpAt, Trouble, documents
    <2> QED BY <2>1, <2>4, <1>0
  <1> QED BY <1>1

\* A step of an import keeps the types.
LEMMA ImporterTypes ==
    ASSUME Types, ImportAssumption, NEW i \in Imports, NEW a \in Actions,
           \/ TakeImport(i)
           \/ FindRow(i)
           \/ WriteRow(i)
           \/ StopImport(i)
           \/ CountTarget(i)
           \/ StoreTarget(i)
           \/ FinishImport(i)
           \/ JobFails(i, a)
           \/ WorkerDies(i, a)
    PROVE  Types'

  <1>0. ImportTypes /\ ContactTypes /\ (ContactTypes' /\ ImportTypes' => Types')
    BY DEF Types
  <1>q. queue \in Queues /\ "validate" \in Actions /\ "import" \in Actions
    BY <1>0 DEF ImportTypes, Actions
  <1>k. keepContacts => ContactTypes'
    BY <1>0, ContactsKept DEF keepContacts, contactVars, documents, contactHistory
  <1>1. CASE TakeImport(i)
    <2>1. ContactTypes'
      BY <1>1, <1>0, ContactsKept DEF TakeImport, documents
    <2>2. queue' \in Queues
      BY <1>1, <1>q, QueueMoves DEF TakeImport, Dropped
    <2>3. /\ imp' \in [Imports -> Importers]
          /\ \A j \in Imports : imp'[j].pc = "write" => imp'[j].source # <<>>
      <3>1. CASE UNCHANGED imp
        BY <1>0, <3>1 DEF ImportTypes, ImpAt
      <3>2. CASE ~UNCHANGED imp
        <4>1. PICK source \in IF ValAt(i, "close") THEN Prefixes(valid[i]) ELSE {valid[i]} :
                  imp' = [imp EXCEPT ![i] = [NoImp EXCEPT !.pc = "rows", !.source = source]]
          BY <1>1, <3>2 DEF TakeImport
        <4>2. valid[i] \in Seq(Emails)
          BY <1>0 DEF ImportTypes
        <4>3. source \in Seq(Emails)
          BY <4>1, <4>2 DEF Prefixes
        <4> DEFINE m == [NoImp EXCEPT !.pc = "rows", !.source = source]
        <4>4. m \in Importers /\ m.pc = "rows"
          BY <4>3, Defaults DEF NoImp, Importers, ImpPc
        <4> HIDE DEF m
        <4>5. imp' = [imp EXCEPT ![i] = m]
          BY <4>1 DEF m
        <4> QED BY <1>0, <4>4, <4>5 DEF ImportTypes, ImpAt
      <3> QED BY <3>1, <3>2
    <2>4. ImportTypes'
      BY <1>1, <1>0, <2>2, <2>3 DEF TakeImport, ImportTypes, importHistory, ImpAt
    <2> QED BY <2>1, <2>4, <1>0
  <1>2. CASE FindRow(i)
    <2>1. ContactTypes'
      BY <1>2, <1>k DEF FindRow
    <2>2. /\ imp' \in [Imports -> Importers]
          /\ \A j \in Imports : imp'[j].pc = "write" => imp'[j].source # <<>>
      <3>1. PICK e \in Emails : imp' = [imp EXCEPT ![i].pc = "write", ![i].found = contact[e]]
        <4>1. imp[i].source \in Seq(Emails) /\ imp[i].source # <<>>
          BY <1>2, <1>0 DEF FindRow, ImportTypes, Importers
        <4>2. Head(imp[i].source) \in Emails
          BY <4>1
        <4> QED BY <1>2, <4>2 DEF FindRow
      <3>2. contact[e] \in Listings
        BY <1>0 DEF ContactTypes
      <3> DEFINE m == [imp[i] EXCEPT !.pc = "write", !.found = contact[e]]
      <3>3. m \in Importers /\ m.source = imp[i].source
        BY <1>0, <3>2 DEF ImportTypes, Importers, ImpPc
      <3>4. imp' = [imp EXCEPT ![i] = m]
        BY <3>1
      <3> HIDE DEF m
      <3> QED BY <1>2, <1>0, <3>3, <3>4 DEF FindRow, ImportTypes, ImpAt
    <2>3. ImportTypes'
      BY <1>2, <1>0, <2>2 DEF FindRow, ImportTypes, importHistory, ImpAt
    <2> QED BY <2>1, <2>3, <1>0
  <1>3. CASE WriteRow(i)
    <2>1. ContactTypes'
      <3>1. contact' \in [Emails -> Listings]
        <4>1. contact \in [Emails -> Listings] /\ target[i] \in Targets
          BY <1>0 DEF ContactTypes, ImportTypes
        <4>2. Contact({target[i]}) \in Listings
          BY <4>1 DEF Contact, Listings
        <4> DEFINE e == Head(imp[i].source)
        <4>3. [contact[e] EXCEPT !.in = @ \cup {target[i]}] \in Listings \/ e \notin Emails
          BY <4>1 DEF Listings
        <4>4. UNCHANGED contact \/ contact' = [contact EXCEPT ![e] = Contact({target[i]})]
              \/ contact' = [contact EXCEPT ![e] = [contact[e] EXCEPT !.in = @ \cup {target[i]}]]
          BY <1>3 DEF WriteRow, LinkRow, SkipRow, InsertRow
        <4> HIDE DEF e
        <4> QED BY <4>1, <4>2, <4>3, <4>4
      <3> QED BY <1>3, <1>0, <3>1 DEF WriteRow, ContactTypes, contactHistory
    <2>2. /\ imp' \in [Imports -> Importers]
          /\ \A j \in Imports : imp'[j].pc = "write" => imp'[j].source # <<>>
      <3>1. imp[i] \in Importers /\ imp[i].source \in Seq(Emails) /\ imp[i].source # <<>> /\ Absent \in Listings
        BY <1>0, <1>3, Defaults DEF WriteRow, ImportTypes, Importers, Absent, Listings
      <3>2. PICK a1 \in {0, 1}, a2 \in {0, 1} : Wrote(i, a1, a2)
        BY <1>3 DEF WriteRow, LinkRow, SkipRow, InsertRow
      <3> DEFINE m == [imp[i] EXCEPT !.pc = "rows", !.source = Tail(imp[i].source), !.found = Absent,
                            !.gone = FALSE, !.imported = imp[i].imported + a1, !.skipped = imp[i].skipped + a2]
      <3>3. Tail(imp[i].source) \in Seq(Emails)
        BY <3>1
      <3>4. m \in Importers /\ m.pc = "rows"
        BY <3>1, <3>3, OneMoreWritten DEF Importers
      <3>5. imp' = [imp EXCEPT ![i] = m]
        BY <3>2 DEF Wrote
      <3> HIDE DEF m
      <3> QED BY <1>0, <3>4, <3>5 DEF ImportTypes, ImpAt
    <2>3. ImportTypes'
      BY <1>3, <1>0, <2>2 DEF WriteRow, ImportTypes, importHistory, ImpAt
    <2> QED BY <2>1, <2>3, <1>0
  <1>4. CASE StopImport(i)
    <2>1. ContactTypes'
      BY <1>4, <1>k DEF StopImport
    <2>2. ijob' \in [Imports -> Docs]
      BY <1>4, <1>0 DEF StopImport, ImportTypes, Docs, Importers
    <2>3. /\ imp' \in [Imports -> Importers]
          /\ \A j \in Imports : imp'[j].pc = "write" => imp'[j].source # <<>>
      BY <1>4, <1>0 DEF StopImport, ImportTypes, Importers, ImpPc, ImpAt
    <2>4. ImportTypes'
      BY <1>4, <1>0, <2>2, <2>3 DEF StopImport, ImportTypes, importHistory, ImpAt
    <2> QED BY <2>1, <2>4, <1>0
  <1>5. CASE CountTarget(i)
    <2>1. ContactTypes'
      BY <1>5, <1>k DEF CountTarget
    <2>2. /\ imp' \in [Imports -> Importers]
          /\ \A j \in Imports : imp'[j].pc = "write" => imp'[j].source # <<>>
      <3>1. Counted({target[i]}) \in Counts
        <4>1. Cardinality(Members(target[i])) \in Sizes
          BY DEF Members, Present, Sizes
        <4>2. {target[i]} \in SUBSET Targets
          BY <1>0 DEF ImportTypes
        <4>3. Counted({target[i]}) \in [{target[i]} -> Sizes]
          BY <4>1 DEF Counted
        <4> QED BY <4>2, <4>3 DEF Counts
      <3> DEFINE m == [imp[i] EXCEPT !.counted = Counted({target[i]}),
                                     !.pc = IF ImpAt(i, "rows") THEN "store" ELSE "storeCanceled"]
      <3>2. m \in Importers /\ m.pc # "write"
        BY <1>0, <3>1 DEF ImportTypes, Importers, ImpPc
      <3> HIDE DEF m
      <3>3. imp' = [imp EXCEPT ![i] = m]
        BY <1>5 DEF CountTarget, m
      <3> QED BY <1>0, <3>2, <3>3 DEF ImportTypes, ImpAt
    <2>3. ImportTypes'
      BY <1>5, <1>0, <2>2 DEF CountTarget, ImportTypes, importHistory, ImpAt
    <2> QED BY <2>1, <2>3, <1>0
  <1>6. CASE StoreTarget(i)
    <2>1. ContactTypes'
      BY <1>6, <1>0, ContactsKept DEF StoreTarget, contactHistory
    <2>2. queue' \in Queues
      BY <1>6, <1>q, QueueMoves DEF StoreTarget, Dropped
    <2>3. /\ imp' \in [Imports -> Importers]
          /\ \A j \in Imports : imp'[j].pc = "write" => imp'[j].source # <<>>
      <3>1. CASE imp' = [imp EXCEPT ![i] = NoImp]
        BY <1>0, <3>1, Defaults DEF ImportTypes, ImpAt
      <3>2. CASE imp' = [imp EXCEPT ![i].pc = "finish", ![i].counted = <<>>]
        <4> DEFINE m == [imp[i] EXCEPT !.pc = "finish", !.counted = <<>>]
        <4>1. <<>> \in Counts
          BY DEF Counts
        <4>2. m \in Importers /\ m.pc = "finish"
          BY <1>0, <4>1 DEF ImportTypes, Importers, ImpPc
        <4>3. imp' = [imp EXCEPT ![i] = m]
          BY <3>2
        <4> HIDE DEF m
        <4> QED BY <1>0, <4>2, <4>3 DEF ImportTypes, ImpAt
      <3> QED BY <1>6, <3>1, <3>2 DEF StoreTarget
    <2>4. ImportTypes'
      BY <1>6, <1>0, <2>2, <2>3 DEF StoreTarget, ImportTypes, importHistory, ImpAt
    <2> QED BY <2>1, <2>4, <1>0
  <1>7. CASE FinishImport(i)
    <2>1. ContactTypes'
      BY <1>7, <1>k DEF FinishImport
    <2>2. ijob' \in [Imports -> Docs]
      <3>1. imp[i].imported \in Nat /\ imp[i].skipped \in Nat /\ ijob \in [Imports -> Docs]
        BY <1>0 DEF ImportTypes, Importers
      <3> QED BY <1>7, <3>1 DEF FinishImport, Docs, Statuses, Settled
    <2>3. queue' \in Queues
      BY <1>7, <1>q, QueueMoves DEF FinishImport, Dropped
    <2>4. /\ imp' \in [Imports -> Importers]
          /\ \A j \in Imports : imp'[j].pc = "write" => imp'[j].source # <<>>
      BY <1>7, <1>0, Defaults DEF FinishImport, ImportTypes, ImpAt
    <2>5. ImportTypes'
      BY <1>7, <1>0, <2>2, <2>3, <2>4 DEF FinishImport, ImportTypes, importHistory, ImpAt
    <2> QED BY <2>1, <2>5, <1>0
  <1>8. CASE JobFails(i, a)
    <2>1. ContactTypes'
      BY <1>8, <1>0, ContactsKept DEF JobFails, Trouble, documents, Happens
    <2>2. ijob' \in [Imports -> Docs]
      <3>1. "failed" \in Statuses /\ ijob \in [Imports -> Docs]
        BY <1>0 DEF Statuses, Settled, ImportTypes
      <3> QED BY <1>8, <3>1, StatusWritten DEF JobFails
    <2>3. queue' \in Queues
      BY <1>8, <1>q, QueueMoves DEF JobFails, Dropped
    <2>4. val' \in [Imports -> Judges]
      BY <1>8, <1>0, Defaults DEF JobFails, Stops, ImportTypes
    <2>5. /\ imp' \in [Imports -> Importers]
          /\ \A j \in Imports : imp'[j].pc = "write" => imp'[j].source # <<>>
      BY <1>8, <1>0, Defaults DEF JobFails, Stops, ImportTypes, ImpAt
    <2>6. ImportTypes'
      BY <1>8, <1>0, <2>2, <2>3, <2>4, <2>5 DEF JobFails, ImportTypes, importHistory, ImpAt, Trouble, documents
    <2> QED BY <2>1, <2>6, <1>0
  <1>9. CASE WorkerDies(i, a)
    <2>1. ContactTypes'
      BY <1>9, <1>0, ContactsKept DEF WorkerDies, Trouble, documents, Happens
    <2>2. valid' \in [Imports -> Seq(Emails)]
      <3>1. valid[i] \in Seq(Emails) /\ valid \in [Imports -> Seq(Emails)]
        BY <1>0 DEF ImportTypes
      <3>2. Prefixes(valid[i]) \subseteq Seq(Emails)
        BY <3>1 DEF Prefixes
      <3> QED BY <1>9, <3>1, <3>2 DEF WorkerDies
    <2>3. queue' \in Queues
      BY <1>9, <1>q, QueueMoves DEF WorkerDies
    <2>4. val' \in [Imports -> Judges]
      BY <1>9, <1>0, Defaults DEF WorkerDies, Stops, ImportTypes
    <2>5. /\ imp' \in [Imports -> Importers]
          /\ \A j \in Imports : imp'[j].pc = "write" => imp'[j].source # <<>>
      BY <1>9, <1>0, Defaults DEF WorkerDies, Stops, ImportTypes, ImpAt
    <2>6. ImportTypes'
      BY <1>9, <1>0, <2>2, <2>3, <2>4, <2>5 DEF WorkerDies, ImportTypes, importHistory, ImpAt, Trouble, documents
    <2> QED BY <2>1, <2>6, <1>0
  <1> QED BY <1>1, <1>2, <1>3, <1>4, <1>5, <1>6, <1>7, <1>8, <1>9

\* A request of the panel is of its type.
LEMMA OpTypes ==
    /\ NoOp \in Ops
    /\ \A pc \in OpPc, kind \in OpKinds, emails \in SUBSET Emails, ls \in SUBSET Lists, sync \in SUBSET Targets :
         (pc = "write" /\ kind \in {"create", "update"} => emails # {}) => Op(pc, kind, emails, ls, sync) \in Ops
  <1>1. <<>> \in Counts
    BY DEF Counts
  <1>2. ASSUME NEW pc \in OpPc, NEW kind \in OpKinds, NEW emails \in SUBSET Emails, NEW ls \in SUBSET Lists,
               NEW sync \in SUBSET Targets, pc = "write" /\ kind \in {"create", "update"} => emails # {}
        PROVE  Op(pc, kind, emails, ls, sync) \in Ops
    BY <1>1, <1>2 DEF Op, Ops, OpRecords
  <1>3. "idle" \in OpPc /\ "resync" \in OpKinds
    BY DEF OpPc, OpKinds
  <1>4. NoOp \in Ops
    BY <1>2, <1>3 DEF NoOp
  <1> QED BY <1>2, <1>4

\* What a request counts is of its type.
LEMMA CountedTypes ==
    ASSUME NEW ls \in SUBSET Targets
    PROVE  Counted(ls) \in Counts
  <1>1. \A l \in ls : Cardinality(Members(l)) \in Sizes
    BY DEF Members, Present, Sizes
  <1>2. Counted(ls) \in [ls -> Sizes]
    BY <1>1 DEF Counted
  <1> QED BY <1>2 DEF Counts

\* A request arrives, or ends its reading, with an operation of the right type.
LEMMA OpBecomes ==
    ASSUME ContactTypes, NEW k \in Clerks, NEW o \in Ops, Becomes(k, o)
    PROVE  op' \in [Clerks -> Ops]
  BY DEF ContactTypes, Becomes

\* A step of a request keeps the types of the contacts.
LEMMA ClerkTypes ==
    ASSUME ContactTypes, NEW k \in Clerks, ClerkSteps(k) \/ ClerkDies(k) \/ Request(k, ImportBusy)
    PROVE  ContactTypes'
  <1>0. /\ op[k] \in Ops /\ op[k].emails \subseteq Emails /\ op[k].ls \subseteq Lists
        /\ op[k].sync \subseteq Targets /\ op[k].counted \in Counts
        /\ contact \in [Emails -> Listings] /\ lists \subseteq Lists /\ touched \subseteq Emails
    BY DEF ContactTypes, Ops, OpRecords
  <1>t. Lists \subseteq Targets
    BY DEF Targets
  <1>n. /\ {"write", "count", "dropList", "idle", "store"} \subseteq OpPc
        /\ {"create", "update", "delete", "dropList", "resync"} \subseteq OpKinds
    BY DEF OpPc, OpKinds
  <1>1. CASE CountLists(k)
    <2> DEFINE ls == IF op[k].kind = "resync" THEN Wrong ELSE op[k].sync
               o == [NoOp EXCEPT !.pc = "store", !.counted = Counted(ls)]
    <2>1. ls \in SUBSET Targets
      BY <1>0, <1>t DEF Wrong
    <2>2. Counted(ls) \in Counts
      BY <2>1, CountedTypes
    <2> HIDE DEF ls
    <2>3. o \in Ops
      BY <2>2, OpTypes DEF Ops, OpRecords, OpPc
    <2>4. Becomes(k, o)
      BY <1>1 DEF CountLists, ls
    <2> HIDE DEF o
    <2>5. op' \in [Clerks -> Ops]
      BY <2>3, <2>4, OpBecomes
    <2> QED BY <1>1, <2>5 DEF CountLists, ContactTypes, documents, contactHistory
  <1>2. CASE StoreCounts(k)
    <2>1. op' \in [Clerks -> Ops]
      BY <1>2, OpTypes, OpBecomes DEF StoreCounts, Return
    <2> QED BY <1>2, <2>1 DEF StoreCounts, ContactTypes, contactHistory
  <1>3. CASE WriteChange(k)
    <2> DEFINE e == CHOOSE x \in op[k].emails : TRUE
    <2>1. Contact(op[k].ls) \in Listings /\ Absent \in Listings
      BY <1>0, <1>t DEF Contact, Absent, Listings
    <2>2. op' \in [Clerks -> Ops]
      <3>1. CASE Return(k)
        BY <3>1, OpTypes, OpBecomes DEF Return
      <3>2. CASE Becomes(k, Op("count", "update", {}, {}, op[k].sync))
        <4>1. Op("count", "update", {}, {}, op[k].sync) \in Ops
          BY <1>0, <1>n, OpTypes
        <4> QED BY <3>2, <4>1, OpBecomes
      <3>3. CASE Becomes(k, Op("dropList", "dropList", {}, op[k].ls, {}))
        <4>1. Op("dropList", "dropList", {}, op[k].ls, {}) \in Ops
          BY <1>0, <1>n, OpTypes
        <4> QED BY <3>3, <4>1, OpBecomes
      <3> QED BY <1>3, <3>1, <3>2, <3>3 DEF WriteChange, Apply
    <2>3. contact' \in [Emails -> Listings]
      <3>1. CASE UNCHANGED contact
        BY <1>0, <3>1
      <3>2. CASE contact' = [contact EXCEPT ![e] = Contact(op[k].ls)]
        <4> HIDE DEF e
        <4> QED BY <1>0, <2>1, <3>2
      <3>3. CASE contact' = [x \in Emails |-> IF x \in op[k].emails THEN Absent ELSE contact[x]]
        BY <1>0, <2>1, <3>3
      <3>4. CASE contact' = [x \in Emails |-> [contact[x] EXCEPT !.in = @ \ op[k].ls]]
        BY <1>0, <3>4 DEF Listings
      <3> QED BY <1>3, <3>1, <3>2, <3>3, <3>4 DEF WriteChange, Apply
    <2>4. touched' \subseteq Emails
      BY <1>0, <1>3 DEF WriteChange, Apply
    <2> QED BY <1>3, <2>2, <2>3, <2>4 DEF WriteChange, ContactTypes
  <1>4. CASE DropList(k)
    <2>1. op' \in [Clerks -> Ops]
      BY <1>4, OpTypes, OpBecomes DEF DropList, Return
    <2> QED BY <1>4, <2>1 DEF DropList, ContactTypes, contactHistory
  <1>5. CASE ClerkDies(k)
    <2>1. op' \in [Clerks -> Ops]
      BY <1>5, OpTypes, OpBecomes DEF ClerkDies, Return
    <2> QED BY <1>5, <2>1 DEF ClerkDies, ContactTypes
  <1>6. CASE Request(k, ImportBusy)
    <2>1. PICK o : Begin(k, o, ImportBusy) /\ o \in Ops
      <3>1. \A e \in Emails : contact[e].in \subseteq Targets
        BY <1>0 DEF Listings
      <3>2. ASSUME NEW e \in Emails, NEW ls \in SUBSET Lists, BeginCreate(k, e, ls, ImportBusy)
            PROVE  \E o : Begin(k, o, ImportBusy) /\ o \in Ops
        <4>1. Op("write", "create", {e}, ls, ls) \in Ops
          BY <1>t, <1>n, OpTypes
        <4> QED BY <3>2, <4>1 DEF BeginCreate
      <3>3. ASSUME NEW e \in Emails, NEW ls \in SUBSET Lists, BeginUpdate(k, e, ls, ImportBusy)
            PROVE  \E o : Begin(k, o, ImportBusy) /\ o \in Ops
        <4>1. Writes(e, ls) \in OpPc
          BY <1>n DEF Writes
        <4>2. contact[e].in \cup ls \in SUBSET Targets
          BY <1>t, <3>1
        <4>3. Op(Writes(e, ls), "update", {e}, ls, contact[e].in \cup ls) \in Ops
          BY <1>n, <4>1, <4>2, OpTypes
        <4> QED BY <3>3, <4>3 DEF BeginUpdate
      <3>4. ASSUME NEW es \in SUBSET Emails, BeginDelete(k, es, ImportBusy)
            PROVE  \E o : Begin(k, o, ImportBusy) /\ o \in Ops
        <4>1. UNION {contact[e].in : e \in es} \in SUBSET Targets
          BY <3>1
        <4>2. Op("write", "delete", es, {}, UNION {contact[e].in : e \in es}) \in Ops
          BY <1>n, <4>1, OpTypes
        <4> QED BY <3>4, <4>2 DEF BeginDelete
      <3>5. ASSUME NEW l \in Lists, BeginDropList(k, l, ImportBusy)
            PROVE  \E o : Begin(k, o, ImportBusy) /\ o \in Ops
        <4>1. Op("write", "dropList", {}, {l}, {}) \in Ops
          BY <1>n, OpTypes
        <4> QED BY <3>5, <4>1 DEF BeginDropList
      <3>6. ASSUME BeginResync(k, ImportBusy)
            PROVE  \E o : Begin(k, o, ImportBusy) /\ o \in Ops
        <4>1. Op("count", "resync", {}, {}, {}) \in Ops
          BY <1>n, OpTypes
        <4> QED BY <3>6, <4>1 DEF BeginResync
      <3> QED BY <1>6, <3>2, <3>3, <3>4, <3>5, <3>6 DEF Request
    <2>2. op' \in [Clerks -> Ops]
      BY <2>1, OpBecomes DEF Begin
    <2> QED BY <2>1, <2>2 DEF Begin, ContactTypes, documents
  <1> QED BY <1>1, <1>2, <1>3, <1>4, <1>5, <1>6 DEF ClerkSteps

\* What the request of the panel changes of an import that is about to write.
LEMMA GoneTypes ==
    ASSUME ImportTypes, ClerkRequests
    PROVE  ImportTypes' /\ \A i \in Imports : imp'[i].source = imp[i].source /\ imp'[i].pc = imp[i].pc
  <1> DEFINE away(i) == ImpAt(i, "write") /\ imp[i].found # Absent
                        /\ Head(imp[i].source) \notin {e \in Emails : contact'[e].exists}
             gone(i) == imp[i].gone \/ away(i)
  <1>1. imp \in [Imports -> Importers]
    BY DEF ImportTypes
  <1>2. \A i \in Imports : gone(i) \in BOOLEAN
    OBVIOUS
  <1>3. imp' = [i \in Imports |-> [imp[i] EXCEPT !.gone = gone(i)]]
    BY DEF ClerkRequests
  <1> HIDE DEF gone
  <1>4. \A i \in Imports : /\ [imp[i] EXCEPT !.gone = gone(i)] \in Importers
                           /\ [imp[i] EXCEPT !.gone = gone(i)].source = imp[i].source
                           /\ [imp[i] EXCEPT !.gone = gone(i)].pc = imp[i].pc
    BY <1>1, <1>2 DEF Importers
  <1>5. /\ imp' \in [Imports -> Importers]
        /\ \A i \in Imports : imp'[i].source = imp[i].source /\ imp'[i].pc = imp[i].pc
    BY <1>3, <1>4
  <1>6. \A i \in Imports : imp'[i].pc = "write" => imp'[i].source # <<>>
    BY <1>5 DEF ImportTypes, ImpAt
  <1> QED BY <1>5, <1>6 DEF ImportTypes, ClerkRequests, importHistory, ImpAt

\* Every step keeps the types.
LEMMA TypesStep ==
    ASSUME Types, ImportAssumption, [Next]_vars
    PROVE  Types'
  <1>1. CASE UNCHANGED vars
    BY <1>1 DEF vars, importVars, contactVars, documents, contactHistory, importHistory, Types, ContactTypes,
               ImportTypes, ImpAt
  <1>2. CASE JobSteps
    <2>1. "import" \in Actions
      BY DEF Actions
    <2> QED BY <1>2, <2>1, ValidationTypes, ImporterTypes DEF JobSteps
  <1>3. CASE RequestSteps
    BY <1>3, ValidationTypes, RequestTypes DEF RequestSteps
  <1>4. CASE Asks
    BY <1>4, DocumentTypes, AskTypes DEF Asks
  <1>5. CASE ClerkRequests
    <2>1. ContactTypes /\ ImportTypes
      BY DEF Types
    <2>2. ContactTypes'
      BY <1>5, <2>1, ClerkTypes DEF ClerkRequests
    <2> QED BY <1>5, <2>1, <2>2, GoneTypes DEF Types
  <1>6. CASE \E i \in Imports : StopValidation(i) \/ StopImport(i)
    <2>1. "import" \in Actions
      BY DEF Actions
    <2> QED BY <1>6, <2>1, ValidationTypes, ImporterTypes
  <1>7. CASE \E i \in Imports, a \in Actions : JobFails(i, a) \/ WorkerDies(i, a)
    BY <1>7, ImporterTypes
  <1>8. CASE RequestDies
    BY <1>8, RequestDiesTypes
  <1> QED BY <1>1, <1>2, <1>3, <1>4, <1>5, <1>6, <1>7, <1>8 DEF Next

-----------------------------------------------------------------------------
(* A job works exactly while BullMQ says active.                            *)
Fits(i) == /\ ~ValAt(i, "idle") <=> InQueue(i, "validate", "active")
           /\ ~ImpAt(i, "idle") <=> InQueue(i, "import", "active")

\* What the queue holds after one job of it has moved.
LEMMA QueueIs ==
    ASSUME Types, NEW i \in Imports, NEW a \in Actions, NEW j \in Imports, NEW b \in Actions
    PROVE  /\ \A w : Queued(i, a, w) => queue'[j][b] = IF j = i /\ b = a THEN w ELSE queue[j][b]
           /\ Add(i, a) => \/ queue'[j][b] = queue[j][b]
                           \/ j = i /\ b = a /\ queue[j][b] = "none" /\ queue'[j][b] = "waiting"
  <1>1. queue \in Queues
    BY DEF Types, ImportTypes
  <1> QED BY <1>1 DEF Queues, Queued, Add, InQueue

\* What judging a row does to the job and to the accepted rows.
LEMMA RowJudged ==
    ASSUME Types, NEW i \in Imports, ClassifyRow(i)
    PROVE  \E verdict \in Verdicts(i) :
             /\ val'[i].pc = "rows" /\ val'[i].at = val[i].at + 1
             /\ val'[i].counters = Tally(val[i].counters, verdict)
             /\ \A k \in Imports \ {i} : val'[k] = val[k]
             /\ valid' = [valid EXCEPT ![i] = IF verdict = "accepted" THEN Append(@, Row(i)) ELSE @]
  <1>0. val \in [Imports -> Judges] /\ val[i].pc = "rows"
    BY DEF Types, ImportTypes, ClassifyRow, ValAt
  <1>1. PICK verdict \in Verdicts(i) :
          /\ val' = [val EXCEPT ![i].at = @ + 1, ![i].seen = @ \cup ({Row(i)} \cap Emails),
                                ![i].counters = Tally(@, verdict)]
          /\ valid' = [valid EXCEPT ![i] = IF verdict = "accepted" THEN Append(@, Row(i)) ELSE @]
    BY DEF ClassifyRow
  <1> DEFINE c == Tally(val[i].counters, verdict)
             seen == val[i].seen \cup ({Row(i)} \cap Emails)
             m == [val[i] EXCEPT !.at = val[i].at + 1, !.seen = seen, !.counters = c]
  <1>2. val' = [val EXCEPT ![i] = m]
    BY <1>1
  <1> HIDE DEF c, seen
  <1>3. m.pc = "rows" /\ m.at = val[i].at + 1 /\ m.counters = c
    BY <1>0 DEF Judges
  <1> HIDE DEF m
  <1>4. val'[i] = m /\ \A k \in Imports \ {i} : val'[k] = val[k]
    BY <1>0, <1>2
  <1> QED BY <1>1, <1>3, <1>4 DEF c

\* Every step keeps the jobs and their states in the queue together.
LEMMA JobsFitStep ==
    ASSUME Types, JobsFit, [Next]_vars
    PROVE  JobsFit'
  <1> SUFFICES ASSUME NEW j \in Imports PROVE Fits(j)'
    BY DEF JobsFit, Fits
  <1>0. /\ Fits(j) /\ val \in [Imports -> Judges] /\ imp \in [Imports -> Importers]
        /\ "validate" \in Actions /\ "import" \in Actions
    BY DEF JobsFit, Fits, Types, ImportTypes, Actions
  <1>d. NoVal.pc = "idle" /\ NoImp.pc = "idle" /\ [NoVal EXCEPT !.pc = "begin"].pc = "begin"
    BY DEF NoVal, NoImp
  <1>1. CASE UNCHANGED <<val, imp, queue>>
    BY <1>1, <1>0 DEF Fits, ValAt, ImpAt, InQueue
  <1>2. ASSUME NEW i \in Imports, NEW a \in Actions, Add(i, a), UNCHANGED <<val, imp>>
        PROVE  Fits(j)'
    BY <1>0, <1>2, QueueIs DEF Fits, ValAt, ImpAt, InQueue
  <1>3. ASSUME NEW i \in Imports, NEW a \in Actions, Queued(i, a, "gone") \/ Queued(i, a, "waiting"), Stops(i, a)
        PROVE  Fits(j)'
    BY <1>0, <1>d, <1>3, QueueIs DEF Fits, Stops, ValAt, ImpAt, InQueue, Actions
  <1>4. ASSUME NEW i \in Imports, TakeValidation(i)
        PROVE  Fits(j)'
    <2>1. CASE Queued(i, "validate", "active") /\ val' = [val EXCEPT ![i] = [NoVal EXCEPT !.pc = "begin"]]
      <3>1. val'[j].pc = IF j = i THEN "begin" ELSE val[j].pc
        BY <1>0, <1>d, <2>1
      <3> QED BY <1>0, <1>4, <2>1, <3>1, QueueIs DEF TakeValidation, Fits, ValAt, ImpAt, InQueue
    <2>2. CASE Dropped(i, "validate") /\ UNCHANGED val
      BY <1>0, <1>4, <2>2, QueueIs DEF TakeValidation, Dropped, Fits, ValAt, ImpAt, InQueue
    <2> QED BY <1>4, <2>1, <2>2 DEF TakeValidation
  <1>5. ASSUME NEW i \in Imports, TakeImport(i)
        PROVE  Fits(j)'
    <2>1. CASE ijob[i].status # "importing"
      <3>1. Queued(i, "import", "gone") /\ UNCHANGED <<imp, val>> /\ InQueue(i, "import", "waiting")
        BY <1>5, <2>1 DEF TakeImport, Dropped
      <3> QED BY <1>0, <3>1, QueueIs DEF Fits, ValAt, ImpAt, InQueue
    <2>2. CASE ijob[i].status = "importing"
      <3>1. PICK source : imp' = [imp EXCEPT ![i] = [NoImp EXCEPT !.pc = "rows", !.source = source]]
        BY <1>5, <2>2 DEF TakeImport
      <3>2. [NoImp EXCEPT !.pc = "rows", !.source = source].pc = "rows"
        BY DEF NoImp
      <3>3. imp'[j].pc = IF j = i THEN "rows" ELSE imp[j].pc
        BY <1>0, <3>1, <3>2
      <3>4. Queued(i, "import", "active") /\ UNCHANGED val
        BY <1>5, <2>2 DEF TakeImport
      <3> QED BY <1>0, <3>3, <3>4, QueueIs DEF Fits, ValAt, ImpAt, InQueue
    <2> QED BY <2>1, <2>2
  <1>6. ASSUME UNCHANGED <<queue, imp>>, NEW i \in Imports, ~ValAt(i, "idle"),
               \E pc \in ValPc \ {"idle"} : val'[i].pc = pc,
               \A k \in Imports \ {i} : val'[k] = val[k]
        PROVE  Fits(j)'
    BY <1>0, <1>6 DEF Fits, ValAt, ImpAt, InQueue
  <1>7. ASSUME UNCHANGED <<queue, val>>, NEW i \in Imports, ~ImpAt(i, "idle"),
               \E pc \in ImpPc \ {"idle"} : imp'[i].pc = pc,
               \A k \in Imports \ {i} : imp'[k] = imp[k]
        PROVE  Fits(j)'
    BY <1>0, <1>7 DEF Fits, ValAt, ImpAt, InQueue
  <1>8. CASE JobSteps
    <2> SUFFICES ASSUME NEW i \in Imports,
               \/ TakeValidation(i) \/ BeginValidation(i) \/ ClassifyRow(i) \/ FinishValidation(i) \/ CloseFiles(i)
               \/ TakeImport(i) \/ FindRow(i) \/ WriteRow(i) \/ CountTarget(i) \/ StoreTarget(i) \/ FinishImport(i)
             PROVE  Fits(j)'
      BY <1>8 DEF JobSteps
    <2>1. CASE BeginValidation(i) \/ ClassifyRow(i) \/ FinishValidation(i)
      <3>1. val'[i].pc \in {"rows", "close"}
        <4>1. CASE BeginValidation(i) \/ FinishValidation(i)
          BY <1>0, <4>1 DEF BeginValidation, FinishValidation, Judges
        <4>2. CASE ClassifyRow(i)
          BY <4>2, RowJudged
        <4> QED BY <2>1, <4>1, <4>2
      <3>2. UNCHANGED <<queue, imp>> /\ ~ValAt(i, "idle") /\ \A k \in Imports \ {i} : val'[k] = val[k]
        BY <1>0, <2>1 DEF BeginValidation, ClassifyRow, FinishValidation, ValAt
      <3> QED BY <1>6, <3>1, <3>2 DEF ValPc
    <2>2. CASE CloseFiles(i)
      BY <1>0, <1>3, <2>2 DEF CloseFiles, Dropped, Stops
    <2>3. CASE FindRow(i) \/ CountTarget(i)
      <3>1. imp'[i].pc \in {"write", "store", "storeCanceled"}
        BY <1>0, <2>3 DEF FindRow, CountTarget, Importers
      <3>2. UNCHANGED <<queue, val>> /\ ~ImpAt(i, "idle") /\ \A k \in Imports \ {i} : imp'[k] = imp[k]
        BY <1>0, <2>3 DEF FindRow, CountTarget, ImpAt
      <3> QED BY <1>7, <3>1, <3>2 DEF ImpPc
    <2>4. CASE WriteRow(i)
      <3>1. PICK a1, a2 : Wrote(i, a1, a2)
        BY <2>4 DEF WriteRow, LinkRow, SkipRow, InsertRow
      <3>2. imp'[i].pc = "rows" /\ \A k \in Imports \ {i} : imp'[k] = imp[k]
        BY <1>0, <3>1 DEF Wrote, Importers
      <3>3. UNCHANGED <<queue, val>> /\ ~ImpAt(i, "idle")
        BY <2>4 DEF WriteRow, ImpAt
      <3> QED BY <1>7, <3>2, <3>3 DEF ImpPc
    <2>5. CASE StoreTarget(i)
      <3>1. CASE ImpAt(i, "store")
        BY <1>0, <1>7, <2>5, <3>1 DEF StoreTarget, Importers, ImpPc, ImpAt
      <3>2. CASE ~ImpAt(i, "store")
        BY <1>0, <1>3, <2>5, <3>2 DEF StoreTarget, Dropped, Stops
      <3> QED BY <3>1, <3>2
    <2>6. CASE FinishImport(i)
      BY <1>0, <1>3, <2>6 DEF FinishImport, Dropped, Stops
    <2> QED BY <1>4, <1>5, <2>1, <2>2, <2>3, <2>4, <2>5, <2>6
  <1>9. CASE RequestSteps
    <2>1. ASSUME NEW i \in Imports, EnqueueValidation(i)
          PROVE  Fits(j)'
      BY <1>0, <1>2, <2>1 DEF EnqueueValidation
    <2>2. ASSUME NEW u \in Users, SaveRequest(u)
          PROVE  Fits(j)'
      BY <1>1, <2>2 DEF SaveRequest
    <2>3. ASSUME NEW u \in Users, EnqueueImport(u)
          PROVE  Fits(j)'
      <3>1. user[u].i \in Imports
        BY <2>3 DEF EnqueueImport, Types, ImportTypes
      <3> QED BY <1>0, <1>2, <2>3, <3>1 DEF EnqueueImport
    <2> QED BY <1>9, <2>1, <2>2, <2>3 DEF RequestSteps
  <1>10. CASE Asks
    BY <1>1, <1>10 DEF Asks, Create, Expire, AskConfirm, AskCancel
  <1>11. CASE ClerkRequests
    <2>1. imp'[j].pc = imp[j].pc
      BY <1>11, GoneTypes DEF Types
    <2> QED BY <1>0, <1>11, <2>1 DEF ClerkRequests, Fits, ValAt, ImpAt, InQueue
  <1>12. ASSUME NEW i \in Imports, StopValidation(i) \/ StopImport(i)
         PROVE  Fits(j)'
    <2>1. CASE StopValidation(i)
      BY <1>0, <1>6, <2>1 DEF StopValidation, Judges, ValPc, ValAt
    <2>2. CASE StopImport(i)
      BY <1>0, <1>7, <2>2 DEF StopImport, Importers, ImpPc, ImpAt
    <2> QED BY <1>12, <2>1, <2>2
  <1>13. ASSUME NEW i \in Imports, NEW a \in Actions, JobFails(i, a) \/ WorkerDies(i, a)
         PROVE  Fits(j)'
    BY <1>3, <1>13 DEF JobFails, WorkerDies, Dropped
  <1>14. CASE RequestDies
    <2>1. CASE UNCHANGED queue
      BY <1>1, <1>14, <2>1 DEF RequestDies
    <2>2. ASSUME NEW i \in Imports, InQueue(i, "validate", "none"), Dropped(i, "validate")
          PROVE  Fits(j)'
      BY <1>0, <1>14, <2>2, QueueIs DEF RequestDies, Dropped, Fits, ValAt, ImpAt, InQueue
    <2> QED BY <1>14, <2>1, <2>2 DEF RequestDies
  <1>15. CASE UNCHANGED vars
    BY <1>1, <1>15 DEF vars, importVars
  <1> QED BY <1>8, <1>9, <1>10, <1>11, <1>12, <1>13, <1>14, <1>15 DEF Next

-----------------------------------------------------------------------------
(* The verdict of a validation.                                             *)
VerdictOf(i) == RowsCounted(val[i], valid[i]) /\ (Judged(i) => VerdictStands(i))
Standing == {"validated", "importing", "canceled", "failed", "done"}

\* A step that neither judges a row nor writes a verdict nor makes anyone new rely on one.
LEMMA VerdictKept ==
    ASSUME NEW j \in Imports, VerdictOf(j), val'[j] = val[j], valid'[j] = valid[j],
           ijob'[j].counters = ijob[j].counters, unclosed \subseteq unclosed',
           Judged(j)' => Judged(j) /\ ijob'[j].status \in Standing
    PROVE  VerdictOf(j)'
  <1>1. RowsCounted(val[j], valid[j])'
    BY DEF VerdictOf, RowsCounted
  <1>2. ASSUME Judged(j)' PROVE VerdictStands(j)'
    <2>1. VerdictStands(j)
      BY <1>2 DEF VerdictOf
    <2> QED BY <1>2, <2>1 DEF VerdictStands, AllRows, Standing
  <1> QED BY <1>1, <1>2 DEF VerdictOf

\* Who relies on the verdict when neither documents nor requests begin to.
LEMMA NobodyNewRelies ==
    ASSUME NEW j \in Imports, ijob'[j].status = ijob[j].status \/ ijob'[j].status \in {"canceled", "failed"},
           \A u \in Users : user'[u] = user[u] \/ user'[u].pc = "idle",
           ImpAt(j, "idle") => ImpAt(j, "idle")'
    PROVE  Judged(j)' => Judged(j)
  <1>1. (\E u \in Users : Confirms(u, j)') => \E u \in Users : Confirms(u, j)
    BY DEF Confirms
  <1> QED BY <1>1 DEF Judged

\* A step that reads and writes only contacts, requests or the queue keeps the verdict.
LEMMA VerdictAside ==
    ASSUME NEW j \in Imports, VerdictOf(j), UNCHANGED <<val, valid, ijob>>, unclosed \subseteq unclosed',
           \A u \in Users : user'[u] = user[u] \/ user'[u].pc = "idle",
           ImpAt(j, "idle") => ImpAt(j, "idle")'
    PROVE  VerdictOf(j)'
  <1>1. Judged(j)' => Judged(j)
    BY NobodyNewRelies
  <1>2. Judged(j) => ijob[j].status \in Standing
    BY DEF VerdictOf, VerdictStands, Standing
  <1> QED BY <1>1, <1>2, VerdictKept

\* A step of a validation keeps the verdicts.
LEMMA VerdictOfValidation ==
    ASSUME Types, ImportAssumption, JobsFit, VerdictInv, NEW i \in Imports, NEW j \in Imports,
           \/ TakeValidation(i) \/ BeginValidation(i) \/ ClassifyRow(i)
           \/ StopValidation(i) \/ FinishValidation(i) \/ CloseFiles(i)
    PROVE  VerdictOf(j)'
  <1>0. /\ VerdictOf(j) /\ VerdictOf(i) /\ val \in [Imports -> Judges] /\ valid \in [Imports -> Seq(Emails)]
        /\ ijob \in [Imports -> Docs] /\ val[i] \in Judges /\ ijob[i] \in Docs /\ valid[i] \in Seq(Emails)
    BY DEF VerdictInv, VerdictOf, Types, ImportTypes
  <1>1. UNCHANGED <<user, imp, unclosed>> /\ \A k \in Imports \ {i} : val'[k] = val[k] /\ valid'[k] = valid[k] /\ ijob'[k] = ijob[k]
    BY <1>0, RowJudged DEF TakeValidation, BeginValidation, ClassifyRow, StopValidation, FinishValidation, CloseFiles, importHistory
  <1>2. CASE j # i
    <2>1. val'[j] = val[j] /\ valid'[j] = valid[j] /\ ijob'[j] = ijob[j]
      BY <1>1, <1>2
    <2>2. Judged(j)' => Judged(j)
      BY <1>1, <2>1, NobodyNewRelies DEF ImpAt
    <2>3. Judged(j) => ijob[j].status \in Standing
      BY <1>0 DEF VerdictOf, VerdictStands, Standing
    <2> QED BY <1>0, <1>1, <2>1, <2>2, <2>3, VerdictKept
  <1>3. val[i].pc \in {"begin", "rows"} => ~Judged(i)
    BY <1>0 DEF VerdictOf, VerdictStands
  <1>4. CASE TakeValidation(i) /\ j = i
    <2>1. UNCHANGED <<ijob, valid>> /\ InQueue(i, "validate", "waiting")
      BY <1>4 DEF TakeValidation
    <2>2. CASE val' = [val EXCEPT ![i] = [NoVal EXCEPT !.pc = "begin"]] /\ ijob[i].status \in {"uploaded", "validating"}
      <3>1. ~Judged(i)
        BY <1>0, <2>2 DEF VerdictOf, VerdictStands
      <3>2. ~Judged(i)'
        BY <1>1, <2>1, <3>1, NobodyNewRelies DEF ImpAt
      <3>3. RowsCounted(val[i], valid[i])'
        BY <1>0, <2>2 DEF RowsCounted, NoVal
      <3> QED BY <1>4, <3>2, <3>3 DEF VerdictOf
    <2>3. CASE UNCHANGED val
      BY <1>0, <1>1, <2>1, <2>3, VerdictAside DEF ImpAt
    <2> QED BY <1>4, <2>2, <2>3 DEF TakeValidation
  <1>5. CASE BeginValidation(i) /\ j = i
    <2>1. ~Judged(i)
      BY <1>3, <1>5 DEF BeginValidation, ValAt
    <2>2. ijob'[i].status = "validating" /\ valid'[i] = <<>> /\ val'[i].pc = "rows" /\ val'[i].at = val[i].at
          /\ val'[i].counters = val[i].counters
      BY <1>0, <1>5 DEF BeginValidation, Judges, Docs
    <2>3. ~Judged(i)'
      BY <1>1, <2>1, <2>2 DEF Judged, Confirms, ImpAt
    <2>4. val[i].at = 1 /\ val[i].counters = NoCounters
      BY <1>0, <1>5 DEF BeginValidation, ValAt, VerdictOf, RowsCounted
    <2>5. RowsCounted(val[i], valid[i])'
      BY <2>2, <2>4 DEF RowsCounted, NoCounters, ImportAssumption
    <2> QED BY <1>5, <2>3, <2>5 DEF VerdictOf
  <1>6. CASE ClassifyRow(i) /\ j = i
    <2>1. ~Judged(i) /\ val[i].pc = "rows" /\ val[i].at <= Rows /\ UNCHANGED ijob
      BY <1>3, <1>6 DEF ClassifyRow, ValAt
    <2>2. ~Judged(i)'
      BY <1>1, <2>1, NobodyNewRelies DEF ImpAt
    <2>3. PICK verdict \in Verdicts(i) :
             /\ val'[i].pc = "rows" /\ val'[i].at = val[i].at + 1
             /\ val'[i].counters = Tally(val[i].counters, verdict)
             /\ valid' = [valid EXCEPT ![i] = IF verdict = "accepted" THEN Append(@, Row(i)) ELSE @]
      BY <1>6, RowJudged
    <2>4. verdict \in {"accepted", "ignored", "invalid"}
      BY DEF Verdicts
    <2>5. Len(valid'[i]) = IF verdict = "accepted" THEN Len(valid[i]) + 1 ELSE Len(valid[i])
      BY <1>0, <2>3
    <2>6. val[i].counters \in Tallies /\ val[i].at \in Nat
      BY <1>0 DEF Judges
    <2>7. RowsCounted(val[i], valid[i])
      BY <1>0 DEF VerdictOf
    <2>8. RowsCounted(val[i], valid[i])'
      <3> DEFINE c == val[i].counters
                 n == Len(valid[i])
      <3>1. val[i].at \in 1..(Rows + 1) /\ c.rows = val[i].at - 1 /\ n = c.accepted
            /\ c.accepted + c.ignored + c.invalid = val[i].at - 1
        BY <2>1, <2>7 DEF RowsCounted
      <3>2. c.rows \in Nat /\ c.accepted \in Nat /\ c.ignored \in Nat /\ c.invalid \in Nat /\ n \in Nat
        BY <1>0, <2>6 DEF Tallies
      <3> DEFINE d == Tally(c, verdict)
      <3>3. d.rows = val[i].at /\ d.accepted + d.ignored + d.invalid = val[i].at
        <4>1. d.rows = c.rows + 1 /\ c.rows + 1 = val[i].at
          BY <2>6, <3>1, <3>2 DEF Tally
        <4>2. \/ d.accepted = c.accepted + 1 /\ d.ignored = c.ignored /\ d.invalid = c.invalid
              \/ d.accepted = c.accepted /\ d.ignored = c.ignored + 1 /\ d.invalid = c.invalid
              \/ d.accepted = c.accepted /\ d.ignored = c.ignored /\ d.invalid = c.invalid + 1
          BY <2>4 DEF Tally
        <4> HIDE DEF d, c, n
        <4>3. d.accepted + d.ignored + d.invalid = c.accepted + c.ignored + c.invalid + 1
          BY <3>2, <4>2
        <4> QED BY <2>6, <3>1, <4>1, <4>3
      <3>4. d.accepted = IF verdict = "accepted" THEN c.accepted + 1 ELSE c.accepted
        BY DEF Tally
      <3> HIDE DEF d, n
      <3>5. val'[i].counters = d /\ Len(valid'[i]) = d.accepted
        BY <2>3, <2>5, <3>1, <3>4 DEF d, n
      <3> QED BY <2>1, <2>3, <2>6, <3>1, <3>3, <3>5 DEF RowsCounted, ImportAssumption
    <2> QED BY <1>6, <2>2, <2>8 DEF VerdictOf
  <1>7. CASE StopValidation(i) /\ j = i
    <2>1. ~Judged(i) /\ UNCHANGED <<ijob, valid>>
      BY <1>3, <1>7 DEF StopValidation, ValAt
    <2>2. ~Judged(i)'
      BY <1>1, <2>1, NobodyNewRelies DEF ImpAt
    <2>3. val'[i].pc = "close"
      BY <1>0, <1>7 DEF StopValidation, Judges
    <2> QED BY <1>7, <2>2, <2>3 DEF VerdictOf, RowsCounted
  <1>8. CASE FinishValidation(i) /\ j = i
    <2>1. val[i].pc = "rows" /\ val[i].at > Rows /\ valid'[i] = valid[i]
      BY <1>8 DEF FinishValidation, ValAt
    <2>2. val'[i].pc = "close" /\ ijob'[i].status = "validated" /\ ijob'[i].counters = val[i].counters
      BY <1>0, <1>8 DEF FinishValidation, Judges, Docs
    <2>3. AllRows(val[i].counters) /\ Len(valid[i]) = val[i].counters.accepted
      BY <1>0, <2>1 DEF VerdictOf, RowsCounted, AllRows, Judges, ImportAssumption
    <2> QED BY <1>8, <2>1, <2>2, <2>3 DEF VerdictOf, RowsCounted, VerdictStands, AllRows
  <1>9. CASE CloseFiles(i) /\ j = i
    <2>1. UNCHANGED <<ijob, valid>> /\ val'[i].pc = "idle"
      BY <1>0, <1>9 DEF CloseFiles, NoVal
    <2>2. Judged(i)' => Judged(i)
      BY <1>1, <2>1, NobodyNewRelies DEF ImpAt
    <2>3. RowsCounted(val[i], valid[i])'
      BY <2>1 DEF RowsCounted
    <2>4. Judged(i)' => VerdictStands(i)'
      BY <1>0, <1>1, <2>1, <2>2 DEF VerdictOf, VerdictStands, AllRows
    <2> QED BY <1>9, <2>3, <2>4 DEF VerdictOf
  <1> QED BY <1>2, <1>4, <1>5, <1>6, <1>7, <1>8, <1>9

\* A step of an import keeps the verdicts.
LEMMA VerdictOfImport ==
    ASSUME Types, JobsFit, VerdictInv, NEW i \in Imports, NEW j \in Imports,
           \/ TakeImport(i) \/ FindRow(i) \/ WriteRow(i) \/ CountTarget(i) \/ StoreTarget(i) \/ FinishImport(i)
           \/ StopImport(i)
    PROVE  VerdictOf(j)'
  <1>0. /\ VerdictOf(j) /\ VerdictOf(i) /\ imp \in [Imports -> Importers] /\ ijob \in [Imports -> Docs]
        /\ unclosed \subseteq Imports
    BY DEF VerdictInv, VerdictOf, Types, ImportTypes
  <1>1. CASE TakeImport(i)
    <2>1. UNCHANGED <<val, valid, ijob, user>> /\ unclosed \subseteq unclosed'
      BY <1>1 DEF TakeImport
    <2>2. CASE ijob[i].status = "importing"
      <3>1. imp'[j] = imp[j] \/ j = i
        BY <1>0, <1>1, <2>2 DEF TakeImport
      <3>2. Judged(j)' => Judged(j)
        BY <2>1, <2>2, <3>1, NobodyNewRelies DEF Judged, ImpAt
      <3>3. Judged(j) => ijob[j].status \in Standing
        BY <1>0 DEF VerdictOf, VerdictStands, Standing
      <3> QED BY <1>0, <2>1, <3>2, <3>3, VerdictKept
    <2>3. CASE ijob[i].status # "importing"
      BY <1>0, <1>1, <2>1, <2>3, VerdictAside DEF TakeImport, ImpAt
    <2> QED BY <2>2, <2>3
  <1>2. CASE FindRow(i) \/ CountTarget(i)
    <2>1. ImpAt(j, "idle") => ImpAt(j, "idle")'
      BY <1>0, <1>2 DEF FindRow, CountTarget, ImpAt
    <2> QED BY <1>0, <1>2, <2>1, VerdictAside DEF FindRow, CountTarget, importHistory
  <1>3. CASE WriteRow(i)
    <2>1. PICK a1, a2 : Wrote(i, a1, a2)
      BY <1>3 DEF WriteRow, LinkRow, SkipRow, InsertRow
    <2>2. ImpAt(j, "idle") => ImpAt(j, "idle")'
      BY <1>0, <1>3, <2>1 DEF WriteRow, Wrote, ImpAt
    <2> QED BY <1>0, <1>3, <2>2, VerdictAside DEF WriteRow
  <1>4. CASE StoreTarget(i)
    <2>1. ImpAt(j, "idle") => ImpAt(j, "idle")'
      BY <1>0, <1>4 DEF StoreTarget, ImpAt
    <2> QED BY <1>0, <1>4, <2>1, VerdictAside DEF StoreTarget, importHistory
  <1>5. CASE FinishImport(i) \/ StopImport(i)
    <2>1. ~ImpAt(i, "idle") /\ UNCHANGED <<val, valid, user, unclosed>>
      BY <1>5 DEF FinishImport, StopImport, ImpAt, importHistory
    <2>2. Judged(i)
      BY <2>1 DEF Judged
    <2>3. ijob'[j].counters = ijob[j].counters /\ (ijob'[j].status = ijob[j].status \/ (j = i /\ ijob'[j].status = "done"))
      BY <1>0, <1>5 DEF FinishImport, StopImport, Docs
    <2>4. imp'[j] = imp[j] \/ j = i
      BY <1>0, <1>5 DEF FinishImport, StopImport
    <2>5. Judged(j)' => Judged(j)
      BY <2>1, <2>2, <2>3, <2>4 DEF Judged, Confirms, ImpAt
    <2>6. Judged(j) => ijob[j].status \in Standing
      BY <1>0 DEF VerdictOf, VerdictStands, Standing
    <2> QED BY <1>0, <2>1, <2>3, <2>5, <2>6, VerdictKept DEF Standing
  <1> QED BY <1>1, <1>2, <1>3, <1>4, <1>5

\* A request of the API about an import keeps the verdicts.
LEMMA VerdictOfRequest ==
    ASSUME Types, JobsFit, VerdictInv, NEW j \in Imports, RequestSteps \/ Asks \/ RequestDies
    PROVE  VerdictOf(j)'
  <1>0. /\ VerdictOf(j) /\ ijob \in [Imports -> Docs] /\ user \in [Users -> Askers] /\ unclosed \subseteq Imports
        /\ ~ValAt(j, "idle") <=> InQueue(j, "validate", "active")
        /\ ~ImpAt(j, "idle") <=> InQueue(j, "import", "active")
    BY DEF VerdictInv, VerdictOf, Types, ImportTypes, JobsFit
  <1>s. Judged(j) => ijob[j].status \in Standing
    BY <1>0 DEF VerdictOf, VerdictStands, Standing
  <1>1. ASSUME NEW i \in Imports, EnqueueValidation(i)
        PROVE  VerdictOf(j)'
    BY <1>0, <1>1, VerdictAside DEF EnqueueValidation, importHistory, ImpAt
  <1>2. ASSUME NEW u \in Users, EnqueueImport(u)
        PROVE  VerdictOf(j)'
    BY <1>0, <1>2, VerdictAside DEF EnqueueImport, importHistory, ImpAt, NoUser
  <1>3. CASE RequestDies
    BY <1>0, <1>3, VerdictAside DEF RequestDies, importHistory, ImpAt, NoUser
  <1>4. ASSUME NEW u \in Users, SaveRequest(u)
        PROVE  VerdictOf(j)'
    <2>1. UNCHANGED <<val, valid, imp, unclosed>> /\ user[u].pc # "idle"
      BY <1>4 DEF SaveRequest
    <2>2. user[u].i \in Imports /\ user[u].status \in {"importing", "canceled"}
      BY <1>0, <2>1 DEF Types, ImportTypes, Askers
    <2>3. ijob'[j].counters = ijob[j].counters
          /\ (ijob'[j].status = ijob[j].status \/ (j = user[u].i /\ ijob'[j].status = user[u].status))
      BY <1>0, <1>4, <2>2 DEF SaveRequest, Docs
    <2>4. user[u].status = "importing" => Confirms(u, user[u].i)
      BY <2>1 DEF Confirms
    <2>5. \A v \in Users : Confirms(v, j)' => Confirms(v, j)
      BY <1>0, <1>4, <2>1 DEF SaveRequest, Confirms, Askers, NoUser
    <2>6. Judged(j)' => Judged(j)
      BY <2>1, <2>2, <2>3, <2>4, <2>5 DEF Judged, ImpAt
    <2> QED BY <1>0, <1>s, <2>1, <2>2, <2>3, <2>6, VerdictKept DEF Standing
  <1>5. ASSUME NEW u \in Users, NEW i \in Imports, AskConfirm(u, i) \/ AskCancel(u, i)
        PROVE  VerdictOf(j)'
    <2>1. UNCHANGED <<val, valid, ijob, imp, unclosed>>
      BY <1>5 DEF AskConfirm, AskCancel, importHistory
    <2>2. \A v \in Users : Confirms(v, j)' => Confirms(v, j) \/ ijob[j].status = "validated"
      BY <1>0, <1>5 DEF AskConfirm, AskCancel, Confirms
    <2>3. Judged(j)' => Judged(j)
      BY <2>1, <2>2 DEF Judged, ImpAt
    <2> QED BY <1>0, <1>s, <2>1, <2>3, VerdictKept
  <1>6. ASSUME NEW i \in Imports, Create(i)
        PROVE  VerdictOf(j)'
    <2>1. UNCHANGED <<val, valid, user, imp, unclosed>> /\ ijob[i].status = "none"
      BY <1>6 DEF Create, importHistory
    <2>2. ijob'[j].counters = ijob[j].counters /\ (ijob'[j].status = ijob[j].status \/ (j = i /\ ijob'[j].status = "uploaded"))
      BY <1>0, <1>6 DEF Create, Docs
    <2>3. Judged(j)' => Judged(j) /\ ijob'[j].status \in Standing
      BY <1>s, <2>1, <2>2 DEF Judged, Confirms, ImpAt, Standing
    <2> QED BY <1>0, <2>1, <2>2, <2>3, VerdictKept
  <1>7. ASSUME NEW i \in Imports, Expire(i)
        PROVE  VerdictOf(j)'
    <2>1. UNCHANGED <<val, user, imp, unclosed>>
      BY <1>7 DEF Expire, importHistory
    <2>2. CASE j # i
      <3>1. ijob'[j] = ijob[j] /\ valid'[j] = valid[j]
        BY <1>0, <1>7, <2>2 DEF Expire, Types, ImportTypes
      <3>2. Judged(j)' => Judged(j)
        BY <2>1, <3>1 DEF Judged, Confirms, ImpAt
      <3> QED BY <1>0, <1>s, <2>1, <3>1, <3>2, VerdictKept
    <2>3. CASE j = i
      <3>1. ImpAt(j, "idle") /\ ValAt(j, "idle")
        BY <1>0, <1>7, <2>3 DEF Expire, InQueue, Actions
      <3>2. ~Judged(j)'
        BY <1>0, <1>7, <2>1, <2>3, <3>1 DEF Expire, Judged, Confirms, ImpAt, NoJob
      <3> QED BY <2>1, <3>1, <3>2 DEF VerdictOf, RowsCounted, ValAt
    <2> QED BY <2>2, <2>3
  <1> QED BY <1>1, <1>2, <1>3, <1>4, <1>5, <1>6, <1>7 DEF RequestSteps, Asks

\* A failure of a job keeps the verdicts.
LEMMA VerdictOfFailure ==
    ASSUME Types, JobsFit, VerdictInv, NEW i \in Imports, NEW a \in Actions, NEW j \in Imports,
           JobFails(i, a) \/ WorkerDies(i, a)
    PROVE  VerdictOf(j)'
  <1>0. /\ VerdictOf(j) /\ val \in [Imports -> Judges] /\ imp \in [Imports -> Importers] /\ ijob \in [Imports -> Docs]
        /\ valid \in [Imports -> Seq(Emails)]
        /\ ~ValAt(i, "idle") <=> InQueue(i, "validate", "active")
        /\ a \in {"validate", "import"}
    BY DEF VerdictInv, VerdictOf, Types, ImportTypes, JobsFit, Actions
  <1>1. UNCHANGED user /\ unclosed \subseteq unclosed'
    BY DEF JobFails, WorkerDies, importHistory
  <1>2. ijob'[j].counters = ijob[j].counters /\ (ijob'[j].status = ijob[j].status \/ ijob'[j].status = "failed")
    <2>1. CASE ijob' = [ijob EXCEPT ![i].status = "failed"]
      BY <1>0, <2>1 DEF Docs
    <2> QED BY <2>1 DEF JobFails, WorkerDies
  <1>3. /\ val'[j] = val[j] \/ (j = i /\ a = "validate" /\ val'[j] = NoVal)
        /\ imp'[j] = imp[j] \/ imp'[j] = NoImp
    BY <1>0 DEF JobFails, WorkerDies, Stops
  <1>4. Judged(j)' => Judged(j)
    BY <1>1, <1>2, <1>3, NobodyNewRelies DEF ImpAt, NoImp
  <1>5. CASE valid'[j] = valid[j]
    <2>1. RowsCounted(val[j], valid[j])'
      BY <1>0, <1>3, <1>5 DEF VerdictOf, RowsCounted, NoVal
    <2>2. ASSUME Judged(j)' PROVE VerdictStands(j)'
      <3>1. VerdictStands(j)
        BY <1>0, <1>4, <2>2 DEF VerdictOf
      <3> QED BY <1>1, <1>2, <1>3, <1>5, <3>1 DEF VerdictStands, AllRows, NoVal
    <2> QED BY <2>1, <2>2 DEF VerdictOf
  <1>6. CASE valid'[j] # valid[j]
    <2>1. j = i /\ WorkerDies(i, "validate")
      BY <1>0, <1>6 DEF JobFails, WorkerDies
    <2>2. val'[j] = NoVal /\ InQueue(i, "validate", "active") /\ (ValAt(i, "close") => i \in unclosed')
      BY <1>0, <2>1 DEF WorkerDies, Stops
    <2>3. ASSUME Judged(j)' PROVE VerdictStands(j)'
      <3>1. VerdictStands(j)
        BY <1>0, <1>4, <2>3 DEF VerdictOf
      <3>2. j \in unclosed'
        BY <1>0, <2>1, <2>2, <3>1 DEF VerdictStands, ValAt
      <3> QED BY <1>2, <2>2, <3>1, <3>2 DEF VerdictStands, AllRows, NoVal
    <2> QED BY <2>2, <2>3 DEF VerdictOf, RowsCounted, NoVal
  <1> QED BY <1>5, <1>6

\* Every step keeps the verdicts.
LEMMA VerdictStep ==
    ASSUME Types, ImportAssumption, JobsFit, VerdictInv, [Next]_vars
    PROVE  VerdictInv'
  <1> SUFFICES ASSUME NEW j \in Imports PROVE VerdictOf(j)'
    BY DEF VerdictInv, VerdictOf
  <1>0. VerdictOf(j)
    BY DEF VerdictInv, VerdictOf
  <1>1. CASE JobSteps
    BY <1>1, VerdictOfValidation, VerdictOfImport DEF JobSteps
  <1>2. CASE RequestSteps \/ Asks \/ RequestDies
    BY <1>2, VerdictOfRequest
  <1>3. CASE ClerkRequests
    <2>1. imp'[j].pc = imp[j].pc
      BY <1>3, GoneTypes DEF Types
    <2> QED BY <1>0, <1>3, <2>1, VerdictAside DEF ClerkRequests, importHistory, ImpAt
  <1>4. CASE \E i \in Imports : StopValidation(i) \/ StopImport(i)
    BY <1>4, VerdictOfValidation, VerdictOfImport
  <1>5. CASE \E i \in Imports, a \in Actions : JobFails(i, a) \/ WorkerDies(i, a)
    BY <1>5, VerdictOfFailure
  <1>6. CASE UNCHANGED vars
    BY <1>0, <1>6, VerdictAside DEF vars, importVars, importHistory, ImpAt
  <1> QED BY <1>1, <1>2, <1>3, <1>4, <1>5, <1>6 DEF Next

\* The invariant holds at the start: types, jobs and verdicts.
LEMMA VerdictInit ==
    ASSUME Init, ImportAssumption
    PROVE  Types /\ JobsFit /\ VerdictInv
  <1>1. ContactTypes
    BY OpTypes DEF Init, ContactsInit, ContactTypes, Listings, Contact, Absent, Targets
  <1>2. ImportTypes
    BY Defaults DEF Init, ImportTypes, ImpAt, Targets, Queues, Askers, NoUser
  <1>3. JobsFit
    BY DEF Init, JobsFit, ValAt, ImpAt, InQueue, NoVal, NoImp, Actions
  <1>4. VerdictInv
    BY DEF Init, VerdictInv, RowsCounted, Judged, Confirms, NoVal, NoImp, NoUser, NoJob, ImpAt
  <1> QED BY <1>1, <1>2, <1>3, <1>4 DEF Types

\* The verdict the user confirms is that of the file (VerdictMatchesFile), for any number of
\* rows, imports, requests and faults.
THEOREM VerdictIsTheFiles == Spec => []VerdictMatchesFile
  <1> DEFINE Inv == Types /\ JobsFit /\ VerdictInv
  <1>1. Init => Inv
    BY ImportAssumption, VerdictInit
  <1>2. Inv /\ [Next]_vars => Inv'
    BY ImportAssumption, TypesStep, JobsFitStep, VerdictStep
  <1>3. Inv => VerdictMatchesFile
    BY DEF VerdictInv, Judged, VerdictStands, AllRows, VerdictMatchesFile
  <1> QED BY <1>1, <1>2, <1>3, PTL DEF Spec

-----------------------------------------------------------------------------
(* The rows of an import.                                                   *)
NoGhosts == \A e \in Emails : e \in Present \/ contact[e] = Absent
Reading(i) == Finds(i) /\ (i \notin unclosed => Reads(i) /\ HasRead(i) /\ IsDone(i))

\* What no step undoes, but for contacts that somebody deletes or changes.
Grows ==
    /\ touched \subseteq touched' /\ raced \subseteq raced'
    /\ \A e \in Emails : e \notin touched' => /\ contact[e].in \subseteq contact'[e].in
                                              /\ contact[e].exists => contact'[e].exists

\* What no step that belongs to an import deletes.
Keeps == Present \subseteq Present'

\* A request of the panel: contacts may leave lists only when touched.
LEMMA ClerkGrows ==
    ASSUME Types, NoGhosts, NEW k \in Clerks, ClerkSteps(k) \/ ClerkDies(k) \/ Request(k, ImportBusy), UNCHANGED raced
    PROVE  Grows /\ NoGhosts'
  <1>0. contact \in [Emails -> Listings] /\ op[k].emails \subseteq Emails /\ touched \subseteq Emails
    BY DEF Types, ContactTypes, Ops, OpRecords
  <1>1. ASSUME UNCHANGED contact, touched \subseteq touched'
        PROVE  Grows /\ NoGhosts'
    BY <1>1 DEF Grows, NoGhosts, Present
  <1>2. CASE CountLists(k) \/ StoreCounts(k) \/ DropList(k) \/ ClerkDies(k)
    BY <1>1, <1>2 DEF CountLists, StoreCounts, DropList, ClerkDies, documents, contactHistory
  <1>3. CASE Request(k, ImportBusy)
    <2>1. PICK o : Begin(k, o, ImportBusy)
      BY <1>3 DEF Request, BeginCreate, BeginUpdate, BeginDelete, BeginDropList, BeginResync
    <2> QED BY <1>1, <2>1 DEF Begin, documents
  <1>4. CASE WriteChange(k)
    <2> DEFINE e == CHOOSE x \in op[k].emails : TRUE
    <2>a. touched \subseteq touched'
      BY <1>0, <1>4 DEF WriteChange, Apply
    <2>1. CASE op[k].kind = "create"
      <3>1. CASE e \in Present
        BY <1>1, <1>4, <2>1, <2>a, <3>1 DEF WriteChange, Apply
      <3>2. CASE e \notin Present
        <4>1. contact' = [contact EXCEPT ![e] = Contact(op[k].ls)]
          BY <1>4, <2>1, <3>2 DEF WriteChange, Apply
        <4> HIDE DEF e
        <4>2. \A x \in Emails : contact'[x] = IF x = e THEN Contact(op[k].ls) ELSE contact[x]
          BY <1>0, <4>1
        <4>3. e \in Emails => contact[e] = Absent
          BY <3>2 DEF NoGhosts
        <4> QED BY <2>a, <4>2, <4>3 DEF Grows, NoGhosts, Present, Absent, Contact
      <3> QED BY <3>1, <3>2
    <2>2. CASE op[k].kind = "update"
      <3>1. touched' = touched \cup op[k].emails
        BY <1>4, <2>2 DEF WriteChange, Apply
      <3>2. CASE k \in stale
        BY <1>1, <1>4, <2>2, <2>a, <3>2 DEF WriteChange, Apply
      <3>3. CASE k \notin stale
        <4>1. contact' = [contact EXCEPT ![e] = Contact(op[k].ls)]
          BY <1>4, <2>2, <3>3 DEF WriteChange, Apply
        <4>2. op[k].emails # {}
          BY <1>4, <2>2 DEF WriteChange, OpAt, Types, ContactTypes, Ops
        <4>3. e \in op[k].emails
          BY <4>2
        <4> HIDE DEF e
        <4>4. \A x \in Emails : contact'[x] = IF x = e THEN Contact(op[k].ls) ELSE contact[x]
          BY <1>0, <4>1
        <4> QED BY <2>a, <3>1, <4>3, <4>4 DEF Grows, NoGhosts, Present, Contact
      <3> QED BY <3>2, <3>3
    <2>3. CASE op[k].kind = "delete"
      <3>1. touched' = touched \cup op[k].emails
            /\ contact' = [x \in Emails |-> IF x \in op[k].emails THEN Absent ELSE contact[x]]
        BY <1>4, <2>3 DEF WriteChange, Apply
      <3> QED BY <2>a, <3>1 DEF Grows, NoGhosts, Present
    <2>4. CASE op[k].kind = "dropList"
      <3>1. touched' = Emails /\ contact' = [x \in Emails |-> [contact[x] EXCEPT !.in = @ \ op[k].ls]]
        BY <1>4, <2>4 DEF WriteChange, Apply
      <3>2. NoGhosts'
        <4> SUFFICES ASSUME NEW x \in Emails PROVE contact'[x].exists \/ contact'[x] = Absent
          BY DEF NoGhosts, Present
        <4>1. contact'[x] = [contact[x] EXCEPT !.in = @ \ op[k].ls]
          BY <3>1
        <4>2. contact[x] \in Listings /\ (contact[x].exists \/ contact[x] = Absent)
          BY <1>0 DEF NoGhosts, Present
        <4>3. CASE contact[x].exists
          BY <4>1, <4>2, <4>3 DEF Listings
        <4>4. CASE contact[x] = Absent
          BY <4>1, <4>4 DEF Absent
        <4> QED BY <4>2, <4>3, <4>4
      <3> QED BY <2>a, <3>1, <3>2 DEF Grows
    <2> QED BY <1>4, <2>1, <2>2, <2>3, <2>4 DEF WriteChange, Apply
  <1> QED BY <1>2, <1>3, <1>4 DEF ClerkSteps

\* What writing a row does to the contacts.
LEMMA RowWritten ==
    ASSUME Types, NoGhosts, NEW i \in Imports, Finds(i), WriteRow(i), NEW e, e = Head(imp[i].source)
    PROVE  Grows /\ Keeps /\ NoGhosts' /\ Covered(i, e)'
  <1>0. /\ contact \in [Emails -> Listings] /\ e \in Emails /\ imp[i].pc = "write"
        /\ UNCHANGED <<touched, target>> /\ raced \subseteq raced'
    <2>1. imp[i].pc = "write" /\ imp[i].source \in Seq(Emails) /\ imp[i].source # <<>>
      BY DEF WriteRow, ImpAt, Types, ImportTypes, Importers
    <2>2. e \in Emails
      BY <2>1
    <2> QED BY <2>1, <2>2 DEF WriteRow, LinkRow, SkipRow, InsertRow, contactHistory, Types, ContactTypes
  <1>1. /\ imp[i].found # Absent /\ target[i] \in imp[i].found.in => Covered(i, e)
        /\ imp[i].found # Absent => e \in Present \/ imp[i].gone
        /\ imp[i].gone => e \in touched
    BY <1>0 DEF Finds
  <1>2. CASE UNCHANGED contact
    <2>1. Grows /\ Keeps /\ NoGhosts'
      BY <1>0, <1>2 DEF Grows, Keeps, NoGhosts, Present
    <2>2. CASE LinkRow(i, e)
      <3>1. imp[i].gone \/ target[i] \in contact[e].in
        BY <1>0, <1>2, <2>2 DEF LinkRow, Listings
      <3> QED BY <1>0, <1>1, <1>2, <2>1, <2>2, <3>1 DEF LinkRow, Covered
    <2>3. CASE SkipRow(i, e)
      BY <1>0, <1>1, <1>2, <2>1, <2>3 DEF SkipRow, Covered
    <2>4. CASE InsertRow(i, e)
      <3>1. <<i, e>> \in raced' \/ target[i] \in contact[e].in
        BY <1>0, <1>2, <2>4 DEF InsertRow, Contact
      <3> QED BY <1>0, <1>2, <2>1, <3>1 DEF Covered
    <2> QED BY <2>2, <2>3, <2>4 DEF WriteRow
  <1>3. CASE LinkRow(i, e) /\ ~UNCHANGED contact
    <2>1. contact' = [contact EXCEPT ![e].in = @ \cup {target[i]}] /\ e \in Present
      BY <1>1, <1>3 DEF LinkRow
    <2>2. \A x \in Emails \ {e} : contact'[x] = contact[x]
      BY <1>0, <2>1
    <2>3. contact'[e].in = contact[e].in \cup {target[i]} /\ contact'[e].exists
      BY <1>0, <2>1 DEF Listings, Present
    <2> QED BY <1>0, <2>1, <2>2, <2>3 DEF Grows, Keeps, NoGhosts, Present, Covered
  <1>4. CASE InsertRow(i, e) /\ ~UNCHANGED contact
    <2>1. contact' = [contact EXCEPT ![e] = Contact({target[i]})] /\ e \notin Present
      BY <1>4 DEF InsertRow
    <2>2. \A x \in Emails \ {e} : contact'[x] = contact[x]
      BY <1>0, <2>1
    <2>3. contact'[e].in = {target[i]} /\ contact'[e].exists /\ contact[e] = Absent
      BY <1>0, <2>1 DEF Contact, NoGhosts
    <2>4. Covered(i, e)'
      BY <1>0, <2>3 DEF Covered
    <2>5. \A x \in Emails : contact[x].in \subseteq contact'[x].in
      BY <2>2, <2>3 DEF Absent
    <2>6. Keeps /\ NoGhosts'
      BY <2>2, <2>3 DEF Keeps, NoGhosts, Present
    <2> QED BY <1>0, <2>4, <2>5, <2>6 DEF Grows, Keeps, Present
  <1> QED BY <1>2, <1>3, <1>4 DEF WriteRow, SkipRow

\* What every other step does to the contacts.
LEMMA ContactsLeft ==
    ASSUME NoGhosts, UNCHANGED <<contact, touched>>, raced \subseteq raced'
    PROVE  Grows /\ Keeps /\ NoGhosts'
  BY DEF NoGhosts, Grows, Keeps, Present

\* Every step lets contacts grow.
LEMMA GrowsStep ==
    ASSUME Types, NoGhosts, \A i \in Imports : Finds(i), [Next]_vars
    PROVE  Grows /\ NoGhosts' /\ (Keeps \/ ClerkRequests)
  <1>1. CASE ClerkRequests
    BY <1>1, ClerkGrows DEF ClerkRequests, importHistory
  <1>2. ASSUME NEW i \in Imports, WriteRow(i)
        PROVE  Grows /\ NoGhosts' /\ Keeps
    BY <1>2, RowWritten
  <1>3. ASSUME UNCHANGED <<contact, touched>>, raced \subseteq raced'
        PROVE  Grows /\ NoGhosts' /\ Keeps
    BY <1>3, ContactsLeft
  <1>4. CASE JobSteps
    BY <1>2, <1>3, <1>4 DEF JobSteps, TakeValidation, BeginValidation, ClassifyRow, FinishValidation, CloseFiles,
       TakeImport, FindRow, CountTarget, StoreTarget, FinishImport, keepContacts, contactVars, documents,
       contactHistory, importHistory
  <1>5. CASE RequestSteps \/ Asks \/ RequestDies
    BY <1>3, <1>5 DEF RequestSteps, Asks, RequestDies, EnqueueValidation, SaveRequest, EnqueueImport, Create,
       Expire, AskConfirm, AskCancel, Trouble, keepContacts, contactVars, documents, contactHistory, importHistory
  <1>6. CASE \E i \in Imports : StopValidation(i) \/ StopImport(i)
    BY <1>3, <1>6 DEF StopValidation, StopImport, keepContacts, contactVars, documents, contactHistory, importHistory
  <1>7. CASE \E i \in Imports, a \in Actions : JobFails(i, a) \/ WorkerDies(i, a)
    BY <1>3, <1>7 DEF JobFails, WorkerDies, Trouble, documents, importHistory
  <1>8. CASE UNCHANGED vars
    BY <1>3, <1>8 DEF vars, contactVars, importVars, documents, contactHistory, importHistory
  <1> QED BY <1>1, <1>4, <1>5, <1>6, <1>7, <1>8 DEF Next

\* The accepted rows and the list of an import that somebody relies on stay what they are.
LEMMA FileStays ==
    ASSUME Types, JobsFit, VerdictInv, [Next]_vars, NEW j \in Imports, Judged(j)'
    PROVE  target'[j] = target[j] /\ (j \notin unclosed' => valid'[j] = valid[j])
  <1>0. /\ val \in [Imports -> Judges] /\ imp \in [Imports -> Importers] /\ ijob \in [Imports -> Docs]
        /\ valid \in [Imports -> Seq(Emails)] /\ target \in [Imports -> Targets]
        /\ ~ValAt(j, "idle") <=> InQueue(j, "validate", "active")
        /\ ~ImpAt(j, "idle") <=> InQueue(j, "import", "active")
        /\ Judged(j) => VerdictStands(j)
    BY DEF Types, ImportTypes, JobsFit, VerdictInv
  <1>1. CASE UNCHANGED <<target, valid>>
    BY <1>1
  <1>2. ASSUME NEW i \in Imports, BeginValidation(i) \/ ClassifyRow(i)
        PROVE  UNCHANGED target /\ valid'[j] = valid[j]
    <2>1. UNCHANGED <<target, user, imp>>
      BY <1>2 DEF BeginValidation, ClassifyRow
    <2>2. CASE j # i
      BY <1>0, <1>2, <2>1, <2>2, RowJudged DEF BeginValidation
    <2>3. CASE j = i
      <3>1. val[j].pc \in {"begin", "rows"}
        BY <1>2, <2>3 DEF BeginValidation, ClassifyRow, ValAt
      <3>2. ~Judged(j)
        BY <1>0, <3>1 DEF VerdictStands
      <3>3. ijob'[j].status = ijob[j].status \/ ijob'[j].status = "validating"
        BY <1>0, <1>2, <2>3 DEF BeginValidation, ClassifyRow, Docs
      <3> QED BY <2>1, <3>2, <3>3 DEF Judged, Confirms, ImpAt
    <2> QED BY <2>1, <2>2, <2>3
  <1>3. ASSUME NEW i \in Imports, Create(i)
        PROVE  UNCHANGED valid /\ target'[j] = target[j]
    <2>1. UNCHANGED <<valid, user, imp>> /\ ijob[i].status = "none"
      BY <1>3 DEF Create
    <2>2. CASE j # i
      BY <1>0, <1>3, <2>1, <2>2 DEF Create
    <2>3. CASE j = i
      <3>1. ~Judged(j)
        BY <1>0, <2>1, <2>3 DEF VerdictStands
      <3>2. ijob'[j].status = "uploaded"
        BY <1>0, <1>3, <2>3 DEF Create, Docs
      <3> QED BY <2>1, <3>1, <3>2 DEF Judged, Confirms, ImpAt
    <2> QED BY <2>1, <2>2, <2>3
  <1>4. ASSUME NEW i \in Imports, Expire(i)
        PROVE  valid'[j] = valid[j] /\ target'[j] = target[j]
    <2>1. UNCHANGED <<user, imp>>
      BY <1>4 DEF Expire
    <2>2. CASE j # i
      BY <1>0, <1>4, <2>2 DEF Expire
    <2>3. CASE j = i
      <3>1. ImpAt(j, "idle")
        BY <1>0, <1>4, <2>3 DEF Expire, InQueue, Actions
      <3>2. ~Judged(j)'
        BY <1>0, <1>4, <2>1, <2>3, <3>1 DEF Expire, Judged, Confirms, ImpAt, NoJob
      <3> QED BY <3>2
    <2> QED BY <2>2, <2>3
  <1>5. ASSUME NEW i \in Imports, NEW a \in Actions, WorkerDies(i, a)
        PROVE  UNCHANGED target /\ (j \notin unclosed' => valid'[j] = valid[j])
    <2>1. CASE a # "validate" \/ j # i
      BY <1>0, <1>5, <2>1 DEF WorkerDies
    <2>2. CASE a = "validate" /\ j = i
      <3>1. Judged(j)' => Judged(j)
        BY <1>5, <2>2, NobodyNewRelies DEF WorkerDies, Stops, ImpAt
      <3>2. ValAt(j, "close") => j \in unclosed'
        BY <1>5, <2>2 DEF WorkerDies
      <3>3. InQueue(j, "validate", "active")
        BY <1>5, <2>2 DEF WorkerDies
      <3> QED BY <1>0, <1>5, <3>1, <3>2, <3>3 DEF WorkerDies, VerdictStands, ValAt
    <2> QED BY <2>1, <2>2
  <1>6. CASE JobSteps
    BY <1>1, <1>2, <1>6 DEF JobSteps, TakeValidation, FinishValidation, CloseFiles,
       TakeImport, FindRow, WriteRow, CountTarget, StoreTarget, FinishImport
  <1>7. CASE RequestSteps \/ Asks \/ RequestDies
    BY <1>1, <1>3, <1>4, <1>7 DEF RequestSteps, Asks, RequestDies, EnqueueValidation, SaveRequest, EnqueueImport,
       AskConfirm, AskCancel
  <1>8. CASE \E i \in Imports : StopValidation(i) \/ StopImport(i)
    BY <1>1, <1>8 DEF StopValidation, StopImport
  <1>9. CASE \E i \in Imports, a \in Actions : JobFails(i, a) \/ WorkerDies(i, a)
    BY <1>1, <1>5, <1>9 DEF JobFails
  <1>10. CASE ClerkRequests
    BY <1>1, <1>10 DEF ClerkRequests
  <1>11. CASE UNCHANGED vars
    BY <1>1, <1>11 DEF vars, importVars
  <1> QED BY <1>6, <1>7, <1>8, <1>9, <1>10, <1>11 DEF Next

\* Rows that are covered stay covered.
LEMMA CoveredStays ==
    ASSUME Grows, NEW i \in Imports, target'[i] = target[i], NEW e \in Emails, Covered(i, e)
    PROVE  Covered(i, e)'
  BY DEF Grows, Covered

\* The rows of an import stay covered.
LEMMA RowsStayCovered ==
    ASSUME Types, Grows, NEW i \in Imports, target'[i] = target[i], valid'[i] = valid[i], NEW n \in Nat,
           n <= Len(valid[i]), RowsCovered(i, n)
    PROVE  RowsCovered(i, n)'
  <1> SUFFICES ASSUME NEW m \in 1..n PROVE Covered(i, valid[i][m])'
    BY DEF RowsCovered
  <1>1. valid[i] \in Seq(Emails)
    BY DEF Types, ImportTypes
  <1>2. PICK e \in Emails : e = valid[i][m]
    BY <1>1
  <1>3. Covered(i, e)
    BY <1>2 DEF RowsCovered
  <1>4. Covered(i, e)'
    BY <1>3, CoveredStays
  <1> QED BY <1>2, <1>4 DEF Covered

\* The rows an import has read stay covered while it reads no other.
LEMMA RowsKept ==
    ASSUME Types, Grows, NEW j \in Imports, Reading(j), unclosed \subseteq unclosed', j \notin unclosed',
           ijob'[j].status = "done" => ijob'[j] = ijob[j],
           imp'[j].pc = imp[j].pc, imp'[j].source = imp[j].source,
           imp'[j].imported = imp[j].imported, imp'[j].skipped = imp[j].skipped,
           Judged(j)' => target'[j] = target[j] /\ (j \notin unclosed' => valid'[j] = valid[j])
    PROVE  Reads(j)' /\ HasRead(j)' /\ IsDone(j)'
  <1>t. imp[j] \in Importers /\ valid[j] \in Seq(Emails)
    BY DEF Types, ImportTypes
  <1>r. Reads(j) /\ HasRead(j) /\ IsDone(j)
    BY DEF Reading
  <1>1. Done(j) \in Nat /\ Len(valid[j]) \in Nat /\ Len(imp[j].source) \in Nat
    BY <1>t DEF Done, Importers
  <1>2. Reads(j)'
    <2>1. CASE imp[j].pc \in {"rows", "write"}
      <3>1. target'[j] = target[j] /\ valid'[j] = valid[j]
        BY <2>1 DEF Judged, ImpAt
      <3>2. Done(j) <= Len(valid[j]) /\ RowsCovered(j, Done(j))
        BY <1>r, <1>1, <2>1 DEF Reads
      <3>3. PICK n \in Nat : n = Done(j)
        BY <1>1
      <3>4. RowsCovered(j, n)'
        BY <3>1, <3>2, <3>3, RowsStayCovered
      <3>5. Done(j)' = n
        BY <3>3 DEF Done
      <3> QED BY <1>r, <2>1, <3>1, <3>3, <3>4, <3>5 DEF Reads, RowsCovered
    <2>2. CASE imp[j].pc \notin {"rows", "write"}
      BY <2>2 DEF Reads
    <2> QED BY <2>1, <2>2
  <1>3. PICK n \in Nat : n = Len(valid[j])
    BY <1>1
  <1>4. HasRead(j)'
    <2>1. CASE imp[j].pc \in {"store", "finish"}
      <3>1. target'[j] = target[j] /\ valid'[j] = valid[j]
        BY <2>1 DEF Judged, ImpAt
      <3>2. RowsCovered(j, n)'
        BY <1>r, <1>3, <2>1, <3>1, RowsStayCovered DEF HasRead
      <3> QED BY <1>r, <1>3, <2>1, <3>1, <3>2 DEF HasRead, Done, RowsCovered
    <2>2. CASE imp[j].pc \notin {"store", "finish"}
      BY <2>2 DEF HasRead
    <2> QED BY <2>1, <2>2
  <1>5. IsDone(j)'
    <2>1. CASE ijob'[j].status = "done"
      <3>1. target'[j] = target[j] /\ valid'[j] = valid[j] /\ ijob'[j] = ijob[j]
        BY <2>1 DEF Judged
      <3>2. RowsCovered(j, n)'
        BY <1>r, <1>3, <2>1, <3>1, RowsStayCovered DEF IsDone
      <3> QED BY <1>r, <1>3, <2>1, <3>1, <3>2 DEF IsDone, RowsCovered
    <2>2. CASE ijob'[j].status # "done"
      BY <2>2 DEF IsDone
    <2> QED BY <2>1, <2>2
  <1> QED BY <1>2, <1>4, <1>5

\* What an import has read stays so while it does not move.
LEMMA ReadingKept ==
    ASSUME Types, Grows, NEW j \in Imports, Reading(j), unclosed \subseteq unclosed',
           ijob'[j].status = "done" => ijob'[j] = ijob[j], imp'[j] = imp[j],
           Keeps, Judged(j)' => target'[j] = target[j] /\ (j \notin unclosed' => valid'[j] = valid[j])
    PROVE  Reading(j)'
  <1>0. /\ imp[j] \in Importers /\ (imp[j].pc = "write" => imp[j].source # <<>>)
        /\ valid[j] \in Seq(Emails)
    BY DEF Types, ImportTypes, ImpAt
  <1>1. Finds(j)'
    <2>1. CASE imp[j].pc = "write"
      <3>1. imp[j].source # <<>> /\ imp[j].source \in Seq(Emails)
        BY <1>0, <2>1 DEF Importers
      <3>2. PICK e \in Emails : e = Head(imp[j].source)
        BY <3>1
      <3>3. target'[j] = target[j]
        BY <2>1 DEF Judged, ImpAt
      <3>4. Covered(j, e) => Covered(j, e)'
        BY <3>3, CoveredStays
      <3>5. /\ imp[j].found # Absent /\ target[j] \in imp[j].found.in => Covered(j, e)
            /\ imp[j].found # Absent => e \in Present \/ imp[j].gone
            /\ imp[j].gone => e \in touched
        BY <2>1, <3>2 DEF Reading, Finds
      <3>6. touched \subseteq touched' /\ Present \subseteq Present'
        BY DEF Grows, Keeps
      <3>7. /\ imp'[j].found # Absent /\ target'[j] \in imp'[j].found.in => Covered(j, e)'
            /\ imp'[j].found # Absent => e \in Present' \/ imp'[j].gone
            /\ imp'[j].gone => e \in touched'
        BY <3>3, <3>4, <3>5, <3>6
      <3> QED BY <2>1, <3>2, <3>7 DEF Finds, Covered
    <2>2. CASE imp[j].pc # "write"
      BY <2>2 DEF Reading, Finds
    <2> QED BY <2>1, <2>2
  <1>2. ASSUME j \notin unclosed' PROVE Reads(j)' /\ HasRead(j)' /\ IsDone(j)'
    BY <1>2, RowsKept
  <1> QED BY <1>1, <1>2 DEF Reading

\* An import that is done with, or was not at work, has nothing left to read.
LEMMA DoneKept ==
    ASSUME Types, Grows, NEW j \in Imports, Reading(j), unclosed \subseteq unclosed',
           ijob'[j].status = "done" => ijob'[j] = ijob[j],
           Judged(j)' => target'[j] = target[j] /\ (j \notin unclosed' => valid'[j] = valid[j]),
           j \notin unclosed'
    PROVE  IsDone(j)'
  <1>1. CASE ijob'[j].status = "done"
    <2>1. target'[j] = target[j] /\ valid'[j] = valid[j] /\ ijob'[j] = ijob[j]
      BY <1>1 DEF Judged
    <2>2. PICK n \in Nat : n = Len(valid[j])
      BY DEF Types, ImportTypes
    <2>3. IsDone(j)
      BY DEF Reading
    <2>4. RowsCovered(j, n)'
      BY <1>1, <2>1, <2>2, <2>3, RowsStayCovered DEF IsDone
    <2> QED BY <1>1, <2>1, <2>2, <2>3, <2>4 DEF IsDone, RowsCovered
  <1>2. CASE ijob'[j].status # "done"
    BY <1>2 DEF IsDone
  <1> QED BY <1>1, <1>2

\* An import takes up the accepted rows, from the first.
LEMMA ReadingBegins ==
    ASSUME Types, Grows, NEW i \in Imports, Reading(i), TakeImport(i), ijob[i].status = "importing"
    PROVE  Reading(i)'
  <1>1. PICK source \in IF ValAt(i, "close") THEN Prefixes(valid[i]) ELSE {valid[i]} :
            imp' = [imp EXCEPT ![i] = [NoImp EXCEPT !.pc = "rows", !.source = source]]
    BY DEF TakeImport
  <1>2. /\ imp'[i].pc = "rows" /\ imp'[i].source = source /\ imp'[i].imported = 0 /\ imp'[i].skipped = 0
        /\ ~imp'[i].gone
    BY <1>1 DEF NoImp, Types, ImportTypes
  <1>3. UNCHANGED <<ijob, valid, target>> /\ (ValAt(i, "close") => i \in unclosed')
    BY DEF TakeImport, Types, ImportTypes
  <1>4. Finds(i)' /\ HasRead(i)' /\ IsDone(i)'
    <2>1. Finds(i)' /\ HasRead(i)'
      BY <1>2 DEF Finds, HasRead
    <2>2. ijob'[i].status # "done"
      BY <1>3
    <2> QED BY <2>1, <2>2 DEF IsDone
  <1>5. ASSUME i \notin unclosed' PROVE Reads(i)'
    <2>1. source = valid[i] /\ valid[i] \in Seq(Emails)
      BY <1>1, <1>3, <1>5 DEF Types, ImportTypes
    <2>2. Done(i)' = 0
      BY <1>2 DEF Done
    <2> QED BY <1>2, <1>3, <2>1, <2>2 DEF Reads, RowsCovered
  <1> QED BY <1>4, <1>5 DEF Reading

\* A row is looked up.
LEMMA ReadingFinds ==
    ASSUME Types, NoGhosts, Grows, NEW i \in Imports, Reading(i), FindRow(i)
    PROVE  Reading(i)'
  <1>0. /\ imp[i] \in Importers /\ imp \in [Imports -> Importers] /\ imp[i].pc = "rows"
        /\ imp[i].source \in Seq(Emails) /\ imp[i].source # <<>>
    BY DEF Types, ImportTypes, FindRow, ImpAt, Importers
  <1>1. PICK e \in Emails : e = Head(imp[i].source)
    BY <1>0
  <1>2. /\ imp'[i].pc = "write" /\ imp'[i].source = imp[i].source /\ imp'[i].found = contact[e]
        /\ imp'[i].gone = imp[i].gone /\ imp'[i].imported = imp[i].imported /\ imp'[i].skipped = imp[i].skipped
    BY <1>0, <1>1 DEF FindRow, Importers
  <1>3. UNCHANGED <<ijob, valid, target, contact, touched, raced, unclosed>>
    BY DEF FindRow, keepContacts, contactVars, documents, contactHistory, importHistory
  <1>4. Finds(i)'
    <2>1. contact[e] # Absent => e \in Present
      BY DEF NoGhosts
    <2>2. ~imp[i].gone
      BY <1>0 DEF Reading, Finds
    <2>3. target[i] \in contact[e].in => Covered(i, e)'
      BY <1>3 DEF Covered
    <2>4. Present' = Present
      BY <1>3 DEF Present
    <2>5. imp'[i].pc = "write" /\ e = Head(imp'[i].source) /\ imp'[i].found = contact[e] /\ ~imp'[i].gone
      BY <1>1, <1>2, <2>2
    <2> QED BY <1>3, <2>1, <2>3, <2>4, <2>5 DEF Finds, Covered
  <1>5. ASSUME i \notin unclosed' PROVE Reads(i)' /\ HasRead(i)' /\ IsDone(i)'
    <2>0. Reads(i) /\ IsDone(i)
      BY <1>3, <1>5 DEF Reading
    <2>1. Done(i)' = Done(i)
      BY <1>2 DEF Done
    <2>2. \A n : RowsCovered(i, n)' <=> RowsCovered(i, n)
      BY <1>3 DEF RowsCovered, Covered
    <2>3. Reads(i)'
      BY <1>0, <1>2, <1>3, <2>0, <2>1, <2>2 DEF Reads, RowsCovered
    <2>4. HasRead(i)'
      BY <1>2 DEF HasRead
    <2>5. IsDone(i)'
      BY <1>3, <2>0, <2>2 DEF IsDone, RowsCovered, Covered
    <2> QED BY <2>3, <2>4, <2>5
  <1> QED BY <1>4, <1>5 DEF Reading

\* A row is written, and covered from then on.
LEMMA ReadingWrites ==
    ASSUME Types, NoGhosts, Grows, NEW i \in Imports, Reading(i), WriteRow(i), Judged(i)'
    PROVE  Reading(i)'
  <1>0. /\ imp[i] \in Importers /\ imp \in [Imports -> Importers] /\ imp[i].pc = "write"
        /\ imp[i].source \in Seq(Emails) /\ imp[i].source # <<>> /\ valid[i] \in Seq(Emails)
        /\ imp[i].imported \in Nat /\ imp[i].skipped \in Nat
    BY DEF Types, ImportTypes, WriteRow, ImpAt, Importers
  <1>1. PICK e \in Emails : e = Head(imp[i].source)
    BY <1>0
  <1>2. Covered(i, e)'
    BY <1>1, RowWritten DEF Reading
  <1>3. PICK a1 \in {0, 1}, a2 \in {0, 1} : Wrote(i, a1, a2) /\ a1 + a2 = 1
    BY DEF WriteRow, LinkRow, SkipRow, InsertRow
  <1>4. /\ imp'[i].pc = "rows" /\ imp'[i].source = Tail(imp[i].source) /\ ~imp'[i].gone
        /\ imp'[i].imported = imp[i].imported + a1 /\ imp'[i].skipped = imp[i].skipped + a2
    <2> DEFINE m == [imp[i] EXCEPT !.pc = "rows", !.source = Tail(imp[i].source), !.found = Absent,
                          !.gone = FALSE, !.imported = imp[i].imported + a1, !.skipped = imp[i].skipped + a2]
    <2>1. /\ m.pc = "rows" /\ m.source = Tail(imp[i].source) /\ ~m.gone
          /\ m.imported = imp[i].imported + a1 /\ m.skipped = imp[i].skipped + a2
      BY <1>0 DEF Importers
    <2>2. imp' = [imp EXCEPT ![i] = m]
      BY <1>3 DEF Wrote
    <2> HIDE DEF m
    <2> QED BY <1>0, <2>1, <2>2
  <1>5. UNCHANGED <<ijob, valid, target, unclosed>>
    BY DEF WriteRow
  <1>6. Done(i)' = Done(i) + 1 /\ Done(i) \in Nat
    <2>1. PICK x \in Nat, y \in Nat : x = imp[i].imported /\ y = imp[i].skipped
      BY <1>0
    <2>2. (x + a1) + (y + a2) = (x + y) + 1 /\ x + y \in Nat
      BY <1>3
    <2>3. Done(i) = x + y /\ Done(i)' = (x + a1) + (y + a2)
      BY <1>4, <2>1 DEF Done
    <2> QED BY <2>2, <2>3
  <1>7. Finds(i)' /\ HasRead(i)'
    BY <1>4 DEF Finds, HasRead
  <1>8. ASSUME i \notin unclosed' PROVE Reads(i)' /\ IsDone(i)'
    <2>1. Reads(i)
      BY <1>5, <1>8 DEF Reading
    <2>2. /\ Done(i) + Len(imp[i].source) = Len(valid[i]) /\ RowsCovered(i, Done(i))
          /\ \A m \in 1..Len(imp[i].source) : imp[i].source[m] = valid[i][Done(i) + m]
      BY <1>0, <2>1 DEF Reads
    <2>3. /\ Len(imp[i].source) \in Nat \ {0} /\ Len(valid[i]) \in Nat
          /\ Len(Tail(imp[i].source)) = Len(imp[i].source) - 1 /\ e = imp[i].source[1]
          /\ \A m \in 1..(Len(imp[i].source) - 1) : Tail(imp[i].source)[m] = imp[i].source[m + 1]
      BY <1>0, <1>1
    <2>4. PICK n \in Nat : n = Done(i)
      BY <1>6
    <2>5. RowsCovered(i, n)'
      BY <1>5, <2>2, <2>3, <2>4, RowsStayCovered
    <2>6. e = valid'[i][n + 1]
      <3>1. 1 \in 1..Len(imp[i].source)
        BY <2>3
      <3> QED BY <1>5, <2>2, <2>3, <2>4, <3>1
    <2>7. RowsCovered(i, n + 1)'
      <3> SUFFICES ASSUME NEW m \in 1..(n + 1) PROVE Covered(i, valid[i][m])'
        BY DEF RowsCovered
      <3>1. CASE m \in 1..n
        BY <2>5, <3>1 DEF RowsCovered
      <3>2. CASE m = n + 1
        BY <1>2, <2>6, <3>2 DEF Covered
      <3> QED BY <2>4, <3>1, <3>2
    <2>8. \A m \in 1..(Len(imp[i].source) - 1) : Tail(imp[i].source)[m] = valid[i][(n + 1) + m]
      <3> SUFFICES ASSUME NEW m \in 1..(Len(imp[i].source) - 1)
                   PROVE  Tail(imp[i].source)[m] = valid[i][(n + 1) + m]
        OBVIOUS
      <3>1. m + 1 \in 1..Len(imp[i].source) /\ n + (m + 1) = (n + 1) + m
        <4>1. PICK k \in Nat : k = Len(imp[i].source)
          BY <2>3
        <4>2. m \in 1..(k - 1) => m + 1 \in 1..k /\ n + (m + 1) = (n + 1) + m
          BY <4>1
        <4> QED BY <4>1, <4>2
      <3> QED BY <2>2, <2>3, <2>4, <3>1
    <2>9. Reads(i)'
      <3>1. Done(i)' = n + 1 /\ Len(imp'[i].source) = Len(imp[i].source) - 1 /\ valid'[i] = valid[i]
        BY <1>4, <1>5, <1>6, <2>3, <2>4
      <3>2. (n + 1) + Len(imp'[i].source) = Len(valid[i])
        BY <2>2, <2>3, <2>4, <3>1
      <3> QED BY <1>4, <2>7, <2>8, <3>1, <3>2 DEF Reads, RowsCovered
    <2>10. IsDone(i)'
      BY <1>5, <1>8, DoneKept
    <2> QED BY <2>9, <2>10
  <1> QED BY <1>7, <1>8 DEF Reading

\* An import that has read all its rows counts, or stops.
LEMMA ReadingEnds ==
    ASSUME Types, Grows, NEW i \in Imports, Reading(i), StopImport(i) \/ CountTarget(i) \/ StoreTarget(i)
    PROVE  Reading(i)'
  <1>0. /\ imp[i] \in Importers /\ imp \in [Imports -> Importers] /\ ijob \in [Imports -> Docs]
        /\ imp[i].source \in Seq(Emails) /\ valid[i] \in Seq(Emails)
        /\ imp[i].imported \in Nat /\ imp[i].skipped \in Nat
    BY DEF Types, ImportTypes, Importers
  <1>1. UNCHANGED <<valid, target, unclosed>> /\ (ijob'[i].status = "done" => ijob'[i] = ijob[i])
    BY <1>0 DEF StopImport, CountTarget, StoreTarget, importHistory, Docs
  <1>2. UNCHANGED <<contact, touched, raced>>
    BY DEF StopImport, CountTarget, StoreTarget, keepContacts, contactVars, documents, contactHistory, importHistory
  <1>3. /\ imp'[i].pc # "idle" => imp'[i].imported = imp[i].imported /\ imp'[i].skipped = imp[i].skipped
        /\ imp'[i].pc \in {"idle", "countCanceled", "store", "storeCanceled", "finish"}
        /\ imp'[i].pc = "store" => imp[i].pc = "rows" /\ imp[i].source = <<>>
        /\ imp'[i].pc = "finish" => imp[i].pc = "store"
    <2>1. CASE StopImport(i)
      BY <1>0, <2>1 DEF StopImport, Importers
    <2>2. CASE CountTarget(i)
      BY <1>0, <2>2 DEF CountTarget, Importers, ImpAt
    <2>3. CASE StoreTarget(i)
      BY <1>0, <2>3 DEF StoreTarget, Importers, ImpAt, NoImp
    <2> QED BY <2>1, <2>2, <2>3
  <1>4. Finds(i)'
    BY <1>3 DEF Finds
  <1>5. ASSUME i \notin unclosed' PROVE Reads(i)' /\ HasRead(i)' /\ IsDone(i)'
    <2>0. Reads(i) /\ HasRead(i)
      BY <1>1, <1>5 DEF Reading
    <2>1. Reads(i)'
      BY <1>3 DEF Reads
    <2>2. \A n : RowsCovered(i, n)' <=> RowsCovered(i, n)
      BY <1>1, <1>2 DEF RowsCovered, Covered
    <2>3. HasRead(i)'
      <3>1. CASE imp'[i].pc = "store"
        <4>1. Done(i) = Len(valid[i]) /\ RowsCovered(i, Len(valid[i]))
          BY <1>0, <1>3, <2>0, <3>1 DEF Reads, Done
        <4> QED BY <1>1, <1>3, <2>2, <3>1, <4>1 DEF HasRead, Done, RowsCovered
      <3>2. CASE imp'[i].pc = "finish"
        <4>1. Done(i) = Len(valid[i]) /\ RowsCovered(i, Len(valid[i]))
          BY <1>3, <2>0, <3>2 DEF HasRead
        <4> QED BY <1>1, <1>3, <2>2, <3>2, <4>1 DEF HasRead, Done, RowsCovered
      <3>3. CASE imp'[i].pc \notin {"store", "finish"}
        BY <3>3 DEF HasRead
      <3> QED BY <3>1, <3>2, <3>3
    <2>4. IsDone(i)'
      BY <1>1, <1>5, DoneKept
    <2> QED BY <2>1, <2>3, <2>4
  <1> QED BY <1>4, <1>5 DEF Reading

\* An import says done, with every accepted row behind it.
LEMMA ReadingFinishes ==
    ASSUME Types, VerdictInv, NEW i \in Imports, Reading(i), FinishImport(i)
    PROVE  Reading(i)'
  <1>0. imp \in [Imports -> Importers] /\ ijob \in [Imports -> Docs] /\ imp[i].pc = "finish"
    BY DEF Types, ImportTypes, FinishImport, ImpAt
  <1>1. UNCHANGED <<valid, target, unclosed, contact, touched, raced>> /\ imp'[i].pc = "idle"
    BY <1>0 DEF FinishImport, importHistory, keepContacts, contactVars, documents, contactHistory, NoImp
  <1>2. /\ ijob'[i].imported = imp[i].imported /\ ijob'[i].skipped = imp[i].skipped
        /\ ijob'[i].counters = ijob[i].counters
    BY <1>0 DEF FinishImport, Docs
  <1>3. ASSUME i \notin unclosed' PROVE IsDone(i)'
    <2>1. Done(i) = Len(valid[i]) /\ RowsCovered(i, Len(valid[i]))
      BY <1>0, <1>1, <1>3 DEF Reading, HasRead
    <2>2. Len(valid[i]) = ijob[i].counters.accepted
      BY <1>0, <1>1, <1>3 DEF VerdictInv, Judged, VerdictStands, ImpAt
    <2> QED BY <1>1, <1>2, <2>1, <2>2 DEF IsDone, Done, RowsCovered, Covered
  <1> QED BY <1>1, <1>3 DEF Reading, Finds, Reads, HasRead

\* A request of the panel next to an import.
LEMMA ReadingAside ==
    ASSUME Types, Grows, NEW j \in Imports, Reading(j), ClerkRequests,
           Judged(j)' => target'[j] = target[j] /\ (j \notin unclosed' => valid'[j] = valid[j])
    PROVE  Reading(j)'
  <1> DEFINE away == ImpAt(j, "write") /\ imp[j].found # Absent
                     /\ Head(imp[j].source) \notin {e \in Emails : contact'[e].exists}
             gone == imp[j].gone \/ away
  <1>0. imp[j] \in Importers
    BY DEF Types, ImportTypes
  <1>1. /\ imp'[j] = [imp[j] EXCEPT !.gone = gone]
        /\ UNCHANGED <<ijob, target, unclosed>>
    BY DEF ClerkRequests, importHistory
  <1>2. gone \in BOOLEAN
    BY <1>0 DEF Importers
  <1> HIDE DEF gone
  <1>3. /\ imp'[j].pc = imp[j].pc /\ imp'[j].source = imp[j].source /\ imp'[j].found = imp[j].found
        /\ imp'[j].imported = imp[j].imported /\ imp'[j].skipped = imp[j].skipped /\ imp'[j].gone = gone
    BY <1>0, <1>1, <1>2 DEF Importers
  <1>4. j \notin unclosed' => Reads(j)' /\ HasRead(j)' /\ IsDone(j)'
    BY <1>1, <1>3, RowsKept
  <1>5. CASE imp[j].pc # "write"
    <2>1. imp[j].pc = "rows" => ~imp'[j].gone
      BY <1>3, <1>5 DEF Reading, Finds, gone, ImpAt
    <2> QED BY <1>3, <1>4, <1>5, <2>1 DEF Reading, Finds
  <1>6. CASE imp[j].pc = "write"
    <2>1. imp[j].source # <<>> /\ imp[j].source \in Seq(Emails)
      BY <1>0, <1>6 DEF Types, ImportTypes, ImpAt, Importers
    <2>2. PICK e \in Emails : e = Head(imp[j].source)
      BY <2>1
    <2>3. /\ imp[j].found # Absent /\ target[j] \in imp[j].found.in => Covered(j, e)
          /\ imp[j].found # Absent => e \in Present \/ imp[j].gone
          /\ imp[j].gone => e \in touched
      BY <1>6, <2>2 DEF Reading, Finds
    <2>4. Covered(j, e) => Covered(j, e)'
      BY <1>1, CoveredStays
    <2>5. gone <=> imp[j].gone \/ (imp[j].found # Absent /\ ~contact'[e].exists)
      BY <1>6, <2>2 DEF gone, ImpAt
    <2>6. e \in touched => e \in touched'
      BY DEF Grows
    <2>7. e \notin touched' /\ contact[e].exists => contact'[e].exists
      BY DEF Grows
    <2>8. /\ imp[j].found # Absent /\ target[j] \in imp[j].found.in => Covered(j, e)'
          /\ imp[j].found # Absent => e \in Present' \/ gone
          /\ gone => e \in touched'
      BY <2>3, <2>4, <2>5, <2>6, <2>7 DEF Present
    <2> QED BY <1>1, <1>3, <1>4, <1>6, <2>2, <2>8 DEF Reading, Finds, Covered
  <1> QED BY <1>5, <1>6

\* A document that says done is as it was.
DoneSame(j) == ijob'[j].status = "done" => ijob'[j] = ijob[j]

\* Only the end of an import says done, and nothing closes a file that was read too early.
LEMMA OnlyFinish ==
    ASSUME Types, [Next]_vars, NEW j \in Imports
    PROVE  /\ unclosed \subseteq unclosed'
           /\ FinishImport(j) \/ DoneSame(j)
  <1>0. /\ ijob \in [Imports -> Docs] /\ unclosed \subseteq Imports /\ user \in [Users -> Askers]
        /\ \A u \in Users : user[u].pc # "idle" => user[u].status \in {"importing", "canceled"}
    BY DEF Types, ImportTypes, Askers
  <1>1. unclosed \subseteq unclosed'
    <2>1. CASE JobSteps
      BY <2>1 DEF JobSteps, TakeValidation, BeginValidation, ClassifyRow, FinishValidation, CloseFiles,
         TakeImport, FindRow, WriteRow, CountTarget, StoreTarget, FinishImport, importHistory
    <2>2. CASE RequestSteps \/ Asks \/ RequestDies
      BY <2>2 DEF RequestSteps, Asks, RequestDies, EnqueueValidation, SaveRequest, EnqueueImport, Create,
         Expire, AskConfirm, AskCancel, importHistory
    <2>3. CASE \/ \E i \in Imports : StopValidation(i) \/ StopImport(i)
               \/ \E i \in Imports, a \in Actions : JobFails(i, a) \/ WorkerDies(i, a)
      BY <2>3 DEF StopValidation, StopImport, JobFails, WorkerDies, importHistory
    <2>4. CASE ClerkRequests \/ UNCHANGED vars
      BY <2>4 DEF ClerkRequests, vars, importVars, importHistory
    <2> QED BY <2>1, <2>2, <2>3, <2>4 DEF Next
  <1>2. ASSUME NEW i \in Imports, NEW d, ijob' = [ijob EXCEPT ![i] = d], j = i => d.status # "done"
        PROVE  DoneSame(j)
    BY <1>0, <1>2 DEF DoneSame
  <1>3. ASSUME UNCHANGED ijob PROVE DoneSame(j)
    BY <1>3 DEF DoneSame
  <1>4. ASSUME NEW i \in Imports, BeginValidation(i) \/ FinishValidation(i)
        PROVE  DoneSame(j)
    <2>1. PICK c : \E w \in {"validating", "validated"} : ijob' = [ijob EXCEPT ![i].status = w, ![i].counters = c]
      BY <1>4 DEF BeginValidation, FinishValidation
    <2>2. PICK w \in {"validating", "validated"} : ijob' = [ijob EXCEPT ![i].status = w, ![i].counters = c]
      BY <2>1
    <2>3. [ijob[i] EXCEPT !.status = w, !.counters = c].status # "done"
      BY <1>0 DEF Docs
    <2> QED BY <1>2, <2>2, <2>3
  <1>5. ASSUME NEW i \in Imports, FinishImport(i)
        PROVE  FinishImport(j) \/ DoneSame(j)
    <2>1. CASE j = i
      BY <1>5, <2>1
    <2>2. CASE j # i
      BY <1>0, <1>5, <2>2 DEF FinishImport, DoneSame
    <2> QED BY <2>1, <2>2
  <1>6. ASSUME NEW i \in Imports, NEW w \in Statuses, w # "done", ijob' = [ijob EXCEPT ![i].status = w]
        PROVE  DoneSame(j)
    <2>1. [ijob[i] EXCEPT !.status = w].status # "done"
      BY <1>0, <1>6 DEF Docs
    <2> QED BY <1>2, <1>6, <2>1
  <1>7. ASSUME NEW u \in Users, SaveRequest(u)
        PROVE  DoneSame(j)
    <2>1. user[u].i \in Imports /\ user[u].status \in {"importing", "canceled"}
      BY <1>0, <1>7 DEF SaveRequest, Types, ImportTypes
    <2> QED BY <1>6, <1>7, <2>1 DEF SaveRequest, Statuses, Ongoing, Settled
  <1>8. ASSUME NEW i \in Imports, Create(i) \/ Expire(i)
        PROVE  DoneSame(j)
    <2>1. CASE Create(i)
      BY <1>6, <2>1 DEF Create, Statuses, Ongoing
    <2>2. CASE Expire(i)
      BY <1>2, <2>2 DEF Expire, NoJob
    <2> QED BY <1>8, <2>1, <2>2
  <1>9. ASSUME NEW i \in Imports, StopImport(i)
        PROVE  DoneSame(j)
    <2>1. [ijob[i] EXCEPT !.imported = imp[i].imported, !.skipped = imp[i].skipped].status = "canceled"
      BY <1>0, <1>9 DEF StopImport, Docs
    <2> QED BY <1>2, <1>9, <2>1 DEF StopImport
  <1>10. ASSUME NEW i \in Imports, NEW a \in Actions, JobFails(i, a)
         PROVE  DoneSame(j)
    <2>1. CASE ijob' = ijob
      BY <1>3, <2>1
    <2>2. CASE ijob' = [ijob EXCEPT ![i].status = "failed"]
      BY <1>6, <2>2 DEF Statuses, Settled
    <2> QED BY <1>10, <2>1, <2>2 DEF JobFails
  <1>11. CASE JobSteps
    BY <1>1, <1>3, <1>4, <1>5, <1>11 DEF JobSteps, TakeValidation, ClassifyRow, CloseFiles, TakeImport, FindRow, WriteRow,
       CountTarget, StoreTarget
  <1>12. CASE RequestSteps \/ Asks \/ RequestDies
    BY <1>1, <1>3, <1>7, <1>8, <1>12 DEF RequestSteps, Asks, RequestDies, EnqueueValidation, EnqueueImport,
       AskConfirm, AskCancel
  <1>13. CASE \E i \in Imports : StopValidation(i) \/ StopImport(i)
    BY <1>1, <1>3, <1>9, <1>13 DEF StopValidation
  <1>14. CASE \E i \in Imports, a \in Actions : JobFails(i, a) \/ WorkerDies(i, a)
    BY <1>1, <1>3, <1>10, <1>14 DEF WorkerDies
  <1>15. CASE ClerkRequests \/ UNCHANGED vars
    BY <1>1, <1>3, <1>15 DEF ClerkRequests, vars, importVars
  <1>16. FinishImport(j) \/ DoneSame(j)
    BY <1>11, <1>12, <1>13, <1>14, <1>15 DEF Next
  <1> QED BY <1>1, <1>16

\* Which imports a step moves.
Moves(j) ==
    \/ TakeImport(j) /\ ijob[j].status = "importing"
    \/ FindRow(j) \/ WriteRow(j) \/ StopImport(j) \/ CountTarget(j) \/ StoreTarget(j) \/ FinishImport(j)
    \/ JobFails(j, "import") \/ WorkerDies(j, "import")

\* No step but those moves an import, apart from the requests of the panel.
LEMMA OnlyMoves ==
    ASSUME Types, [Next]_vars, NEW j \in Imports, imp'[j] # imp[j]
    PROVE  Moves(j) \/ ClerkRequests
  <1>0. imp \in [Imports -> Importers]
    BY DEF Types, ImportTypes
  <1>1. CASE JobSteps
    <2> SUFFICES ASSUME NEW i \in Imports,
               \/ TakeValidation(i) \/ BeginValidation(i) \/ ClassifyRow(i) \/ FinishValidation(i) \/ CloseFiles(i)
               \/ TakeImport(i) \/ FindRow(i) \/ WriteRow(i) \/ CountTarget(i) \/ StoreTarget(i) \/ FinishImport(i)
             PROVE  Moves(j)
      BY <1>1 DEF JobSteps
    <2>1. CASE TakeValidation(i) \/ BeginValidation(i) \/ ClassifyRow(i) \/ FinishValidation(i) \/ CloseFiles(i)
      BY <2>1 DEF TakeValidation, BeginValidation, ClassifyRow, FinishValidation, CloseFiles
    <2>2. CASE TakeImport(i)
      BY <1>0, <2>2 DEF TakeImport, Moves
    <2>3. CASE FindRow(i) \/ CountTarget(i) \/ StoreTarget(i) \/ FinishImport(i)
      BY <1>0, <2>3 DEF FindRow, CountTarget, StoreTarget, FinishImport, Moves
    <2>4. CASE WriteRow(i)
      BY <1>0, <2>4 DEF WriteRow, LinkRow, SkipRow, InsertRow, Wrote, Moves
    <2> QED BY <2>1, <2>2, <2>3, <2>4
  <1>2. CASE RequestSteps \/ Asks \/ RequestDies
    BY <1>2 DEF RequestSteps, Asks, RequestDies, EnqueueValidation, SaveRequest, EnqueueImport, Create,
       Expire, AskConfirm, AskCancel
  <1>3. ASSUME NEW i \in Imports, StopValidation(i) \/ StopImport(i)
        PROVE  Moves(j)
    BY <1>0, <1>3 DEF StopValidation, StopImport, Moves
  <1>4. ASSUME NEW i \in Imports, NEW a \in Actions, JobFails(i, a) \/ WorkerDies(i, a)
        PROVE  Moves(j)
    BY <1>0, <1>4 DEF JobFails, WorkerDies, Stops, Actions, Moves
  <1>5. CASE UNCHANGED vars
    BY <1>5 DEF vars, importVars
  <1> QED BY <1>1, <1>2, <1>3, <1>4, <1>5 DEF Next

\* Every step keeps what the imports have read.
LEMMA CompleteStep ==
    ASSUME Types, JobsFit, VerdictInv, CompleteInv, [Next]_vars
    PROVE  CompleteInv'
  <1>0. NoGhosts /\ \A i \in Imports : Finds(i) /\ Reading(i)
    BY DEF CompleteInv, NoGhosts, Reading
  <1>1. Grows /\ NoGhosts' /\ (Keeps \/ ClerkRequests)
    BY <1>0, GrowsStep
  <1>2. ASSUME NEW j \in Imports PROVE Reading(j)'
    <2>0. Reading(j)
      BY <1>0
    <2>1. Judged(j)' => target'[j] = target[j] /\ (j \notin unclosed' => valid'[j] = valid[j])
      BY FileStays
    <2>2. unclosed \subseteq unclosed' /\ (FinishImport(j) \/ DoneSame(j))
      BY OnlyFinish
    <2>3. CASE ClerkRequests
      BY <1>1, <2>0, <2>1, <2>3, ReadingAside
    <2>4. CASE ~ClerkRequests /\ imp'[j] = imp[j] /\ ~FinishImport(j)
      BY <1>1, <2>0, <2>1, <2>2, <2>4, ReadingKept DEF DoneSame
    <2>5. CASE Moves(j)
      <3>0. imp \in [Imports -> Importers]
        BY DEF Types, ImportTypes
      <3>1. CASE TakeImport(j) /\ ijob[j].status = "importing"
        BY <1>1, <2>0, <3>1, ReadingBegins
      <3>2. CASE FindRow(j)
        BY <1>0, <1>1, <2>0, <3>2, ReadingFinds
      <3>3. CASE WriteRow(j)
        <4>1. imp'[j].pc = "rows"
          BY <3>0, <3>3 DEF WriteRow, LinkRow, SkipRow, InsertRow, Wrote, Importers
        <4> QED BY <1>0, <1>1, <2>0, <3>3, <4>1, ReadingWrites DEF Judged, ImpAt
      <3>4. CASE StopImport(j) \/ CountTarget(j) \/ StoreTarget(j)
        BY <1>1, <2>0, <3>4, ReadingEnds
      <3>5. CASE FinishImport(j)
        BY <2>0, <3>5, ReadingFinishes
      <3>6. CASE JobFails(j, "import") \/ WorkerDies(j, "import")
        <4>1. imp'[j].pc = "idle" /\ ~FinishImport(j)
          BY <3>0, <3>6 DEF JobFails, WorkerDies, Stops, NoImp, Trouble, Happens, FinishImport, keepContacts,
             contactVars, contactHistory, Types, ContactTypes
        <4>2. j \notin unclosed' => IsDone(j)'
          BY <1>1, <2>0, <2>1, <2>2, <4>1, DoneKept DEF DoneSame
        <4> QED BY <4>1, <4>2 DEF Reading, Finds, Reads, HasRead
      <3> QED BY <2>5, <3>1, <3>2, <3>3, <3>4, <3>5, <3>6 DEF Moves
    <2> QED BY <2>3, <2>4, <2>5, OnlyMoves DEF Moves
  <1> QED BY <1>1, <1>2 DEF CompleteInv, NoGhosts, Reading

\* An import that says done has every accepted row in its list (ImportComplete).
THEOREM DoneIsComplete == Spec => []ImportComplete
  <1> DEFINE Inv == Types /\ JobsFit /\ VerdictInv /\ CompleteInv
  <1>1. Init => Inv
    <2>1. Init => CompleteInv
      BY DEF Init, ContactsInit, CompleteInv, Finds, Reads, HasRead, IsDone, NoImp, NoJob, Present, Contact
    <2> QED BY <2>1, ImportAssumption, VerdictInit
  <1>2. Inv /\ [Next]_vars => Inv'
    BY ImportAssumption, TypesStep, JobsFitStep, VerdictStep, CompleteStep
  <1>3. Inv => ImportComplete
    <2> SUFFICES ASSUME Inv, NEW i \in Imports \ unclosed, ijob[i].status = "done"
                 PROVE  /\ ijob[i].imported + ijob[i].skipped = ijob[i].counters.accepted
                        /\ \A n \in DOMAIN valid[i] : Covered(i, valid[i][n])
      BY DEF ImportComplete, Covered
    <2>1. IsDone(i)
      BY DEF CompleteInv
    <2>2. valid[i] \in Seq(Emails)
      BY DEF Types, ImportTypes
    <2> QED BY <2>1, <2>2 DEF IsDone, RowsCovered
  <1> QED BY <1>1, <1>2, <1>3, PTL DEF Spec
-----------------------------------------------------------------------------
(* The counts.                                                              *)
\* The sizes of the lists whose contacts stay as they are.
LEMMA SizeKept ==
    ASSUME NEW ls, \A l \in lists : l \notin ls =>
                     \A e \in Emails : (contact'[e].exists /\ l \in contact'[e].in) <=> (contact[e].exists /\ l \in contact[e].in)
    PROVE  \A l \in lists : l \notin ls => Size(l)' = Size(l)
  <1> SUFFICES ASSUME NEW l \in lists, l \notin ls PROVE Size(l)' = Size(l)
    OBVIOUS
  <1>1. Members(l)' = Members(l)
    BY DEF Members, Present
  <1> QED BY <1>1 DEF Size

\* Where contacts stay, so do the sizes.
LEMMA SizeSame ==
    ASSUME UNCHANGED contact
    PROVE  \A l : Size(l)' = Size(l)
  <1> TAKE l
  <1>1. Members(l)' = Members(l)
    BY DEF Members, Present
  <1> QED BY <1>1 DEF Size

\* A step of one clerk, when nobody else is under way.
LEMMA ClerkAlone ==
    ASSUME op \in [Clerks -> Ops], NEW k \in Clerks, NEW o,
           \A other \in Clerks \ {k} : ~Busy(other), ~ImportBusy,
           UNCHANGED queue, op' = [op EXCEPT ![k] = o],
           IF o.pc = "idle" THEN OnlyOff({})' ELSE ClerkCounts(o)'
    PROVE  CalmInv'
  <1>1. /\ \A other \in Clerks \ {k} : ~Busy(other)'
        /\ \A i \in Imports : ~Importing(i)'
        /\ Busy(k)' <=> o.pc # "idle"
        /\ op'[k] = o
    BY DEF Busy, OpAt, Importing, ImportBusy, InQueue
  <1>2. OneActor'
    BY <1>1 DEF OneActor
  <1>3. \A j \in Clerks : Busy(j)' => ClerkCounts(op[j])'
    BY <1>1 DEF ClerkCounts
  <1>4. AtRest' => OnlyOff({})'
    BY <1>1 DEF AtRest, Busy
  <1> QED BY <1>1, <1>2, <1>3, <1>4 DEF CalmInv

\* A step of one import, when nobody else is under way.
LEMMA ImportAlone ==
    ASSUME imp \in [Imports -> Importers], NEW i \in Imports, NEW x, NEW l,
           \A k \in Clerks : ~Busy(k), \A j \in Imports \ {i} : ~Importing(j)',
           UNCHANGED op, imp'[i] = x, target'[i] = l,
           IF Importing(i)' THEN ImportCounts(x, l)' ELSE OnlyOff({})'
    PROVE  CalmInv'
  <1>1. \A k \in Clerks : ~Busy(k)'
    BY DEF Busy, OpAt
  <1>2. OneActor'
    BY <1>1 DEF OneActor
  <1>3. \A j \in Imports : Importing(j)' => ImportCounts(imp[j], target[j])'
    BY DEF ImportCounts
  <1>4. AtRest' => OnlyOff({})'
    BY DEF AtRest, ImportBusy, Importing
  <1> QED BY <1>1, <1>2, <1>3, <1>4 DEF CalmInv

\* A step that counts nothing and writes nothing that is counted.
LEMMA CalmKept ==
    ASSUME CalmInv, UNCHANGED <<contact, lists, count, op, imp>>,
           \A i \in Imports : (Importing(i)' <=> Importing(i)) /\ (Importing(i) => target'[i] = target[i])
    PROVE  CalmInv'
  <1>0. \A l : Size(l)' = Size(l)
    BY SizeSame
  <1>1. \A k \in Clerks : Busy(k)' <=> Busy(k)
    BY DEF Busy, OpAt
  <1>2. OneActor'
    BY <1>1 DEF OneActor, CalmInv
  <1>3. \A k \in Clerks : Busy(k)' => ClerkCounts(op[k])'
    BY <1>0, <1>1 DEF CalmInv, ClerkCounts, OnlyOff, RightAfter
  <1>4. \A j \in Imports : Importing(j)' => ImportCounts(imp[j], target[j])'
    BY <1>0 DEF CalmInv, ImportCounts, OnlyOff, RightAfter
  <1>5. AtRest' => AtRest
    BY <1>1 DEF AtRest, Busy, ImportBusy, Importing
  <1>6. AtRest' => OnlyOff({})'
    BY <1>0, <1>5 DEF CalmInv, OnlyOff
  <1> QED BY <1>2, <1>3, <1>4, <1>6 DEF CalmInv

\* What is counted is right, and right once it is stored.
LEMMA CountThenStore ==
    ASSUME UNCHANGED contact, lists \subseteq Lists
    PROVE  /\ \A ls : OnlyOff(ls) /\ UNCHANGED <<lists, count>> => \A c : c = Counted(ls) => RightAfter(c)'
           /\ \A c : RightAfter(c) /\ UNCHANGED lists /\ count' = Stored(c) => OnlyOff({})'
           /\ OnlyOff(Wrong)
  <1>0. \A l : Size(l)' = Size(l)
    BY SizeSame
  <1>1. ASSUME NEW ls, OnlyOff(ls), UNCHANGED <<lists, count>>, NEW c, c = Counted(ls)
        PROVE  RightAfter(c)'
    <2>1. DOMAIN c = ls /\ \A l \in ls : c[l] = Size(l)
      BY <1>1 DEF Counted, Size
    <2> QED BY <1>0, <1>1, <2>1 DEF OnlyOff, RightAfter
  <1>2. ASSUME NEW c, RightAfter(c), UNCHANGED lists, count' = Stored(c)
        PROVE  OnlyOff({})'
    BY <1>0, <1>2 DEF OnlyOff, RightAfter, Stored
  <1>3. OnlyOff(Wrong)
    BY DEF OnlyOff, Wrong, Size
  <1> QED BY <1>1, <1>2, <1>3
\* A step of a request.
LEMMA ClerkStepCounts ==
    ASSUME Types, CalmInv, NEW k \in Clerks, ClerkSteps(k), UNCHANGED queue
    PROVE  CalmInv'
  <1>0. /\ op \in [Clerks -> Ops] /\ op[k].emails \subseteq Emails /\ lists \subseteq Lists
        /\ contact \in [Emails -> Listings] /\ op[k].counted \in Counts
        /\ op[k].pc = "write" /\ op[k].kind \in {"create", "update"} => op[k].emails # {}
    BY DEF Types, ContactTypes, Ops, OpRecords
  <1>1. Busy(k)
    BY DEF ClerkSteps, CountLists, StoreCounts, WriteChange, DropList, OpAt, Busy
  <1>2. (\A other \in Clerks \ {k} : ~Busy(other)) /\ ~ImportBusy
    BY <1>1 DEF CalmInv, OneActor, ImportBusy, Importing
  <1>3. ClerkCounts(op[k])
    BY <1>1 DEF CalmInv
  <1>4. NoOp.pc = "idle"
    BY DEF NoOp, Op
  <1>5. CASE CountLists(k)
    <2>0. UNCHANGED <<contact, lists, count>> /\ op[k].pc = "count"
      BY <1>5 DEF CountLists, documents, OpAt
    <2>4. PICK ls : ls = IF op[k].kind = "resync" THEN Wrong ELSE op[k].sync
      OBVIOUS
    <2>5. PICK c : c = Counted(ls)
      OBVIOUS
    <2>6. PICK o : o = [NoOp EXCEPT !.pc = "store", !.counted = c]
      OBVIOUS
    <2>7. OnlyOff(ls)
      BY <1>0, <1>3, <2>0, <2>4, CountThenStore DEF ClerkCounts
    <2>1. RightAfter(c)'
      BY <1>0, <2>0, <2>5, <2>7, CountThenStore
    <2>2. o.pc = "store" /\ o.counted = c
      BY <2>6 DEF NoOp, Op
    <2>3. op' = [op EXCEPT ![k] = o]
      BY <1>5, <2>4, <2>5, <2>6 DEF CountLists, Becomes
    <2> QED BY <1>0, <1>2, <2>1, <2>2, <2>3, ClerkAlone DEF ClerkCounts
  <1>6. CASE StoreCounts(k)
    <2>1. OnlyOff({})'
      BY <1>0, <1>3, <1>6, CountThenStore DEF StoreCounts, ClerkCounts, OpAt
    <2> QED BY <1>0, <1>2, <1>4, <1>6, <2>1, ClerkAlone DEF StoreCounts, Return, Becomes
  <1>7. CASE DropList(k)
    <2>1. OnlyOff({})'
      <3>1. \A l : Size(l)' = Size(l)
        BY <1>7, SizeSame DEF DropList
      <3> QED BY <1>3, <1>7, <3>1 DEF DropList, ClerkCounts, OpAt, OnlyOff
    <2> QED BY <1>0, <1>2, <1>4, <1>7, <2>1, ClerkAlone DEF DropList, Return, Becomes
  <1>8. CASE WriteChange(k)
    <2>0. op[k].pc = "write" /\ OnlyOff({}) /\ UNCHANGED <<lists, count>>
      BY <1>3, <1>8 DEF WriteChange, ClerkCounts, OpAt
    <2>1. ASSUME op' = [op EXCEPT ![k] = NoOp], UNCHANGED contact
          PROVE  CalmInv'
      <3>1. OnlyOff({})'
        BY <2>0, <2>1, SizeSame DEF OnlyOff
      <3> QED BY <1>0, <1>2, <1>4, <2>1, <3>1, ClerkAlone
    <2>2. ASSUME NEW ls, ls = op[k].sync,
                 \A l \in lists : l \notin ls =>
                   \A e \in Emails : (contact'[e].exists /\ l \in contact'[e].in) <=> (contact[e].exists /\ l \in contact[e].in),
                 op' = [op EXCEPT ![k] = Op("count", "update", {}, {}, ls)]
          PROVE  CalmInv'
      <3>1. \A l \in lists : l \notin ls => Size(l)' = Size(l)
        BY <2>2, SizeKept
      <3>2. OnlyOff(ls)'
        BY <2>0, <3>1 DEF OnlyOff
      <3>3. PICK o : o = Op("count", "update", {}, {}, ls)
        OBVIOUS
      <3>4. o.pc = "count" /\ o.sync = ls
        BY <3>3 DEF Op
      <3> QED BY <1>0, <1>2, <2>2, <3>2, <3>3, <3>4, ClerkAlone DEF ClerkCounts
    <2>3. CASE op[k].kind = "create"
      <3> DEFINE e == CHOOSE x \in op[k].emails : TRUE
      <3>1. CASE e \in Present
        BY <1>8, <2>1, <2>3, <3>1 DEF WriteChange, Apply, Return, Becomes
      <3>2. CASE e \notin Present
        <4>1. contact' = [contact EXCEPT ![e] = Contact(op[k].ls)] /\ Becomes(k, Op("count", "update", {}, {}, op[k].sync))
          BY <1>8, <2>3, <3>2 DEF WriteChange, Apply
        <4>2. op[k].ls \subseteq op[k].sync /\ e \in Emails
          BY <1>0, <1>3, <2>0, <2>3 DEF ClerkCounts
        <4>3. ~contact[e].exists
          BY <3>2, <4>2 DEF Present
        <4> HIDE DEF e
        <4> QED BY <1>0, <2>2, <4>1, <4>2, <4>3 DEF Contact, Becomes
      <3> QED BY <3>1, <3>2
    <2>4. CASE op[k].kind = "update"
      <3> DEFINE e == CHOOSE x \in op[k].emails : TRUE
      <3>1. CASE k \in stale
        BY <1>8, <2>1, <2>4, <3>1 DEF WriteChange, Apply, Return, Becomes
      <3>2. CASE k \notin stale
        <4>1. contact' = [contact EXCEPT ![e] = Contact(op[k].ls)] /\ Becomes(k, Op("count", "update", {}, {}, op[k].sync))
          BY <1>8, <2>4, <3>2 DEF WriteChange, Apply
        <4>2. op[k].ls \subseteq op[k].sync /\ e \in Emails /\ contact[e].in \subseteq op[k].sync
          BY <1>0, <1>3, <2>0, <2>4 DEF ClerkCounts
        <4> HIDE DEF e
        <4> QED BY <1>0, <2>2, <4>1, <4>2 DEF Contact, Becomes
      <3> QED BY <3>1, <3>2
    <2>5. CASE op[k].kind = "delete"
      <3>1. contact' = [x \in Emails |-> IF x \in op[k].emails THEN Absent ELSE contact[x]]
            /\ Becomes(k, Op("count", "update", {}, {}, op[k].sync))
        BY <1>8, <2>5 DEF WriteChange, Apply
      <3>2. \A e \in op[k].emails : contact[e].in \subseteq op[k].sync
        BY <1>3, <2>0, <2>5 DEF ClerkCounts
      <3> QED BY <1>0, <2>2, <3>1, <3>2 DEF Absent, Becomes
    <2>6. CASE op[k].kind = "dropList"
      <3>0. PICK ls : ls = op[k].ls
        OBVIOUS
      <3>1. contact' = [x \in Emails |-> [contact[x] EXCEPT !.in = @ \ ls]] /\ Becomes(k, Op("dropList", "dropList", {}, ls, {}))
        BY <1>8, <2>6, <3>0 DEF WriteChange, Apply
      <3>2. \A e \in Emails : contact'[e].exists = contact[e].exists /\ contact'[e].in = contact[e].in \ ls
        BY <1>0, <3>1 DEF Listings
      <3>3. \A l \in lists : l \notin ls => Size(l)' = Size(l)
        BY <3>2, SizeKept
      <3>4. OnlyOff(ls)'
        BY <2>0, <3>3 DEF OnlyOff
      <3>5. PICK o : o = Op("dropList", "dropList", {}, ls, {})
        OBVIOUS
      <3>6. o.pc = "dropList" /\ o.ls = ls
        BY <3>5 DEF Op
      <3> QED BY <1>0, <1>2, <1>8, <3>1, <3>4, <3>5, <3>6, ClerkAlone DEF ClerkCounts, Becomes
    <2> QED BY <1>8, <2>3, <2>4, <2>5, <2>6 DEF WriteChange, Apply
  <1> QED BY <1>5, <1>6, <1>7, <1>8 DEF ClerkSteps

\* A request of the panel begins: whoever is under way makes the two overlap.
LEMMA BeginCounts ==
    ASSUME Types, CalmInv, NEW k \in Clerks, Request(k, ImportBusy), Calm', UNCHANGED queue
    PROVE  CalmInv'
  <1>0. op \in [Clerks -> Ops] /\ contact \in [Emails -> Listings]
    BY DEF Types, ContactTypes
  <1>1. ASSUME NEW o, Begin(k, o, ImportBusy), OnlyOff({}) => ClerkCounts(o), o.pc # "idle"
        PROVE  CalmInv'
    <2>1. (\A other \in Clerks \ {k} : ~Busy(other)) /\ ~ImportBusy /\ ~Busy(k)
      BY <1>1 DEF Begin, Calm, Busy
    <2>2. OnlyOff({})
      BY <2>1 DEF CalmInv, AtRest, Busy
    <2>3. UNCHANGED <<contact, lists, count>> /\ op' = [op EXCEPT ![k] = o]
      BY <1>1 DEF Begin, Becomes, documents
    <2>4. \A l : Size(l)' = Size(l)
      BY <2>3, SizeSame
    <2>5. ClerkCounts(o)'
      BY <1>1, <2>2, <2>3, <2>4 DEF ClerkCounts, OnlyOff, RightAfter
    <2> QED BY <1>0, <1>1, <2>1, <2>3, <2>5, ClerkAlone
  <1>2. ASSUME NEW e \in Emails, NEW ls \in SUBSET Lists, BeginCreate(k, e, ls, ImportBusy) \/ BeginUpdate(k, e, ls, ImportBusy)
        PROVE  CalmInv'
    <2>1. CASE BeginCreate(k, e, ls, ImportBusy)
      <3>1. PICK o : o = Op("write", "create", {e}, ls, ls)
        OBVIOUS
      <3>2. o.pc = "write" /\ o.kind = "create" /\ o.ls \subseteq o.sync
        BY <3>1 DEF Op
      <3> QED BY <1>1, <2>1, <3>1, <3>2 DEF BeginCreate, ClerkCounts
    <2>2. CASE BeginUpdate(k, e, ls, ImportBusy)
      <3>0. PICK pc, sync : pc = Writes(e, ls) /\ sync = contact[e].in \cup ls
        OBVIOUS
      <3>1. PICK o : o = Op(pc, "update", {e}, ls, sync)
        OBVIOUS
      <3>2. /\ o.pc \in {"write", "count"} /\ o.kind = "update" /\ o.emails = {e} /\ o.ls \subseteq o.sync
            /\ contact[e].in \subseteq o.sync
        BY <3>0, <3>1 DEF Op, Writes
      <3>3. OnlyOff({}) => ClerkCounts(o)
        BY <3>2 DEF ClerkCounts, OnlyOff
      <3> QED BY <1>1, <2>2, <3>0, <3>1, <3>2, <3>3 DEF BeginUpdate
    <2> QED BY <1>2, <2>1, <2>2
  <1>3. ASSUME NEW es \in SUBSET Emails, BeginDelete(k, es, ImportBusy)
        PROVE  CalmInv'
    <2>0. PICK sync : sync = UNION {contact[e].in : e \in es}
      OBVIOUS
    <2>1. PICK o : o = Op("write", "delete", es, {}, sync)
      OBVIOUS
    <2>2. o.pc = "write" /\ o.kind = "delete" /\ \A e \in o.emails : contact[e].in \subseteq o.sync
      BY <2>0, <2>1 DEF Op
    <2> QED BY <1>1, <1>3, <2>0, <2>1, <2>2 DEF BeginDelete, ClerkCounts
  <1>4. ASSUME NEW l \in Lists, BeginDropList(k, l, ImportBusy)
        PROVE  CalmInv'
    <2>1. PICK o : o = Op("write", "dropList", {}, {l}, {})
      OBVIOUS
    <2>2. o.pc = "write" /\ o.kind = "dropList"
      BY <2>1 DEF Op
    <2> QED BY <1>1, <1>4, <2>1, <2>2 DEF BeginDropList, ClerkCounts
  <1>5. CASE BeginResync(k, ImportBusy)
    <2>1. PICK o : o = Op("count", "resync", {}, {}, {})
      OBVIOUS
    <2>2. o.pc = "count" /\ o.kind = "resync"
      BY <2>1 DEF Op
    <2> QED BY <1>1, <1>5, <2>1, <2>2 DEF BeginResync, ClerkCounts
  <1> QED BY <1>2, <1>3, <1>4, <1>5 DEF Request

\* A step of an import: it alone is under way.
LEMMA ImportStepCounts ==
    ASSUME Types, JobsFit, VerdictInv, CalmInv, Calm', [Next]_vars, NEW i \in Imports,
           \/ TakeImport(i) \/ FindRow(i) \/ WriteRow(i) \/ StopImport(i)
           \/ CountTarget(i) \/ StoreTarget(i) \/ FinishImport(i)
    PROVE  CalmInv'
  <1>0. /\ imp \in [Imports -> Importers] /\ queue \in Queues /\ contact \in [Emails -> Listings]
        /\ lists \subseteq Lists /\ "import" \in Actions /\ UNCHANGED <<target, op>>
        /\ \A j \in Imports : ~ImpAt(j, "idle") <=> Importing(j)
    BY DEF Types, ContactTypes, ImportTypes, JobsFit, Actions, Importing, TakeImport, FindRow, WriteRow, StopImport,
       CountTarget, StoreTarget, FinishImport, keepContacts, contactVars, documents
  <1> PICK l : l = target[i]
    OBVIOUS
  <1>1. CASE TakeImport(i)
    <2>1. UNCHANGED <<contact, lists, count>>
      BY <1>1 DEF TakeImport, documents
    <2>2. CASE ijob[i].status # "importing"
      <3>1. UNCHANGED imp /\ queue' = [queue EXCEPT ![i]["import"] = "gone"] /\ queue[i]["import"] = "waiting"
        BY <1>1, <2>2 DEF TakeImport, Dropped, Queued, InQueue
      <3>2. \A j \in Imports : Importing(j)' <=> Importing(j)
        BY <1>0, <3>1 DEF Importing, InQueue, Queues
      <3> QED BY <1>0, <2>1, <3>1, <3>2, CalmKept
    <2>3. CASE ijob[i].status = "importing"
      <3>1. (\A k \in Clerks : ~Busy(k)) /\ \A j \in Imports : ~Importing(j)
        BY <1>1, <2>3 DEF TakeImport, Calm, Busy, ImportBusy, Importing
      <3>2. OnlyOff({})
        BY <3>1 DEF CalmInv, AtRest, Busy, ImportBusy, Importing
      <3>3. OnlyOff({l})'
        BY <2>1, <3>2, SizeSame DEF OnlyOff
      <3>4. PICK x : x = imp'[i]
        OBVIOUS
      <3>5. x.pc = "rows"
        BY <1>0, <1>1, <2>3, <3>4 DEF TakeImport, NoImp
      <3>6. \A j \in Imports \ {i} : ~Importing(j)'
        BY <1>0, <1>1, <2>3, <3>1 DEF TakeImport, Queued, Importing, InQueue, Queues
      <3>7. Importing(i)'
        BY <1>0, <1>1, <2>3 DEF TakeImport, Queued, Importing, InQueue, Queues
      <3> QED BY <1>0, <3>1, <3>3, <3>4, <3>5, <3>6, <3>7, ImportAlone DEF ImportCounts
    <2> QED BY <2>2, <2>3
  <1>2. ASSUME ~ImpAt(i, "idle")
        PROVE  /\ \A k \in Clerks : ~Busy(k)
               /\ \A j \in Imports \ {i} : ~Importing(j)
               /\ Importing(i) /\ ImportCounts(imp[i], target[i])
    BY <1>0, <1>2 DEF CalmInv, OneActor
  <1>3. ASSUME ~ImpAt(i, "idle"), UNCHANGED queue, NEW x, x = imp'[i], ImportCounts(x, l)'
        PROVE  CalmInv'
    <2>1. \A j \in Imports : Importing(j)' <=> Importing(j)
      BY <1>3 DEF Importing, InQueue
    <2> QED BY <1>0, <1>2, <1>3, <2>1, ImportAlone
  <1>4. CASE FindRow(i) \/ StopImport(i)
    <2>1. UNCHANGED <<contact, lists, count, queue>> /\ imp[i].pc = "rows"
      BY <1>4 DEF FindRow, StopImport, keepContacts, contactVars, documents, ImpAt
    <2>2. PICK x : x = imp'[i]
      OBVIOUS
    <2>3. x.pc \in {"write", "countCanceled"}
      BY <1>0, <1>4, <2>2 DEF FindRow, StopImport, Importers
    <2>4. OnlyOff({l})
      BY <1>2, <2>1 DEF ImportCounts, ImpAt
    <2>5. OnlyOff({l})'
      BY <2>1, <2>4, SizeSame DEF OnlyOff
    <2> QED BY <1>3, <2>1, <2>2, <2>3, <2>5 DEF ImportCounts, ImpAt
  <1>5. CASE WriteRow(i)
    <2>1. UNCHANGED <<lists, count, queue>> /\ imp[i].pc = "write"
      BY <1>5 DEF WriteRow, ImpAt
    <2>2. PICK x : x = imp'[i]
      OBVIOUS
    <2>3. x.pc = "rows"
      <3>1. Wrote(i, 1, 0) \/ Wrote(i, 0, 1)
        BY <1>5 DEF WriteRow, LinkRow, SkipRow, InsertRow
      <3> QED BY <1>0, <2>2, <3>1 DEF Wrote, Importers
    <2>4. OnlyOff({l})
      BY <1>2, <2>1 DEF ImportCounts, ImpAt
    <2>5. PICK e : e = Head(imp[i].source)
      OBVIOUS
    <2>6. \/ UNCHANGED contact
          \/ contact' = [contact EXCEPT ![e].in = @ \cup {l}]
          \/ e \notin Present /\ contact' = [contact EXCEPT ![e] = Contact({l})]
      BY <1>5, <2>5 DEF WriteRow, LinkRow, SkipRow, InsertRow
    <2>7. \A l1 \in lists : l1 \notin {l} =>
            \A a \in Emails : (contact'[a].exists /\ l1 \in contact'[a].in) <=> (contact[a].exists /\ l1 \in contact[a].in)
      <3>1. CASE UNCHANGED contact
        BY <3>1
      <3>2. CASE contact' = [contact EXCEPT ![e].in = @ \cup {l}]
        BY <1>0, <3>2 DEF Listings
      <3>3. CASE e \notin Present /\ contact' = [contact EXCEPT ![e] = Contact({l})]
        BY <1>0, <3>3 DEF Present, Contact
      <3> QED BY <2>6, <3>1, <3>2, <3>3
    <2>8. \A l1 \in lists : l1 \notin {l} => Size(l1)' = Size(l1)
      BY <2>7, SizeKept
    <2>9. OnlyOff({l})'
      BY <2>1, <2>4, <2>8 DEF OnlyOff
    <2> QED BY <1>3, <2>1, <2>2, <2>3, <2>9 DEF ImportCounts, ImpAt
  <1>6. CASE CountTarget(i)
    <2>1. UNCHANGED <<contact, lists, count, queue>> /\ imp[i].pc \in {"rows", "countCanceled"}
      BY <1>6 DEF CountTarget, keepContacts, contactVars, documents, ImpAt
    <2>2. PICK x : x = imp'[i]
      OBVIOUS
    <2>3. PICK c : c = Counted({l})
      OBVIOUS
    <2>4. x.pc \in {"store", "storeCanceled"} /\ x.counted = c
      BY <1>0, <1>6, <2>2, <2>3 DEF CountTarget, Importers
    <2>5. OnlyOff({l})
      BY <1>2, <2>1 DEF ImportCounts, ImpAt
    <2>6. RightAfter(c)'
      BY <1>0, <2>1, <2>3, <2>5, CountThenStore
    <2> QED BY <1>3, <2>1, <2>2, <2>4, <2>6 DEF ImportCounts, ImpAt
  <1>7. CASE StoreTarget(i)
    <2>1. UNCHANGED <<contact, lists>> /\ count' = Stored(imp[i].counted) /\ imp[i].pc \in {"store", "storeCanceled"}
      BY <1>7 DEF StoreTarget, ImpAt
    <2>2. OnlyOff({})'
      BY <1>0, <1>2, <2>1, CountThenStore DEF ImportCounts, ImpAt
    <2>3. PICK x : x = imp'[i]
      OBVIOUS
    <2>4. CASE imp[i].pc = "store"
      <3>1. x.pc = "finish" /\ UNCHANGED queue
        BY <1>0, <1>7, <2>3, <2>4 DEF StoreTarget, Importers, ImpAt
      <3> QED BY <1>3, <2>2, <2>3, <2>4, <3>1 DEF ImportCounts, ImpAt
    <2>5. CASE imp[i].pc = "storeCanceled"
      <3>1. queue' = [queue EXCEPT ![i]["import"] = "gone"]
        BY <1>7, <2>5 DEF StoreTarget, Dropped, Queued, ImpAt
      <3>2. ~Importing(i)' /\ \A j \in Imports \ {i} : ~Importing(j)'
        BY <1>0, <1>2, <2>5, <3>1 DEF Importing, InQueue, Queues, ImpAt
      <3> QED BY <1>0, <1>2, <2>2, <2>3, <2>5, <3>2, ImportAlone DEF ImpAt
    <2> QED BY <2>1, <2>4, <2>5
  <1>8. CASE FinishImport(i)
    <2>1. UNCHANGED <<contact, lists, count>> /\ imp[i].pc = "finish" /\ queue' = [queue EXCEPT ![i]["import"] = "gone"]
      BY <1>8 DEF FinishImport, keepContacts, contactVars, documents, ImpAt, Dropped, Queued
    <2>2. OnlyOff({})
      BY <1>2, <2>1 DEF ImportCounts, ImpAt
    <2>3. OnlyOff({})'
      BY <2>1, <2>2, SizeSame DEF OnlyOff
    <2>4. ~Importing(i)' /\ \A j \in Imports \ {i} : ~Importing(j)'
      BY <1>0, <1>2, <2>1 DEF Importing, InQueue, Queues, ImpAt
    <2>5. PICK x : x = imp'[i]
      OBVIOUS
    <2> QED BY <1>0, <1>2, <2>1, <2>3, <2>4, <2>5, ImportAlone DEF ImpAt
  <1> QED BY <1>1, <1>4, <1>5, <1>6, <1>7, <1>8

\* What breaks off, or meets another, stays in the history.
LEMMA CalmBefore ==
    ASSUME Types, [Next]_vars, Calm'
    PROVE  /\ Calm
           /\ \A i \in Imports, a \in Actions : ~JobFails(i, a) /\ ~WorkerDies(i, a)
           /\ ~RequestDies /\ \A k \in Clerks : ~ClerkDies(k)
  <1>0. troubles \in Nat
    BY DEF Types, ContactTypes
  <1>1. /\ \A i \in Imports, a \in Actions : ~JobFails(i, a) /\ ~WorkerDies(i, a)
        /\ ~RequestDies /\ \A k \in Clerks : ~ClerkDies(k)
    <2>1. troubles' # troubles + 1
      BY <1>0 DEF Calm
    <2> QED BY <2>1 DEF JobFails, WorkerDies, RequestDies, ClerkDies, Trouble
  <1>2. ASSUME JobSteps
        PROVE  Calm
    <2>1. PICK i \in Imports :
            \/ TakeValidation(i) \/ BeginValidation(i) \/ ClassifyRow(i) \/ FinishValidation(i) \/ CloseFiles(i)
            \/ TakeImport(i) \/ FindRow(i) \/ WriteRow(i) \/ CountTarget(i) \/ StoreTarget(i) \/ FinishImport(i)
      BY <1>2 DEF JobSteps
    <2>2. CASE TakeImport(i)
      BY <2>2 DEF TakeImport, Calm
    <2>3. CASE ~TakeImport(i)
      <3>1. UNCHANGED <<overlap, troubles>>
        BY <2>1, <2>3 DEF TakeValidation, BeginValidation, ClassifyRow, FinishValidation, CloseFiles, FindRow, WriteRow,
           CountTarget, StoreTarget, FinishImport, keepContacts, contactVars, contactHistory
      <3> QED BY <3>1 DEF Calm
    <2> QED BY <2>2, <2>3
  <1>3. ASSUME RequestSteps \/ Asks
        PROVE  Calm
    <2>1. UNCHANGED <<overlap, troubles>>
      BY <1>3 DEF RequestSteps, Asks, EnqueueValidation, SaveRequest, EnqueueImport, Create, Expire, AskConfirm,
         AskCancel, keepContacts, contactVars, contactHistory
    <2> QED BY <2>1 DEF Calm
  <1>4. ASSUME NEW k \in Clerks, ClerkSteps(k) \/ Request(k, ImportBusy)
        PROVE  Calm
    <2>1. CASE ClerkSteps(k)
      BY <2>1 DEF ClerkSteps, CountLists, StoreCounts, WriteChange, DropList, contactHistory, Calm
    <2>2. CASE Request(k, ImportBusy)
      <3>1. PICK o : Begin(k, o, ImportBusy)
        BY <2>2 DEF Request, BeginCreate, BeginUpdate, BeginDelete, BeginDropList, BeginResync
      <3> QED BY <3>1 DEF Begin, Calm
    <2> QED BY <1>4, <2>1, <2>2
  <1>5. ASSUME \/ \E i \in Imports : StopValidation(i) \/ StopImport(i)
               \/ UNCHANGED vars
        PROVE  Calm
    <2>1. UNCHANGED <<overlap, troubles>>
      BY <1>5 DEF StopValidation, StopImport, keepContacts, contactVars, contactHistory, vars
    <2> QED BY <2>1 DEF Calm
  <1> QED BY <1>1, <1>2, <1>3, <1>4, <1>5 DEF Next, ClerkRequests

\* Every step keeps the counts.
LEMMA CountsStep ==
    ASSUME Types, JobsFit, VerdictInv, CountsInv, [Next]_vars
    PROVE  CountsInv'
  <1> SUFFICES ASSUME Calm' PROVE CalmInv'
    BY DEF CountsInv
  <1>0. /\ CalmInv /\ queue \in Queues /\ "import" \in Actions
        /\ \A i \in Imports : ~ImpAt(i, "idle") <=> Importing(i)
    BY CalmBefore DEF CountsInv, Types, ImportTypes, Actions, JobsFit, Importing
  <1>1. ASSUME UNCHANGED <<contact, lists, count, op, imp>>,
               \A i \in Imports : InQueue(i, "import", "active")' <=> InQueue(i, "import", "active")
        PROVE  CalmInv'
    <2>1. \A i \in Imports : Importing(i)' <=> Importing(i)
      BY <1>1 DEF Importing
    <2>2. ASSUME NEW i \in Imports, Importing(i)
          PROVE  target'[i] = target[i]
      <3>1. Judged(i)'
        BY <1>0, <1>1, <2>2 DEF Judged, ImpAt
      <3> QED BY <3>1, FileStays
    <2> QED BY <1>0, <1>1, <2>1, <2>2, CalmKept
  <1>2. ASSUME NEW i \in Imports, TakeValidation(i) \/ BeginValidation(i) \/ ClassifyRow(i) \/ FinishValidation(i)
                                  \/ CloseFiles(i) \/ StopValidation(i) \/ EnqueueValidation(i)
        PROVE  CalmInv'
    <2>1. UNCHANGED <<contact, lists, count, op, imp>>
      BY <1>2 DEF TakeValidation, BeginValidation, ClassifyRow, FinishValidation, CloseFiles, StopValidation,
         EnqueueValidation, keepContacts, contactVars, documents
    <2>2. \A j \in Imports : queue'[j]["import"] = queue[j]["import"]
      BY <1>0, <1>2 DEF TakeValidation, BeginValidation, ClassifyRow, FinishValidation, CloseFiles, StopValidation,
         EnqueueValidation, Dropped, Queued, Add, Queues
    <2> QED BY <1>1, <2>1, <2>2 DEF InQueue
  <1>3. ASSUME NEW i \in Imports, Create(i) \/ Expire(i)
        PROVE  CalmInv'
    BY <1>1, <1>3 DEF Create, Expire, documents, InQueue
  <1>4. ASSUME NEW u \in Users,
               SaveRequest(u) \/ EnqueueImport(u) \/ \E i \in Imports : AskConfirm(u, i) \/ AskCancel(u, i)
        PROVE  CalmInv'
    <2>1. UNCHANGED <<contact, lists, count, op, imp>>
      BY <1>4 DEF SaveRequest, EnqueueImport, AskConfirm, AskCancel, keepContacts, contactVars, documents
    <2>2. \A j \in Imports : InQueue(j, "import", "active")' <=> InQueue(j, "import", "active")
      <3>1. UNCHANGED queue \/ Add(user[u].i, "import")
        BY <1>4 DEF SaveRequest, EnqueueImport, AskConfirm, AskCancel
      <3> QED BY <1>0, <3>1 DEF Add, InQueue, Queues
    <2> QED BY <1>1, <2>1, <2>2
  <1>5. ASSUME NEW i \in Imports, \/ TakeImport(i) \/ FindRow(i) \/ WriteRow(i) \/ StopImport(i)
                                  \/ CountTarget(i) \/ StoreTarget(i) \/ FinishImport(i)
        PROVE  CalmInv'
    BY <1>0, <1>5, ImportStepCounts
  <1>6. CASE ClerkRequests
    BY <1>0, <1>6, CalmBefore, ClerkStepCounts, BeginCounts DEF ClerkRequests
  <1>7. CASE UNCHANGED vars
    BY <1>1, <1>7 DEF vars, contactVars, documents, importVars, InQueue
  <1>8. CASE JobSteps
    BY <1>2, <1>5, <1>8 DEF JobSteps
  <1>9. CASE RequestSteps \/ Asks
    BY <1>2, <1>3, <1>4, <1>9 DEF RequestSteps, Asks
  <1>10. CASE \E i \in Imports : StopValidation(i) \/ StopImport(i)
    BY <1>2, <1>5, <1>10
  <1> QED BY <1>6, <1>7, <1>8, <1>9, <1>10, CalmBefore DEF Next

\* A list's count is the number of its contacts whenever nothing runs, unless two operations
\* overlapped or one broke off (CountsRight).
THEOREM CountsStayRight == Spec => []CountsRight
  <1> DEFINE Inv == Types /\ JobsFit /\ VerdictInv /\ CountsInv
  <1>1. Init => Inv
    <2> SUFFICES ASSUME Init PROVE Inv
      OBVIOUS
    <2>1. Types /\ JobsFit /\ VerdictInv
      BY ImportAssumption, VerdictInit
    <2>2. \A k \in Clerks : ~Busy(k)
      BY DEF Init, ContactsInit, Busy, OpAt, NoOp, Op
    <2>3. \A i \in Imports : ~Importing(i)
      BY DEF Init, Importing, InQueue, Actions
    <2>4. ASSUME NEW l \in lists
          PROVE  count[l] = Size(l)
      <3>1. count[l] = Cardinality({e \in Emails : l \in contact[e].in})
        BY DEF Init, ContactsInit
      <3>2. {e \in Emails : l \in contact[e].in} = Members(l)
        BY DEF Init, ContactsInit, Members, Present, Contact, Absent
      <3> QED BY <3>1, <3>2 DEF Size
    <2>5. CalmInv
      BY <2>2, <2>3, <2>4 DEF CalmInv, OneActor, OnlyOff
    <2> QED BY <2>1, <2>5 DEF CountsInv
  <1>2. Inv /\ [Next]_vars => Inv'
    BY ImportAssumption, TypesStep, JobsFitStep, VerdictStep, CountsStep
  <1>3. Inv => CountsRight
    BY DEF CountsRight, CountsInv, CalmInv, Calm, OnlyOff, Wrong, Size
  <1> QED BY <1>1, <1>2, <1>3, PTL DEF Spec
=============================================================================
