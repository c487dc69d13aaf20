------------------------------ MODULE Contacts ------------------------------
(***************************************************************************)
(* Contacts and lists of one tenant (services/contact.service.ts,          *)
(* services/list.service.ts): which contacts exist, the lists each is in,  *)
(* and List.contactCount, which nothing keeps in step by itself: each      *)
(* operation counts and stores once its own change is written.  One action *)
(* per round trip to MongoDB.                                              *)
(***************************************************************************)
EXTENDS Integers, FiniteSets, Sequences

CONSTANTS Emails,     \* addresses; a contact has the name of its address
          Lists,
          Clerks,     \* requests in flight at once
          Kinds,      \* operations the clerks ask for
          MaxEvents   \* bound: requests, crashes and faults

VARIABLES
    contact,  \* Absent, or the lists the contact is in
    stale,    \* requests that hold a contact whose _id or __v is another one by now
    lists,    \* documents of List
    count,    \* List.contactCount
    op,       \* what each request is doing
    touched,  \* history: contacts somebody deleted or took out of a list
    overlap,  \* history: two operations that count have run at once
    troubles, \* history: crashes, failures of MongoDB, operations that broke off
    events    \* requests, crashes and faults so far (bound)

documents == <<contact, stale, lists, count>>
contactHistory == <<touched, overlap, troubles, events>>
contactVars == <<documents, op, contactHistory>>

Absent == [in |-> {}, exists |-> FALSE]
Contact(ls) == [in |-> ls, exists |-> TRUE]
OpKinds == {"create", "update", "delete", "dropList", "resync"}
OpPc == {"idle", "write", "dropList", "count", "store"}
\* ls: the lists a contact is put into; sync: the lists to count afterwards.
Op(pc, kind, emails, ls, sync) ==
    [pc |-> pc, kind |-> kind, emails |-> emails, ls |-> ls, sync |-> sync, counted |-> <<>>]
NoOp == Op("idle", "resync", {}, {}, {})

ContactsInit ==
    /\ \E present \in SUBSET Emails, ls \in SUBSET Lists :
         contact = [e \in Emails |-> IF e \in present THEN Contact(ls) ELSE Absent]
    /\ stale = {}
    /\ lists = Lists
    /\ count = [l \in Lists |-> Cardinality({e \in Emails : l \in contact[e].in})]
    /\ op = [k \in Clerks |-> NoOp]
    /\ touched = {} /\ overlap = FALSE /\ troubles = 0 /\ events = 0

Present == {e \in Emails : contact[e].exists}
Members(l) == {e \in Present : l \in contact[e].in}
Happens == events < MaxEvents /\ events' = events + 1

OpAt(k, w) == op[k].pc = w
Becomes(k, o) == op' = [op EXCEPT ![k] = o]
Return(k) == Becomes(k, NoOp)

-----------------------------------------------------------------------------
(* syncListCounts: the counts are taken, then stored (updateOne, so a list  *)
(* that is gone is not written).  resyncCounts does the same for the lists  *)
(* whose count it finds wrong.                                              *)
Counted(ls) == [l \in ls |-> Cardinality(Members(l))]
Stored(counted) ==
    [l \in Lists |-> IF l \in DOMAIN counted \cap lists THEN counted[l] ELSE count[l]]
Wrong == {l \in lists : count[l] # Cardinality(Members(l))}

CountLists(k) ==
    /\ OpAt(k, "count")
    /\ Becomes(k, [NoOp EXCEPT !.pc = "store",
                               !.counted = Counted(IF op[k].kind = "resync" THEN Wrong ELSE op[k].sync)])
    /\ UNCHANGED <<documents, contactHistory>>

StoreCounts(k) ==
    /\ OpAt(k, "store")
    /\ count' = Stored(op[k].counted)
    /\ Return(k)
    /\ UNCHANGED <<contact, stale, lists, contactHistory>>

-----------------------------------------------------------------------------
(* A request arrives and reads: create looks for the address, update and    *)
(* remove for the contact, bulkDelete for those of its contacts that exist, *)
(* remove of a list for the list.  It is refused otherwise: no change.      *)
Begin(k, o, busy) ==
    /\ OpAt(k, "idle") /\ Happens /\ o.kind \in Kinds
    /\ Becomes(k, o)
    /\ overlap' = (overlap \/ busy \/ \E other \in Clerks \ {k} : ~OpAt(other, "idle"))
    /\ UNCHANGED <<documents, touched, troubles>>

BeginCreate(k, e, ls, busy) ==
    e \notin Present /\ Begin(k, Op("write", "create", {e}, ls, ls), busy)

\* Lists that stay as they are are not written.
Writes(e, ls) == IF ls = contact[e].in THEN "count" ELSE "write"

\* Mutant: only the new lists are counted again.
BeginUpdateNewOnly(k, e, ls, busy) ==
    e \in Present /\ Begin(k, Op(Writes(e, ls), "update", {e}, ls, ls), busy)

BeginUpdate(k, e, ls, busy) ==
    e \in Present /\ Begin(k, Op(Writes(e, ls), "update", {e}, ls, contact[e].in \cup ls), busy)

BeginDelete(k, es, busy) ==
    es \cap Present # {}
    /\ Begin(k, Op("write", "delete", es, {}, UNION {contact[e].in : e \in es}), busy)

BeginDropList(k, l, busy) ==
    l \in lists /\ Begin(k, Op("write", "dropList", {}, {l}, {}), busy)

BeginResync(k, busy) == Begin(k, Op("count", "resync", {}, {}, {}), busy)

\* The contact is written or deleted: another request that holds it holds an old one.
Outdates(k) ==
    stale' = (stale \cup {other \in Clerks : /\ OpAt(other, "write") /\ op[other].kind = "update"
                                            /\ op[other].emails \cap op[k].emails # {}}) \ {k}

\* The change.  The address is unique; save compares __v where it sets the lists of a
\* contact; deleting what is gone is no error.
Apply(k) ==
    LET o == op[k]
        e == CHOOSE x \in o.emails : TRUE
        counts == Becomes(k, Op("count", "update", {}, {}, o.sync)) IN
    \/ /\ o.kind = "create"
       /\ IF e \in Present THEN Return(k) /\ UNCHANGED contact
          ELSE counts /\ contact' = [contact EXCEPT ![e] = Contact(o.ls)]
       /\ UNCHANGED <<stale, touched>>
    \/ /\ o.kind = "update"
       /\ IF k \in stale THEN Return(k) /\ UNCHANGED contact /\ stale' = stale \ {k}
          ELSE counts /\ contact' = [contact EXCEPT ![e] = Contact(o.ls)] /\ Outdates(k)
       /\ touched' = touched \cup o.emails
    \/ /\ o.kind = "delete"
       /\ contact' = [x \in Emails |-> IF x \in o.emails THEN Absent ELSE contact[x]]
       /\ Outdates(k)
       /\ counts
       /\ touched' = touched \cup o.emails
    \/ /\ o.kind = "dropList"
       /\ contact' = [x \in Emails |-> [contact[x] EXCEPT !.in = @ \ o.ls]]
       /\ Becomes(k, Op("dropList", "dropList", {}, o.ls, {}))
       /\ touched' = Emails /\ UNCHANGED stale

WriteChange(k) ==
    OpAt(k, "write") /\ Apply(k) /\ UNCHANGED <<lists, count, overlap, troubles, events>>

DropList(k) ==
    /\ OpAt(k, "dropList")
    /\ lists' = lists \ op[k].ls
    /\ Return(k)
    /\ UNCHANGED <<contact, stale, count, contactHistory>>

\* The process dies, or MongoDB fails: the request ends where it is.
ClerkDies(k) ==
    /\ ~OpAt(k, "idle") /\ Happens
    /\ troubles' = troubles + 1 /\ stale' = stale \ {k}
    /\ Return(k)
    /\ UNCHANGED <<contact, lists, count, touched, overlap>>

ClerkSteps(k) == CountLists(k) \/ StoreCounts(k) \/ WriteChange(k) \/ DropList(k)

Request(k, busy) ==
    \/ \E e \in Emails, ls \in SUBSET Lists : BeginCreate(k, e, ls, busy) \/ BeginUpdate(k, e, ls, busy)
    \/ \E es \in SUBSET Emails : BeginDelete(k, es, busy)
    \/ \E l \in Lists : BeginDropList(k, l, busy)
    \/ BeginResync(k, busy)
=============================================================================
