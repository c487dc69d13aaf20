------------------------------ MODULE Accounts ------------------------------
(***************************************************************************)
(* The client of the platform (a tenant) and its people: who administers   *)
(* it, which sessions are accepted, who can still get in, what the removal *)
(* leaves (tenant, user, auth, invite and passwordReset services, the      *)
(* middleware).  A request loads a User and saves the fields it changed    *)
(* (Mongoose writes no others, and compares no version): two steps, and    *)
(* other requests in between.                                              *)
(***************************************************************************)
EXTENDS Integers, FiniteSets, TLC

CONSTANTS Users,      \* documents of User of one tenant; each is created at most once
          Founder,    \* the administrator the tenant is created with
          Procs,      \* requests in flight at once
          MaxEvents   \* bound: requests and crashes

\* What belongs to a tenant besides its users, by what deleteAllOfTenant does to it: the
\* import jobs stand for the collections it does not name, the contacts for the others.
Kinds == {"contacts", "importJobs"}
PurgedKinds == {"contacts"}

\* The administrator a tenant is created with is one of its users, and a user is no document
\* of the others.
ASSUME AccountsAssumption == Founder \in Users /\ Users \cap Kinds = {}

VARIABLES
    user,      \* documents of User
    tenant,    \* the document of Tenant: "no", "on", "off", "gone"
    docs,      \* the kinds of documents the tenant has
    sessions,  \* tokens signed so far: the user and the version (payload v)
    proc,      \* the requests
    ended,     \* history: tokens signed before a revocation of their user was written
    clobbered, \* history: users whose version was written from an old copy
    stale,     \* history: requests that were in flight when another one took an active admin away
    overtaken, \* history: one of these took an active admin away, too
    imposed,   \* history: the superadmin took the role or the access of an active admin
    late,      \* history: what was written for the tenant while it was being removed, or later
    crashed,   \* history: a creation, or the removal of the tenant, ended half-way
    events     \* requests and crashes so far (bound)

people == <<stale, overtaken, imposed>>
history == <<ended, clobbered, people, late, crashed, events>>
vars == <<user, tenant, docs, sessions, proc, history>>

Super == "superadmin"
Nobody == [state |-> "no", role |-> "user", active |-> TRUE, version |-> 0, password |-> "random", invite |-> FALSE, reset |-> FALSE]
Newcomer(role, password) == [state |-> "yes", role |-> role, active |-> TRUE, version |-> 0,
                             password |-> password, invite |-> FALSE, reset |-> FALSE]
NoPatch == [f \in {} |-> TRUE]
Request(w, by, on, copy) == [pc |-> w, by |-> by, on |-> on, patch |-> NoPatch, copy |-> copy, signs |-> FALSE]
Saving(by, on, patch, copy, signs) ==
    [pc |-> "save", by |-> by, on |-> on, patch |-> patch, copy |-> copy, signs |-> signs]
Idle == Request("idle", Super, Super, 0)

Init ==
    /\ user = [u \in Users |-> Nobody]
    /\ tenant = "no" /\ docs = {} /\ sessions = {}
    /\ proc = [p \in Procs |-> Idle]
    /\ ended = {} /\ clobbered = {} /\ stale = {} /\ overtaken = FALSE /\ imposed = FALSE
    /\ late = {} /\ crashed = FALSE /\ events = 0

Happens == events < MaxEvents /\ events' = events + 1
At(p, w) == proc[p].pc = w
Goes(p, w) == proc' = [proc EXCEPT ![p].pc = w]
Returns(p) == proc' = [proc EXCEPT ![p] = Idle]
Exists(u) == user[u].state = "yes"
IsAdmin(u) == Exists(u) /\ user[u].role = "admin" /\ user[u].active

\* What the tenant had was deleted.
Purged == tenant = "gone" \/ \E p \in Procs : proc[p].pc \in {"users", "tenant"}

\* The creation of the tenant has answered with its id.
Known == \A p \in Procs : ~At(p, "admin")

\* requireAuth, and requireAdmin: the superadmin acts within a tenant that is on.
Accepted(s) == Exists(s.user) /\ user[s.user].active /\ s.version = user[s.user].version
Authenticated == {s.user : s \in {t \in sessions : Accepted(t)}}
Administrators == {u \in Authenticated : user[u].role = "admin"} \cup (IF tenant = "on" /\ Known THEN {Super} ELSE {})

-----------------------------------------------------------------------------
(* Who takes an active admin away, and whether another request did so since  *)
(* it looked.                                                               *)
Fresh(p) == stale' = stale \ {p} /\ UNCHANGED <<overtaken, imposed>>
AnAdminGoes == \E u \in Users : IsAdmin(u) /\ ~IsAdmin(u)'
Taken(p, bySuper) ==
    IF AnAdminGoes
    THEN /\ stale' = stale \cup {q \in Procs \ {p} : ~At(q, "idle")}
         /\ overtaken' = (overtaken \/ p \in stale)
         /\ imposed' = (imposed \/ bySuper)
    ELSE UNCHANGED people

-----------------------------------------------------------------------------
(* A request that loads a user, decides, and saves a patch.                 *)
Load(p, by, u, patch, signs) ==
    /\ At(p, "idle") /\ Happens /\ Exists(u)
    /\ proc' = [proc EXCEPT ![p] = Saving(by, u, patch, user[u].version, signs)]
    /\ Fresh(p)
    /\ UNCHANGED <<user, tenant, docs, sessions, ended, clobbered, late, crashed>>

\* Mutant: the version stays.
NextVersionSame(u) == user[u].version
NextVersion(u) == user[u].version + 1

\* userService.save: the role, the access and the password of somebody; not one's own role
\* or access.
SetRole(p, by, u) ==
    by # u /\ Load(p, by, u, [role |-> IF user[u].role = "admin" THEN "user" ELSE "admin"], FALSE)

SwitchAccess(u) == IF user[u].active THEN [active |-> FALSE, version |-> NextVersion(u)] ELSE [active |-> TRUE]

SetActive(p, by, u) == by # u /\ Load(p, by, u, SwitchAccess(u), FALSE)
SetPassword(p, by, u) == Load(p, by, u, [password |-> "own", version |-> NextVersion(u)], FALSE)
Revoke(p, by, u) == Load(p, by, u, [version |-> NextVersion(u)], FALSE)

\* issue of an invite (again): a password nobody knows while it is pending.
Invitation == [invite |-> TRUE, password |-> "random"]
Resend(p, by, u) == user[u].invite /\ Load(p, by, u, Invitation, FALSE)
IssueReset(p, by, u) == ~user[u].invite /\ Load(p, by, u, [reset |-> TRUE], FALSE)

\* accept, reset: by who has the link; both sign a session with the version they save.
AcceptKeeping(p, u) ==  \* Mutant: the password is not stored.
    /\ user[u].invite /\ user[u].active
    /\ Load(p, u, u, [invite |-> FALSE, version |-> NextVersion(u)], TRUE)
Accept(p, u) ==
    /\ user[u].invite /\ user[u].active
    /\ Load(p, u, u, [invite |-> FALSE, password |-> "own", version |-> NextVersion(u)], TRUE)
Reset(p, u) ==
    /\ user[u].reset /\ user[u].active
    /\ Load(p, u, u, [reset |-> FALSE, password |-> "own", version |-> NextVersion(u)], TRUE)
ChangePassword(p, u) ==
    /\ u \in Authenticated /\ user[u].password = "own"
    /\ Load(p, u, u, [version |-> NextVersion(u)], TRUE)
RequestReset(p, u) == user[u].active /\ tenant = "on" /\ Load(p, u, u, [reset |-> TRUE], FALSE)

\* save of the document: not found if it was deleted meanwhile.
Patched(d, patch) == [f \in DOMAIN d |-> IF f \in DOMAIN patch THEN patch[f] ELSE d[f]]
Revokes(p) == "version" \in DOMAIN proc[p].patch
Save(p) ==
    LET r == proc[p]
        u == r.on IN
    /\ At(p, "save") /\ Returns(p)
    /\ IF ~Exists(u) THEN UNCHANGED <<user, sessions, ended, clobbered, people>>
       ELSE /\ user' = [user EXCEPT ![u] = Patched(@, r.patch)]
            /\ ended' = IF Revokes(p) THEN ended \cup {s \in sessions : s.user = u} ELSE ended
            /\ sessions' = IF r.signs THEN sessions \cup {[user |-> u, version |-> r.copy + 1]} ELSE sessions
            /\ clobbered' = IF Revokes(p) /\ r.copy # user[u].version THEN clobbered \cup {u} ELSE clobbered
            /\ Taken(p, r.by = Super)
    /\ UNCHANGED <<tenant, docs, late, crashed, events>>

\* auth.revokeSessions: $inc.
LogoutAll(p, u) ==
    /\ At(p, "idle") /\ Happens /\ u \in Authenticated
    /\ user' = [user EXCEPT ![u].version = @ + 1]
    /\ ended' = ended \cup {s \in sessions : s.user = u}
    /\ UNCHANGED <<tenant, docs, sessions, proc, clobbered, people, late, crashed>>

\* login: the user and the password, then the tenant.
Login(p, u) ==
    /\ At(p, "idle") /\ Happens /\ Exists(u) /\ user[u].active /\ user[u].password = "own"
    /\ proc' = [proc EXCEPT ![p] = Request("login", Super, u, user[u].version)]
    /\ UNCHANGED <<user, tenant, docs, sessions, ended, clobbered, people, late, crashed>>

Sign(p) ==
    /\ At(p, "login") /\ Returns(p)
    /\ sessions' = IF tenant = "on" THEN sessions \cup {[user |-> proc[p].on, version |-> proc[p].copy]} ELSE sessions
    /\ UNCHANGED <<user, tenant, docs, history>>

-----------------------------------------------------------------------------
(* userService: a user is created, then invited; and removed.               *)
Create(p, by, u) ==
    /\ At(p, "idle") /\ Happens /\ user[u].state = "no" /\ tenant # "no"
    /\ \E role \in {"admin", "user"}, password \in {"own", "random"} :
         /\ user' = [user EXCEPT ![u] = Newcomer(role, password)]
         /\ proc' = IF password = "own" THEN proc
                    ELSE [proc EXCEPT ![p] = Saving(u, u, Invitation, 0, FALSE)]
    /\ late' = IF Purged THEN late \cup {u} ELSE late
    /\ UNCHANGED <<tenant, docs, sessions, ended, clobbered, people, crashed>>

Remove(p, by, u) ==
    /\ At(p, "idle") /\ Happens /\ Exists(u) /\ by # u
    /\ proc' = [proc EXCEPT ![p] = Request(IF user[u].role = "admin" THEN "count" ELSE "delete", by, u, 0)]
    /\ Fresh(p)
    /\ UNCHANGED <<user, tenant, docs, sessions, ended, clobbered, late, crashed>>

CountAdminsAny(p) ==  \* Mutant: administrators without access count.
    /\ At(p, "count") /\ Fresh(p)
    /\ IF Cardinality({u \in Users : Exists(u) /\ user[u].role = "admin"}) > 1 THEN Goes(p, "delete")
       ELSE Returns(p)
    /\ UNCHANGED <<user, tenant, docs, sessions, ended, clobbered, late, crashed, events>>

CountAdmins(p) ==
    /\ At(p, "count") /\ Fresh(p)
    /\ IF Cardinality({u \in Users : IsAdmin(u)}) > 1 THEN Goes(p, "delete") ELSE Returns(p)
    /\ UNCHANGED <<user, tenant, docs, sessions, ended, clobbered, late, crashed, events>>

Delete(p) ==
    /\ At(p, "delete") /\ Returns(p)
    /\ user' = [user EXCEPT ![proc[p].on].state = "gone"]
    /\ Taken(p, FALSE)
    /\ UNCHANGED <<tenant, docs, sessions, ended, clobbered, late, crashed, events>>

-----------------------------------------------------------------------------
(* tenantService, by the superadmin.                                        *)
SuperStarts(p, w) ==
    /\ At(p, "idle") /\ Happens /\ Known
    /\ Goes(p, w)
    /\ UNCHANGED <<user, docs, sessions, ended, clobbered, people, late, crashed>>

CreateTenant(p) == tenant = "no" /\ SuperStarts(p, "admin") /\ tenant' = "on"

\* With its password or, the welcome being an invite, without; an address that is taken
\* undoes the tenant.
CreateAdmin(p) ==
    /\ At(p, "admin")
    /\ \/ \E password \in {"own", "random"} :
            /\ user' = [user EXCEPT ![Founder] = Newcomer("admin", password)]
            /\ proc' = [proc EXCEPT ![p] = IF password = "own" THEN Idle
                                           ELSE Saving(Founder, Founder, Invitation, 0, FALSE)]
            /\ UNCHANGED tenant
       \/ tenant' = "gone" /\ Returns(p) /\ UNCHANGED user
    /\ UNCHANGED <<docs, sessions, history>>

SwitchOff(p) == tenant = "on" /\ SuperStarts(p, "bump") /\ UNCHANGED tenant

\* updateMany $inc; the tenant is saved afterwards.
BumpAll(p) ==
    /\ At(p, "bump") /\ Goes(p, "off")
    /\ user' = [u \in Users |-> IF Exists(u) THEN [user[u] EXCEPT !.version = @ + 1] ELSE user[u]]
    /\ ended' = ended \cup sessions
    /\ UNCHANGED <<tenant, docs, sessions, clobbered, people, late, crashed, events>>

SaveTenant(p) ==
    /\ At(p, "off") \/ At(p, "on")
    /\ tenant' = IF tenant = "gone" THEN "gone" ELSE proc[p].pc
    /\ Returns(p)
    /\ UNCHANGED <<user, docs, sessions, history>>

SwitchOn(p) == tenant = "off" /\ SuperStarts(p, "on") /\ UNCHANGED tenant

\* remove: what belongs to it, its users, the document.
RemoveTenant(p) == tenant = "off" /\ SuperStarts(p, "purge") /\ UNCHANGED tenant

Purge(p) ==
    /\ At(p, "purge") /\ Goes(p, "users")
    /\ docs' = docs \ PurgedKinds
    /\ late' = late \ PurgedKinds
    /\ UNCHANGED <<user, tenant, sessions, ended, clobbered, people, crashed, events>>

DeleteUsersActive(p) ==  \* Mutant: those without access are left.
    /\ At(p, "users") /\ Goes(p, "tenant")
    /\ user' = [u \in Users |-> IF Exists(u) /\ user[u].active THEN [user[u] EXCEPT !.state = "gone"] ELSE user[u]]
    /\ late' = late \ Users
    /\ UNCHANGED <<tenant, docs, sessions, ended, clobbered, people, crashed, events>>

DeleteUsers(p) ==
    /\ At(p, "users") /\ Goes(p, "tenant")
    /\ user' = [u \in Users |-> IF Exists(u) THEN [user[u] EXCEPT !.state = "gone"] ELSE user[u]]
    /\ late' = late \ Users
    /\ UNCHANGED <<tenant, docs, sessions, ended, clobbered, people, crashed, events>>

DeleteTenant(p) ==
    /\ At(p, "tenant") /\ Returns(p)
    /\ tenant' = "gone"
    /\ UNCHANGED <<user, docs, sessions, history>>

-----------------------------------------------------------------------------
(* Any request that writes documents of the tenant.  tenantContext looks at *)
(* the tenant only for the superadmin.                                      *)
Work(p, u) ==
    /\ At(p, "idle") /\ Happens /\ u \in Authenticated
    /\ proc' = [proc EXCEPT ![p] = Request("write", u, u, 0)]
    /\ UNCHANGED <<user, tenant, docs, sessions, ended, clobbered, people, late, crashed>>

Write(p) ==
    /\ At(p, "write") /\ Returns(p)
    /\ \E k \in Kinds :
         /\ docs' = docs \cup {k}
         /\ late' = IF Purged THEN late \cup {k} ELSE late
    /\ UNCHANGED <<user, tenant, sessions, ended, clobbered, people, crashed, events>>

Dies(p) ==
    /\ ~At(p, "idle") /\ Happens
    /\ Returns(p)
    /\ crashed' = (crashed \/ At(p, "admin") \/ At(p, "tenant") \/ (At(p, "save") /\ "invite" \in DOMAIN proc[p].patch))
    /\ UNCHANGED <<user, tenant, docs, sessions, ended, clobbered, people, late>>

-----------------------------------------------------------------------------
Panel(p) ==
    \E by \in Administrators, u \in Users :
        \/ SetRole(p, by, u) \/ SetActive(p, by, u) \/ SetPassword(p, by, u) \/ Revoke(p, by, u)
        \/ Resend(p, by, u) \/ IssueReset(p, by, u) \/ Create(p, by, u) \/ Remove(p, by, u)
Personal(p) ==
    \E u \in Users : \/ Accept(p, u) \/ Reset(p, u) \/ ChangePassword(p, u) \/ RequestReset(p, u)
                     \/ LogoutAll(p, u) \/ Login(p, u) \/ Work(p, u)
Platform(p) == CreateTenant(p) \/ SwitchOff(p) \/ SwitchOn(p) \/ RemoveTenant(p)
Steps(p) ==
    \/ Save(p) \/ Sign(p) \/ CountAdmins(p) \/ Delete(p) \/ CreateAdmin(p) \/ BumpAll(p) \/ SaveTenant(p)
    \/ Purge(p) \/ DeleteUsers(p) \/ DeleteTenant(p) \/ Write(p)

Next == \E p \in Procs : Panel(p) \/ Personal(p) \/ Platform(p) \/ Steps(p) \/ Dies(p)

Spec == Init /\ [][Next]_vars
-----------------------------------------------------------------------------
TypeOK ==
    /\ \A u \in Users : /\ user[u].state \in {"no", "yes", "gone"} /\ user[u].role \in {"admin", "user"}
                        /\ user[u].version \in 0..MaxEvents
    /\ tenant \in {"no", "on", "off", "gone"}
    /\ \A s \in sessions : s.user \in Users /\ s.version \in 0..MaxEvents

\* "Impede que o cliente fique sem nenhum administrador ativo": a tenant has an active admin
\* at every moment, whoever changes and removes users, the superadmin included, with two
\* exceptions.  Two requests that look before either has written may each take one of the
\* last two away (overtaken); and the superadmin's change of a role or of an access is not
\* checked at all (imposed): what is checked is one's own account and, before a removal, the
\* count of the active admins.
AdminKept ==
    tenant \in {"on", "off"} /\ ~overtaken /\ ~imposed /\ ~crashed =>
        \/ \E u \in Users : IsAdmin(u)
        \/ \E p \in Procs : proc[p].pc \in {"admin", "tenant"}

\* A session signed before its user's sessions were ended (a password, an access, a logout,
\* a tenant) is never accepted again, unless a save wrote the version of an old copy.
EndedStaysEnded == \A s \in ended : Accepted(s) => s.user \in clobbered

\* A password nobody knows comes with an invite that is pending, unless the request that
\* makes both ended half-way: nobody is shut out of an account in use.
NobodyLockedOut ==
    \A u \in Users : Exists(u) /\ user[u].password = "random" /\ ~crashed =>
        user[u].invite \/ \E p \in Procs : At(p, "save") /\ proc[p].on = u /\ "invite" \in DOMAIN proc[p].patch

\* What the comment says without the exceptions; it does not hold.
AlwaysAnAdmin ==
    tenant \in {"on", "off"} /\ ~crashed =>
        \/ \E u \in Users : IsAdmin(u)
        \/ \E p \in Procs : proc[p].pc \in {"admin", "tenant"}

\* "Remocao total": a tenant that is gone leaves no user and no document but those of the
\* collections the purge does not name (import jobs) and those a request that was admitted
\* before wrote after their collection had been deleted.
NothingLeft ==
    tenant = "gone" => /\ docs \subseteq late \cup (Kinds \ PurgedKinds)
                       /\ {u \in Users : Exists(u)} \subseteq late

\* The same without the first exception; it does not hold.
TotalRemoval == tenant = "gone" => docs \subseteq late
=============================================================================
