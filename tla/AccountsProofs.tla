--------------------------- MODULE AccountsProofs ---------------------------
(***************************************************************************)
(* The promises of Accounts hold for any number of users and of requests   *)
(* in flight.                                                              *)
(*                                                                         *)
(* AccountInv says what a request in flight may hold: its user was met, a   *)
(* patch of role and access is not of the one who asks, a version is the    *)
(* successor of the copy; and that nothing happens before the founder.  On  *)
(* top of it VersionInv orders copies, tokens and versions, PurgeInv says   *)
(* what each step of a removal has left, KeptInv that a request about to    *)
(* take an active admin away leaves another one, unless it was overtaken;   *)
(* NobodyLockedOut is inductive with it.                                    *)
(***************************************************************************)
EXTENDS Accounts, FiniteSetTheorems, TLAPS

\* The documents and the fields of User.
Roles == {"admin", "user"}
Passwords == {"own", "random"}
Documents == [state: {"no", "yes", "gone"}, role: Roles, active: BOOLEAN, version: Nat,
              password: Passwords, invite: BOOLEAN, reset: BOOLEAN]

\* A patch writes fields of the document with values of theirs, never its state; a password
\* nobody knows comes with an invite, and an invite ends with a password.
IsPatch(f) ==
    /\ DOMAIN f \subseteq {"role", "active", "version", "password", "invite", "reset"}
    /\ "role" \in DOMAIN f => f.role \in Roles
    /\ "active" \in DOMAIN f => f.active \in BOOLEAN
    /\ "version" \in DOMAIN f => f.version \in Nat
    /\ "password" \in DOMAIN f => f.password \in Passwords
    /\ "invite" \in DOMAIN f => f.invite \in BOOLEAN
    /\ "reset" \in DOMAIN f => f.reset \in BOOLEAN
    /\ "password" \in DOMAIN f /\ f.password = "random" => "invite" \in DOMAIN f /\ f.invite
    /\ "invite" \in DOMAIN f /\ ~f.invite => "password" \in DOMAIN f /\ f.password = "own"

\* Where a request is, and what it holds there.
OfUser == {"save", "login", "count", "delete"}
Pcs == OfUser \cup {"idle", "admin", "bump", "off", "on", "purge", "users", "tenant", "write"}

IsRequest(r) ==
    /\ DOMAIN r = {"pc", "by", "on", "patch", "copy", "signs"}
    /\ r.pc \in Pcs /\ r.copy \in Nat /\ r.signs \in BOOLEAN
    /\ r.pc \in OfUser => r.on \in Users
    /\ r.pc = "save" => IsPatch(r.patch)

\* The state: users, requests, and the rest.
UserTypes == user \in [Users -> Documents]
RequestTypes == DOMAIN proc = Procs /\ \A p \in Procs : IsRequest(proc[p])
OtherTypes ==
    /\ tenant \in {"no", "on", "off", "gone"} /\ docs \subseteq Kinds
    /\ \A s \in sessions : s.user \in Users /\ s.version \in Nat
    /\ ended \subseteq sessions
    /\ overtaken \in BOOLEAN /\ imposed \in BOOLEAN /\ crashed \in BOOLEAN
AccountTypes == UserTypes /\ RequestTypes /\ OtherTypes

\* Before the first administrator is created there is nobody, and no other request.
Early ==
    /\ tenant = "no" => \A p \in Procs : At(p, "idle")
    /\ \A p \in Procs : At(p, "admin") => tenant = "on" /\ \A q \in Procs \ {p} : At(q, "idle")
    /\ tenant = "no" \/ (\E p \in Procs : At(p, "admin")) =>
          sessions = {} /\ docs = {} /\ \A u \in Users : user[u].state = "no"

\* A request on a user met it; what it saves of role and access is not of its own.
RequestInv ==
    \A p \in Procs :
        /\ proc[p].pc \in OfUser => user[proc[p].on].state # "no"
        /\ At(p, "delete") \/ At(p, "count") => proc[p].by # proc[p].on
        /\ At(p, "save") => 
              /\ DOMAIN proc[p].patch \cap {"role", "active"} # {} => proc[p].by # proc[p].on
              /\ Revokes(p) => proc[p].patch.version = proc[p].copy + 1
              /\ proc[p].signs => Revokes(p)

\* Copies and tokens are of versions that were, and an ended one is behind.
VersionInv ==
    /\ \A p \in Procs : proc[p].pc \in {"save", "login"} /\ proc[p].on \notin clobbered =>
          proc[p].copy <= user[proc[p].on].version
    /\ \A s \in sessions : user[s.user].state # "no"
    /\ \A s \in sessions : s.user \notin clobbered => s.version <= user[s.user].version
    /\ \A s \in ended : s.user \notin clobbered /\ Exists(s.user) => s.version < user[s.user].version

\* What each step of a removal has left.
PurgeInv ==
    /\ \A p \in Procs : At(p, "users") => docs \cap PurgedKinds \subseteq late
    /\ tenant = "gone" \/ (\E p \in Procs : At(p, "tenant")) =>
          docs \cap PurgedKinds \subseteq late /\ \A u \in Users : Exists(u) => u \in late

\* A request that may take an active admin away, and that another one would be left.
Takes(p) ==
    \/ At(p, "delete")
    \/ At(p, "save") /\ proc[p].by # Super /\ DOMAIN proc[p].patch \cap {"role", "active"} # {}
Spared(p) == \E a \in Users \ {proc[p].on} : IsAdmin(a)
Kept == (\E u \in Users : IsAdmin(u)) /\ \A p \in Procs \ stale : Takes(p) => Spared(p)
KeptInv ==
    /\ tenant \in {"on", "off"} /\ ~overtaken /\ ~imposed /\ ~crashed
    /\ \A p \in Procs : proc[p].pc \notin {"admin", "tenant"}
    => Kept

-----------------------------------------------------------------------------
(* What a patch does to a document.                                         *)

\* A saved patch sets its fields and leaves the others.
LEMMA PatchedDocument ==
  ASSUME NEW d \in Documents, NEW f, IsPatch(f)
  PROVE  /\ Patched(d, f) \in Documents
         /\ Patched(d, f).state = d.state
         /\ "role" \notin DOMAIN f => Patched(d, f).role = d.role
         /\ "active" \notin DOMAIN f => Patched(d, f).active = d.active
         /\ Patched(d, f).version = IF "version" \in DOMAIN f THEN f.version ELSE d.version
         /\ Patched(d, f).password = IF "password" \in DOMAIN f THEN f.password ELSE d.password
         /\ Patched(d, f).invite = IF "invite" \in DOMAIN f THEN f.invite ELSE d.invite
<1> DEFINE e == Patched(d, f)
           F == {"state", "role", "active", "version", "password", "invite", "reset"}
<1>1. DOMAIN d = F /\ "state" \notin DOMAIN f
  BY DEF Documents, IsPatch
<1>2. e = [x \in F |-> IF x \in DOMAIN f THEN f[x] ELSE d[x]]
  BY <1>1 DEF Patched
<1>3. \A x \in F : e[x] = IF x \in DOMAIN f THEN f[x] ELSE d[x]
  BY <1>2
<1>4. e.state \in {"no", "yes", "gone"} /\ e.role \in Roles /\ e.active \in BOOLEAN
  BY <1>1, <1>3 DEF Documents, IsPatch
<1>5. e.version \in Nat /\ e.password \in Passwords /\ e.invite \in BOOLEAN /\ e.reset \in BOOLEAN
  BY <1>1, <1>3 DEF Documents, IsPatch
<1>6. e = [state |-> e.state, role |-> e.role, active |-> e.active, version |-> e.version,
           password |-> e.password, invite |-> e.invite, reset |-> e.reset]
  BY <1>2
<1>7. e \in Documents
  BY <1>4, <1>5, <1>6 DEF Documents
<1> QED BY <1>1, <1>3, <1>7

\* The patches of the requests.
LEMMA PatchesOfRequests ==
  ASSUME NEW u \in Users, user[u] \in Documents
  PROVE  /\ IsPatch([role |-> IF user[u].role = "admin" THEN "user" ELSE "admin"])
         /\ IsPatch(SwitchAccess(u))
         /\ IsPatch([password |-> "own", version |-> NextVersion(u)])
         /\ IsPatch([version |-> NextVersion(u)])
         /\ IsPatch(Invitation)
         /\ IsPatch([reset |-> TRUE])
         /\ IsPatch([invite |-> FALSE, password |-> "own", version |-> NextVersion(u)])
         /\ IsPatch([reset |-> FALSE, password |-> "own", version |-> NextVersion(u)])
<1> USE DEF Documents, Roles, Passwords, IsPatch, NextVersion, Invitation
<1>1. IsPatch([role |-> IF user[u].role = "admin" THEN "user" ELSE "admin"])
  OBVIOUS
<1>2. IsPatch(SwitchAccess(u))
  BY DEF SwitchAccess
<1>3. IsPatch([password |-> "own", version |-> NextVersion(u)]) /\ IsPatch([version |-> NextVersion(u)])
  OBVIOUS
<1>4. IsPatch(Invitation) /\ IsPatch([reset |-> TRUE])
  OBVIOUS
<1>5. IsPatch([invite |-> FALSE, password |-> "own", version |-> NextVersion(u)])
  OBVIOUS
<1>6. IsPatch([reset |-> FALSE, password |-> "own", version |-> NextVersion(u)])
  OBVIOUS
<1> QED BY <1>1, <1>2, <1>3, <1>4, <1>5, <1>6
-----------------------------------------------------------------------------
(* The steps, by what they do.                                              *)

\* A request that loads a user to save it: whoever asks, whatever the patch.
Loads(p, by, u, f, signs) ==
    /\ Load(p, by, u, f, signs)
    /\ u \in Users /\ signs \in BOOLEAN /\ IsPatch(f)
    /\ DOMAIN f \cap {"role", "active"} # {} => by # u /\ by \in Administrators
    /\ "version" \in DOMAIN f => f.version = user[u].version + 1
    /\ signs => "version" \in DOMAIN f

\* What the pages of the panel and of the users ask for.
Asked(p) ==
    \/ \E by, f, signs : \E u \in Users : Loads(p, by, u, f, signs)
    \/ \E by \in Administrators, u \in Users : Create(p, by, u) \/ Remove(p, by, u)
    \/ \E u \in Users : LogoutAll(p, u) \/ Login(p, u) \/ Work(p, u)

\* What a page asks for is one of these.
LEMMA Requests == ASSUME AccountTypes, NEW p \in Procs, Panel(p) \/ Personal(p) PROVE Asked(p)
<1>1. ASSUME NEW by \in Administrators, NEW u \in Users,
             SetRole(p, by, u) \/ SetActive(p, by, u) \/ SetPassword(p, by, u) \/ Revoke(p, by, u)
             \/ Resend(p, by, u) \/ IssueReset(p, by, u)
      PROVE  \E f, signs : Loads(p, by, u, f, signs)
  <2>1. user[u] \in Documents
    BY DEF AccountTypes, UserTypes
  <2>2. CASE SetRole(p, by, u)
    <3> DEFINE f == [role |-> IF user[u].role = "admin" THEN "user" ELSE "admin"]
    <3>1. Loads(p, by, u, f, FALSE)
      BY <2>1, <2>2, PatchesOfRequests DEF SetRole, Loads
    <3> QED BY <3>1
  <2>3. CASE SetActive(p, by, u)
    <3>1. "version" \in DOMAIN SwitchAccess(u) => SwitchAccess(u).version = user[u].version + 1
      BY DEF SwitchAccess, NextVersion
    <3>2. Loads(p, by, u, SwitchAccess(u), FALSE)
      BY <2>1, <2>3, <3>1, PatchesOfRequests DEF SetActive, Loads
    <3> QED BY <3>2
  <2>4. CASE SetPassword(p, by, u)
    <3>1. Loads(p, by, u, [password |-> "own", version |-> NextVersion(u)], FALSE)
      BY <2>1, <2>4, PatchesOfRequests DEF SetPassword, Loads, NextVersion
    <3> QED BY <3>1
  <2>5. CASE Revoke(p, by, u)
    <3>1. Loads(p, by, u, [version |-> NextVersion(u)], FALSE)
      BY <2>1, <2>5, PatchesOfRequests DEF Revoke, Loads, NextVersion
    <3> QED BY <3>1
  <2>6. CASE Resend(p, by, u)
    <3>1. Loads(p, by, u, Invitation, FALSE)
      BY <2>1, <2>6, PatchesOfRequests DEF Resend, Loads, Invitation
    <3> QED BY <3>1
  <2>7. CASE IssueReset(p, by, u)
    <3>1. Loads(p, by, u, [reset |-> TRUE], FALSE)
      BY <2>1, <2>7, PatchesOfRequests DEF IssueReset, Loads
    <3> QED BY <3>1
  <2> QED BY <1>1, <2>2, <2>3, <2>4, <2>5, <2>6, <2>7
<1>2. ASSUME NEW u \in Users,
             Accept(p, u) \/ Reset(p, u) \/ ChangePassword(p, u) \/ RequestReset(p, u)
      PROVE  \E f, signs : Loads(p, u, u, f, signs)
  <2>1. user[u] \in Documents
    BY DEF AccountTypes, UserTypes
  <2>2. CASE Accept(p, u)
    <3>1. Loads(p, u, u, [invite |-> FALSE, password |-> "own", version |-> NextVersion(u)], TRUE)
      BY <2>1, <2>2, PatchesOfRequests DEF Accept, Loads, NextVersion
    <3> QED BY <3>1
  <2>3. CASE Reset(p, u)
    <3>1. Loads(p, u, u, [reset |-> FALSE, password |-> "own", version |-> NextVersion(u)], TRUE)
      BY <2>1, <2>3, PatchesOfRequests DEF Reset, Loads, NextVersion
    <3> QED BY <3>1
  <2>4. CASE ChangePassword(p, u)
    <3>1. Loads(p, u, u, [version |-> NextVersion(u)], TRUE)
      BY <2>1, <2>4, PatchesOfRequests DEF ChangePassword, Loads, NextVersion
    <3> QED BY <3>1
  <2>5. CASE RequestReset(p, u)
    <3>1. Loads(p, u, u, [reset |-> TRUE], FALSE)
      BY <2>1, <2>5, PatchesOfRequests DEF RequestReset, Loads
    <3> QED BY <3>1
  <2> QED BY <1>2, <2>2, <2>3, <2>4, <2>5
<1>3. CASE Panel(p)
  BY <1>1, <1>3 DEF Panel, Asked
<1>4. CASE Personal(p)
  BY <1>2, <1>4 DEF Personal, Asked
<1> QED BY <1>3, <1>4

\* The requests that a step leaves.
LEMMA RequestKinds ==
  ASSUME AccountTypes, NEW u \in Users
  PROVE  /\ IsRequest(Idle)
         /\ \A by : \A w \in OfUser \ {"save"} : IsRequest(Request(w, by, u, 0))
         /\ IsRequest(Request("login", Super, u, user[u].version))
         /\ IsRequest(Request("write", u, u, 0))
         /\ \A by, f : \A signs \in BOOLEAN : IsPatch(f) => IsRequest(Saving(by, u, f, user[u].version, signs))
         /\ IsRequest(Saving(u, u, Invitation, 0, FALSE))
<1>1. user[u].version \in Nat
  BY DEF AccountTypes, UserTypes, Documents
<1>2. IsPatch(Invitation)
  BY PatchesOfRequests DEF AccountTypes, UserTypes
<1> QED BY <1>1, <1>2 DEF IsRequest, Idle, Request, Saving, Pcs, OfUser

\* What a request is after its step.
LEMMA RequestAfter ==
  ASSUME AccountTypes, NEW p \in Procs, Asked(p) \/ Platform(p) \/ Steps(p) \/ Dies(p)
  PROVE  \E r : IsRequest(r) /\ (proc' = [proc EXCEPT ![p] = r] \/ proc' = proc)
<1> DEFINE Goal == \E r : IsRequest(r) /\ (proc' = [proc EXCEPT ![p] = r] \/ proc' = proc)
<1> SUFFICES Goal
  OBVIOUS
<1>1. IsRequest(Idle) /\ IsRequest(proc[p])
  BY AccountsAssumption, RequestKinds DEF AccountTypes, RequestTypes
<1>2. \A w \in Pcs \ OfUser : IsRequest([proc[p] EXCEPT !.pc = w])
  BY <1>1 DEF IsRequest, Pcs, OfUser
<1> HIDE DEF Goal
<1>3. CASE Asked(p)
  <2>1. ASSUME NEW by, NEW f, NEW signs, NEW u \in Users, Loads(p, by, u, f, signs) PROVE Goal
    <3>1. IsRequest(Saving(by, u, f, user[u].version, signs))
      BY <2>1, RequestKinds DEF Loads
    <3> QED BY <2>1, <3>1 DEF Goal, Loads, Load
  <2>2. ASSUME NEW by, NEW u \in Users, Create(p, by, u) PROVE Goal
    <3>1. IsRequest(Saving(u, u, Invitation, 0, FALSE))
      BY RequestKinds
    <3> QED BY <2>2, <3>1 DEF Goal, Create
  <2>3. ASSUME NEW by, NEW u \in Users, Remove(p, by, u) PROVE Goal
    <3> DEFINE w == IF user[u].role = "admin" THEN "count" ELSE "delete"
    <3>1. w \in OfUser \ {"save"}
      BY DEF OfUser
    <3>2. IsRequest(Request(w, by, u, 0))
      BY <3>1, RequestKinds
    <3> QED BY <2>3, <3>2 DEF Goal, Remove
  <2>4. ASSUME NEW u \in Users, LogoutAll(p, u) \/ Login(p, u) \/ Work(p, u) PROVE Goal
    BY <1>1, <2>4, RequestKinds DEF Goal, LogoutAll, Login, Work
  <2>5. (\E by, f, signs : \E u \in Users : Loads(p, by, u, f, signs)) => Goal
    BY <2>1
  <2>6. (\E by \in Administrators, u \in Users : Create(p, by, u) \/ Remove(p, by, u)) => Goal
    BY <2>2, <2>3
  <2>7. (\E u \in Users : LogoutAll(p, u) \/ Login(p, u) \/ Work(p, u)) => Goal
    BY <2>4
  <2> QED BY <1>3, <2>5, <2>6, <2>7 DEF Asked
<1>4. CASE Platform(p)
  BY <1>2, <1>4 DEF Goal, Goes, Pcs, OfUser, Platform, CreateTenant, SwitchOff, SwitchOn, RemoveTenant, SuperStarts
<1>5. CASE Steps(p)
  <2>1. CASE Save(p) \/ Sign(p) \/ Delete(p) \/ SaveTenant(p) \/ DeleteTenant(p) \/ Write(p)
    BY <1>1, <2>1 DEF Goal, Returns, Save, Sign, Delete, SaveTenant, DeleteTenant, Write
  <2>2. CASE BumpAll(p) \/ Purge(p) \/ DeleteUsers(p)
    BY <1>2, <2>2 DEF Goal, Goes, Pcs, OfUser, BumpAll, Purge, DeleteUsers
  <2>3. CASE CountAdmins(p)
    <3>1. IsRequest([proc[p] EXCEPT !.pc = "delete"])
      BY <1>1, <2>3 DEF CountAdmins, IsRequest, At, Pcs, OfUser
    <3> QED BY <1>1, <2>3, <3>1 DEF Goal, Goes, Returns, CountAdmins
  <2>4. CASE CreateAdmin(p)
    <3>1. IsRequest(Saving(Founder, Founder, Invitation, 0, FALSE))
      BY AccountsAssumption, RequestKinds
    <3> QED BY <1>1, <2>4, <3>1 DEF Goal, Returns, CreateAdmin
  <2> QED BY <1>5, <2>1, <2>2, <2>3, <2>4 DEF Steps
<1>6. CASE Dies(p)
  BY <1>1, <1>6 DEF Goal, Returns, Dies
<1> QED BY <1>3, <1>4, <1>5, <1>6 DEF Goal

\* A user stays a document of User.
LEMMA UserAfter ==
  ASSUME AccountTypes, NEW p \in Procs, Asked(p) \/ Platform(p) \/ Steps(p) \/ Dies(p)
  PROVE  UserTypes'
<1> USE DEF AccountTypes, UserTypes
<1>1. CASE Asked(p)
  <2>1. \A role \in Roles, password \in Passwords : Newcomer(role, password) \in Documents
    BY DEF Documents, Newcomer, Roles, Passwords
  <2>2. ASSUME NEW by, NEW u \in Users, Create(p, by, u) PROVE UserTypes'
    BY <2>1, <2>2 DEF Create, Roles, Passwords
  <2>3. ASSUME NEW u \in Users, LogoutAll(p, u) PROVE UserTypes'
    BY <2>3 DEF LogoutAll, Documents
  <2> QED BY <1>1, <2>2, <2>3 DEF Asked, Loads, Load, Remove, Login, Work
<1>2. CASE Platform(p) \/ Dies(p)
  BY <1>2 DEF Platform, CreateTenant, SwitchOff, SwitchOn, RemoveTenant, SuperStarts, Dies
<1>3. CASE Save(p)
  <2> DEFINE u == proc[p].on
  <2>1. u \in Users /\ IsPatch(proc[p].patch) /\ user[u] \in Documents
    BY <1>3 DEF Save, At, RequestTypes, IsRequest, OfUser
  <2>2. Patched(user[u], proc[p].patch) \in Documents
    BY <2>1, PatchedDocument
  <2> QED BY <1>3, <2>1, <2>2 DEF Save
<1>4. CASE Delete(p)
  <2>1. proc[p].on \in Users
    BY <1>4 DEF Delete, At, RequestTypes, IsRequest, OfUser
  <2> QED BY <1>4, <2>1 DEF Delete, Documents
<1>5. CASE BumpAll(p)
  BY <1>5 DEF BumpAll, Documents
<1>6. CASE DeleteUsers(p)
  BY <1>6 DEF DeleteUsers, Documents
<1>7. CASE CreateAdmin(p)
  <2>1. \A password \in Passwords : Newcomer("admin", password) \in Documents
    BY DEF Documents, Newcomer, Roles, Passwords
  <2> QED BY <1>7, <2>1, AccountsAssumption DEF CreateAdmin, Passwords
<1>8. CASE Sign(p) \/ CountAdmins(p) \/ SaveTenant(p) \/ Purge(p) \/ DeleteTenant(p) \/ Write(p)
  BY <1>8 DEF Sign, CountAdmins, SaveTenant, Purge, DeleteTenant, Write
<1> QED BY <1>1, <1>2, <1>3, <1>4, <1>5, <1>6, <1>7, <1>8 DEF Steps

\* Taking an admin away, or not, leaves the history with its types.
LEMMA TakenTypes ==
  ASSUME AccountTypes, NEW p \in Procs, NEW bySuper \in BOOLEAN, Taken(p, bySuper)
  PROVE  overtaken' \in BOOLEAN /\ imposed' \in BOOLEAN
<1>1. CASE AnAdminGoes
  BY <1>1 DEF Taken, AccountTypes, OtherTypes
<1>2. CASE ~AnAdminGoes
  <2>1. UNCHANGED people
    BY <1>2 DEF Taken
  <2> QED BY <2>1 DEF people, AccountTypes, OtherTypes
<1> QED BY <1>1, <1>2

\* The tenant, the sessions and the history keep their types.
LEMMA OthersAfter ==
  ASSUME AccountTypes, NEW p \in Procs, Asked(p) \/ Platform(p) \/ Steps(p) \/ Dies(p)
  PROVE  OtherTypes'
<1> USE DEF AccountTypes, OtherTypes, history, people, Fresh
<1>1. CASE Asked(p)
  <2>1. ASSUME NEW u \in Users, LogoutAll(p, u) PROVE OtherTypes'
    <3>1. ended' = ended \cup {s \in sessions : s.user = u}
          /\ UNCHANGED <<tenant, docs, sessions, overtaken, imposed, crashed>>
      BY <2>1 DEF LogoutAll, people
    <3> QED BY <3>1
  <2>2. ASSUME NEW by, NEW u \in Users, Create(p, by, u) PROVE OtherTypes'
    <3>1. UNCHANGED <<tenant, docs, sessions, ended, overtaken, imposed, crashed>>
      BY <2>2 DEF Create, people
    <3> QED BY <3>1
  <2> QED BY <1>1, <2>1, <2>2 DEF Asked, Loads, Load, Remove, Login, Work
<1>2. CASE Platform(p) \/ Dies(p)
  BY <1>2 DEF Platform, CreateTenant, SwitchOff, SwitchOn, RemoveTenant, SuperStarts, Dies
<1>3. CASE Save(p)
  <2>1. proc[p].on \in Users /\ proc[p].copy + 1 \in Nat
    BY <1>3 DEF Save, At, RequestTypes, IsRequest, OfUser
  <2>2. CASE Exists(proc[p].on)
    <3>1. /\ sessions' \in {sessions, sessions \cup {[user |-> proc[p].on, version |-> proc[p].copy + 1]}}
          /\ ended' \in {ended, ended \cup {s \in sessions : s.user = proc[p].on}}
          /\ UNCHANGED <<tenant, docs, crashed>> /\ Taken(p, proc[p].by = Super)
      BY <1>3, <2>2 DEF Save
    <3>2. overtaken' \in BOOLEAN /\ imposed' \in BOOLEAN
      BY <3>1, TakenTypes
    <3> QED BY <2>1, <3>1, <3>2
  <2> QED BY <1>3, <2>2 DEF Save
<1>4. CASE Sign(p)
  <2>1. proc[p].on \in Users /\ proc[p].copy \in Nat
    BY <1>4 DEF Sign, At, RequestTypes, IsRequest, OfUser
  <2> QED BY <1>4, <2>1 DEF Sign
<1>5. CASE CountAdmins(p) \/ CreateAdmin(p) \/ BumpAll(p) \/ SaveTenant(p)
  BY <1>5 DEF CountAdmins, CreateAdmin, BumpAll, SaveTenant, At
<1>6. CASE Delete(p)
  BY <1>6, TakenTypes DEF Delete
<1>7. CASE Purge(p) \/ DeleteUsers(p) \/ DeleteTenant(p) \/ Write(p)
  BY <1>7 DEF Purge, DeleteUsers, DeleteTenant, Write
<1> QED BY <1>1, <1>2, <1>3, <1>4, <1>5, <1>6, <1>7 DEF Steps

\* Types are kept.
LEMMA TypesStep == ASSUME AccountTypes, [Next]_vars PROVE AccountTypes'
<1>1. ASSUME NEW p \in Procs, Asked(p) \/ Platform(p) \/ Steps(p) \/ Dies(p) PROVE AccountTypes'
  <2>1. PICK r : IsRequest(r) /\ (proc' = [proc EXCEPT ![p] = r] \/ proc' = proc)
    BY <1>1, RequestAfter
  <2>2. RequestTypes'
    BY <2>1 DEF AccountTypes, RequestTypes
  <2> QED BY <1>1, <2>2, UserAfter, OthersAfter DEF AccountTypes
<1>2. CASE UNCHANGED vars
  BY <1>2 DEF vars, history, people, AccountTypes, UserTypes, RequestTypes, OtherTypes
<1> QED BY <1>1, <1>2, Requests DEF Next

-----------------------------------------------------------------------------
(* The other requests, and the order of versions.                           *)

\* Where a request is after its step.
LEMMA Moves ==
  ASSUME AccountTypes, NEW p \in Procs
  PROVE  /\ \A w : Goes(p, w) =>
               proc'[p].pc = w /\ proc'[p].by = proc[p].by /\ proc'[p].on = proc[p].on
         /\ Returns(p) => proc'[p] = Idle
         /\ Idle.pc = "idle"
<1>1. DOMAIN proc = Procs /\ DOMAIN proc[p] = {"pc", "by", "on", "patch", "copy", "signs"}
  BY DEF AccountTypes, RequestTypes, IsRequest
<1>2. ASSUME NEW w, Goes(p, w)
      PROVE  proc'[p].pc = w /\ proc'[p].by = proc[p].by /\ proc'[p].on = proc[p].on
  <2>1. proc'[p] = [proc[p] EXCEPT !.pc = w]
    BY <1>1, <1>2 DEF Goes
  <2> QED BY <1>1, <2>1
<1>3. Returns(p) => proc'[p] = Idle
  BY <1>1 DEF Returns
<1> QED BY <1>2, <1>3 DEF Idle, Request

\* A step of one request.
Step(p) == Asked(p) \/ Platform(p) \/ Steps(p) \/ Dies(p)

\* A step of a request is not one of another.
LEMMA OthersStay == ASSUME AccountTypes, NEW p \in Procs, Step(p) PROVE \A q \in Procs \ {p} : proc'[q] = proc[q]
<1>1. PICK r : IsRequest(r) /\ (proc' = [proc EXCEPT ![p] = r] \/ proc' = proc)
  BY RequestAfter DEF Step
<1> QED BY <1>1 DEF AccountTypes, RequestTypes

\* Before the first administrator only its creation, or its end, happens.
LEMMA EarlyStep == ASSUME AccountTypes, Early, NEW p \in Procs, Step(p) PROVE Early'
<1> USE DEF AccountTypes, RequestTypes
<1>1. CASE tenant = "no"
  <2>1. sessions = {} /\ docs = {} /\ \A u \in Users : ~Exists(u)
    BY <1>1 DEF Early, Exists
  <2>2. \A q \in Procs : At(q, "idle")
    BY <1>1 DEF Early
  <2>3. Administrators = {} /\ Authenticated = {}
    BY <1>1, <2>1 DEF Administrators, Authenticated
  <2>4. ~Asked(p)
    BY <1>1, <2>1, <2>3 DEF Asked, Loads, Load, Create, Remove, LogoutAll, Login, Work
  <2>5. ~Steps(p) /\ ~Dies(p)
    BY <2>2 DEF Steps, Save, Sign, CountAdmins, Delete, CreateAdmin, BumpAll, SaveTenant, Purge,
                DeleteUsers, DeleteTenant, Write, Dies, At
  <2>6. CreateTenant(p)
    BY <1>1, <2>4, <2>5 DEF Step, Platform, SwitchOff, SwitchOn, RemoveTenant
  <2>7. /\ tenant' = "on" /\ UNCHANGED <<user, docs, sessions>>
        /\ \A q \in Procs \ {p} : At(q, "idle")'
    BY <2>2, <2>6, OthersStay DEF CreateTenant, SuperStarts, At
  <2>8. Early
    OBVIOUS
  <2> QED BY <1>1, <2>7, <2>8 DEF Early, At
<1>2. ASSUME NEW a \in Procs, At(a, "admin") PROVE Early'
  <2>1. tenant = "on" /\ sessions = {} /\ (\A u \in Users : ~Exists(u)) /\ \A q \in Procs \ {a} : At(q, "idle")
    BY <1>2 DEF Early, Exists
  <2>2. ~Known
    BY <1>2 DEF Known
  <2>3. Administrators = {} /\ Authenticated = {}
    BY <2>1, <2>2 DEF Administrators, Authenticated
  <2>4. ~Asked(p)
    BY <2>1, <2>3 DEF Asked, Loads, Load, Create, Remove, LogoutAll, Login, Work
  <2>5. ~Platform(p)
    BY <2>2 DEF Platform, CreateTenant, SwitchOff, SwitchOn, RemoveTenant, SuperStarts
  <2>6. CreateAdmin(p) \/ Dies(p)
    BY <1>2, <2>1, <2>4, <2>5 DEF Step, Steps, Save, Sign, CountAdmins, Delete, BumpAll, SaveTenant, Purge,
                DeleteUsers, DeleteTenant, Write, At
  <2>7. p = a
    BY <2>1, <2>6 DEF CreateAdmin, Dies, At
  <2>8. \A q \in Procs : ~At(q, "admin")'
    <3>1. ~At(p, "admin")'
      BY <2>6 DEF CreateAdmin, Dies, Returns, At, Idle, Request, Saving
    <3> QED BY <2>1, <2>7, <3>1, OthersStay DEF At
  <2>9. tenant' # "no"
    BY <2>1, <2>6 DEF CreateAdmin, Dies
  <2> QED BY <2>8, <2>9 DEF Early
<1>3. CASE tenant # "no" /\ \A q \in Procs : ~At(q, "admin")
  <2>1. tenant' # "no"
    BY <1>3 DEF Step, Asked, Loads, Load, Create, Remove, LogoutAll, Login, Work,
                Platform, CreateTenant, SwitchOff, SwitchOn, RemoveTenant, SuperStarts, Dies,
                Steps, Save, Sign, CountAdmins, Delete, CreateAdmin, BumpAll, SaveTenant, Purge,
                DeleteUsers, DeleteTenant, Write, At
  <2>2. ~At(p, "admin")'
    <3> USE DEF At
    <3>1. CASE Asked(p)
      BY <1>3, <3>1 DEF Asked, Loads, Load, Create, Remove, LogoutAll, Login, Work, Request, Saving
    <3>2. CASE Platform(p)
      <4>1. \E w \in {"bump", "on", "purge"} : Goes(p, w)
        BY <1>3, <3>2 DEF Platform, CreateTenant, SwitchOff, SwitchOn, RemoveTenant, SuperStarts
      <4> QED BY <4>1, Moves
    <3>3. CASE Save(p) \/ Sign(p) \/ Delete(p) \/ SaveTenant(p) \/ DeleteTenant(p) \/ Write(p) \/ Dies(p)
      <4>1. Returns(p)
        BY <3>3 DEF Save, Sign, Delete, SaveTenant, DeleteTenant, Write, Dies
      <4> QED BY <4>1, Moves
    <3>4. CASE CountAdmins(p) \/ BumpAll(p) \/ Purge(p) \/ DeleteUsers(p)
      <4>1. Returns(p) \/ \E w \in {"delete", "off", "users", "tenant"} : Goes(p, w)
        BY <3>4 DEF CountAdmins, BumpAll, Purge, DeleteUsers
      <4> QED BY <4>1, Moves
    <3>5. ~CreateAdmin(p)
      BY <1>3 DEF CreateAdmin
    <3> QED BY <3>1, <3>2, <3>3, <3>4, <3>5 DEF Step, Steps
  <2> QED BY <1>3, <2>1, <2>2, OthersStay DEF Early, At
<1> QED BY <1>1, <1>2, <1>3
\* Users come once, go once, and their versions grow but from an old copy.
Grows(u) ==
    /\ user[u].state # "no" => user[u].state' # "no" /\ (Exists(u)' => Exists(u))
    /\ user[u].state # "no" /\ u \notin clobbered' => user[u].version <= user[u].version'

\* Whatever the step, users grow.
LEMMA UsersGrow ==
  ASSUME AccountTypes, Early, RequestInv, NEW p \in Procs, Step(p)
  PROVE  clobbered \subseteq clobbered' /\ \A u \in Users : Grows(u)
<1> SUFFICES ASSUME NEW u \in Users PROVE clobbered \subseteq clobbered' /\ Grows(u)
  BY AccountsAssumption
<1>1. user[u] \in Documents /\ user[u].version \in Nat
  BY DEF AccountTypes, UserTypes, Documents
<1>2. ASSUME UNCHANGED <<user, clobbered>> PROVE clobbered \subseteq clobbered' /\ Grows(u)
  BY <1>1, <1>2 DEF Grows, Exists
<1>3. CASE Asked(p)
  <2>1. ASSUME NEW by, NEW v \in Users, Create(p, by, v) PROVE clobbered' = clobbered /\ Grows(u)
    BY <1>1, <2>1 DEF Create, Grows, Exists, AccountTypes, UserTypes
  <2>2. ASSUME NEW v \in Users, LogoutAll(p, v) PROVE clobbered' = clobbered /\ Grows(u)
    BY <1>1, <2>2 DEF LogoutAll, Grows, Exists, AccountTypes, UserTypes, Documents
  <2> QED BY <1>2, <1>3, <2>1, <2>2 DEF Asked, Loads, Load, Remove, Login, Work
<1>4. CASE Platform(p) \/ Dies(p)
  BY <1>2, <1>4 DEF Platform, CreateTenant, SwitchOff, SwitchOn, RemoveTenant, SuperStarts, Dies
<1>5. CASE Save(p)
  <2> DEFINE v == proc[p].on
             f == proc[p].patch
  <2>1. v \in Users /\ IsPatch(f) /\ proc[p].copy \in Nat /\ (Revokes(p) => f.version = proc[p].copy + 1)
    BY <1>5 DEF Save, At, AccountTypes, RequestTypes, IsRequest, OfUser, RequestInv
  <2>2. CASE ~Exists(v)
    BY <1>2, <1>5, <2>2 DEF Save
  <2>3. CASE Exists(v)
    <3>1. user' = [user EXCEPT ![v] = Patched(user[v], f)] /\ clobbered \subseteq clobbered'
      BY <1>5, <2>3 DEF Save
    <3>2. user[v] \in Documents /\ user[v].version \in Nat
      BY <2>1 DEF AccountTypes, UserTypes, Documents
    <3>3. /\ Patched(user[v], f).state = user[v].state
          /\ Patched(user[v], f).version = IF "version" \in DOMAIN f THEN f.version ELSE user[v].version
      BY <2>1, <3>2, PatchedDocument
    <3>4. CASE u = v
      <4>1. user'[u] = Patched(user[v], f)
        BY <3>1, <3>4, <2>1 DEF AccountTypes, UserTypes
      <4>2. v \notin clobbered' => ~Revokes(p) \/ proc[p].copy = user[v].version
        BY <1>5, <2>3 DEF Save
      <4> QED BY <2>1, <3>1, <3>2, <3>3, <3>4, <4>1, <4>2 DEF Grows, Exists, Revokes
    <3>5. CASE u # v
      <4>1. user'[u] = user[u]
        BY <3>1, <3>5 DEF AccountTypes, UserTypes
      <4> QED BY <1>1, <3>1, <4>1 DEF Grows, Exists
    <3> QED BY <3>4, <3>5
  <2> QED BY <2>2, <2>3
<1>6. CASE Delete(p)
  <2>1. proc[p].on \in Users /\ clobbered' = clobbered
    BY <1>6 DEF Delete, At, AccountTypes, RequestTypes, IsRequest, OfUser
  <2> QED BY <1>1, <1>6, <2>1 DEF Delete, Grows, Exists, AccountTypes, UserTypes, Documents
<1>7. CASE BumpAll(p)
  BY <1>1, <1>7 DEF BumpAll, Grows, Exists, Documents
<1>8. CASE DeleteUsers(p)
  BY <1>1, <1>8 DEF DeleteUsers, Grows, Exists, Documents, history
<1>9. CASE CreateAdmin(p)
  <2>1. \A w \in Users : user[w].state = "no"
    BY <1>9 DEF CreateAdmin, Early
  <2> QED BY <1>9, <2>1 DEF CreateAdmin, Grows, history
<1>10. CASE Sign(p) \/ CountAdmins(p) \/ SaveTenant(p) \/ Purge(p) \/ DeleteTenant(p) \/ Write(p)
  BY <1>2, <1>10 DEF Sign, CountAdmins, SaveTenant, Purge, DeleteTenant, Write, history
<1> QED BY <1>3, <1>4, <1>5, <1>6, <1>7, <1>8, <1>9, <1>10 DEF Step, Steps
\* What the step of a request leaves of it.
LEMMA RequestInvAfter ==
  ASSUME AccountTypes, Early, RequestInv, NEW p \in Procs, Step(p)
  PROVE  RequestInv'
<1> USE DEF At
<1>1. \A u \in Users : user[u].state # "no" => user[u].state' # "no"
  BY UsersGrow DEF Grows
<1> DEFINE R(q) == /\ proc[q].pc \in OfUser => user[proc[q].on].state # "no"
                   /\ At(q, "delete") \/ At(q, "count") => proc[q].by # proc[q].on
                   /\ At(q, "save") =>
                         /\ DOMAIN proc[q].patch \cap {"role", "active"} # {} => proc[q].by # proc[q].on
                         /\ Revokes(q) => proc[q].patch.version = proc[q].copy + 1
                         /\ proc[q].signs => Revokes(q)
<1>2. ASSUME NEW q \in Procs, proc'[q] = proc[q] PROVE R(q)'
  <2>1. proc[q].pc \in OfUser => proc[q].on \in Users
    BY DEF AccountTypes, RequestTypes, IsRequest
  <2>2. R(q)
    BY DEF RequestInv
  <2> QED BY <1>1, <1>2, <2>1, <2>2 DEF Revokes
<1>3. R(p)'
  <2>1. "pc" \in DOMAIN proc[p] /\ DOMAIN proc = Procs
    BY DEF AccountTypes, RequestTypes, IsRequest
  <2>2. CASE proc'[p].pc \notin OfUser
    BY <2>2 DEF OfUser
  <2>3. CASE Asked(p)
    <3>1. ASSUME NEW by, NEW f, NEW signs, NEW u \in Users, Loads(p, by, u, f, signs) PROVE R(p)'
      <4>1. proc'[p] = Saving(by, u, f, user[u].version, signs) /\ user' = user /\ Exists(u)
        BY <2>1, <3>1 DEF Loads, Load
      <4> QED BY <3>1, <4>1 DEF Loads, Saving, Revokes, Exists, OfUser
    <3>2. ASSUME NEW by, NEW u \in Users, Create(p, by, u) PROVE R(p)'
      <4> HIDE DEF R
      <4>1. PICK role, password : user' = [user EXCEPT ![u] = Newcomer(role, password)]
        BY <3>2 DEF Create
      <4>2. user'[u].state = "yes"
        BY <4>1 DEF Newcomer, AccountTypes, UserTypes
      <4>3. proc'[p] = proc[p] \/ proc'[p] = Saving(u, u, Invitation, 0, FALSE)
        BY <2>1, <3>2 DEF Create
      <4> QED BY <1>2, <4>2, <4>3 DEF R, Saving, Revokes, Invitation, OfUser
    <3>3. ASSUME NEW by, NEW u \in Users, Remove(p, by, u) PROVE R(p)'
      BY <2>1, <3>3 DEF Remove, Request, Exists, OfUser
    <3>4. ASSUME NEW u \in Users, LogoutAll(p, u) \/ Login(p, u) \/ Work(p, u) PROVE R(p)'
      BY <1>2, <2>1, <3>4 DEF LogoutAll, Login, Work, Request, Exists, OfUser
    <3> QED BY <2>3, <3>1, <3>2, <3>3, <3>4 DEF Asked
  <2>4. CASE Platform(p)
    BY <2>1, <2>2, <2>4 DEF Platform, CreateTenant, SwitchOff, SwitchOn, RemoveTenant, SuperStarts, Goes, OfUser
  <2>5. CASE Save(p) \/ Sign(p) \/ Delete(p) \/ SaveTenant(p) \/ DeleteTenant(p) \/ Write(p) \/ Dies(p)
    <3>1. Returns(p)
      BY <2>5 DEF Save, Sign, Delete, SaveTenant, DeleteTenant, Write, Dies
    <3> QED BY <2>2, <3>1, Moves DEF OfUser
  <2>6. CASE CountAdmins(p)
    <3>1. user' = user
      BY <2>6 DEF CountAdmins
    <3>2. proc'[p].pc = "idle" \/ (proc'[p].pc = "delete" /\ proc'[p].by = proc[p].by /\ proc'[p].on = proc[p].on)
      BY <2>6, Moves DEF CountAdmins
    <3>3. user[proc[p].on].state # "no" /\ proc[p].by # proc[p].on
      BY <2>6 DEF CountAdmins, RequestInv, OfUser
    <3> QED BY <3>1, <3>2, <3>3 DEF OfUser
  <2>7. CASE BumpAll(p) \/ Purge(p) \/ DeleteUsers(p)
    BY <2>1, <2>2, <2>7 DEF BumpAll, Purge, DeleteUsers, Goes, OfUser
  <2>8. CASE CreateAdmin(p)
    <3>1. CASE Returns(p)
      BY <2>2, <3>1, Moves DEF OfUser
    <3>2. ASSUME NEW password, user' = [user EXCEPT ![Founder] = Newcomer("admin", password)],
                 proc' = [proc EXCEPT ![p] = IF password = "own" THEN Idle
                                            ELSE Saving(Founder, Founder, Invitation, 0, FALSE)]
          PROVE  R(p)'
      <4>1. user'[Founder].state = "yes"
        BY <3>2, AccountsAssumption DEF Newcomer, AccountTypes, UserTypes
      <4>2. proc'[p] = Idle \/ proc'[p] = Saving(Founder, Founder, Invitation, 0, FALSE)
        BY <2>1, <3>2
      <4> QED BY <4>1, <4>2 DEF Idle, Request, Saving, Revokes, Invitation, OfUser
    <3> QED BY <2>8, <3>1, <3>2 DEF CreateAdmin
  <2> QED BY <2>3, <2>4, <2>5, <2>6, <2>7, <2>8 DEF Step, Steps
<1>4. \A q \in Procs : R(q)'
  BY <1>2, <1>3, OthersStay
<1> QED BY <1>4 DEF RequestInv
\* Who may be written by a save: a user that was met, with the copy that was read.
LEMMA Saves ==
  ASSUME AccountTypes, RequestInv, NEW p \in Procs, Save(p), Exists(proc[p].on)
  PROVE  LET u == proc[p].on
             f == proc[p].patch IN
         /\ u \in Users /\ IsPatch(f) /\ proc[p].copy \in Nat
         /\ user' = [user EXCEPT ![u] = Patched(user[u], f)]
         /\ user'[u] = Patched(user[u], f) /\ \A v \in Users \ {u} : user'[v] = user[v]
         /\ user'[u] \in Documents /\ user'[u].state = user[u].state
         /\ "role" \notin DOMAIN f => user'[u].role = user[u].role
         /\ "active" \notin DOMAIN f => user'[u].active = user[u].active
         /\ user'[u].version = IF "version" \in DOMAIN f THEN f.version ELSE user[u].version
         /\ user'[u].password = IF "password" \in DOMAIN f THEN f.password ELSE user[u].password
         /\ user'[u].invite = IF "invite" \in DOMAIN f THEN f.invite ELSE user[u].invite
<1> DEFINE u == proc[p].on
           f == proc[p].patch
<1>1. u \in Users /\ IsPatch(f) /\ proc[p].copy \in Nat
  BY DEF Save, At, AccountTypes, RequestTypes, IsRequest, OfUser
<1>2. user' = [user EXCEPT ![u] = Patched(user[u], f)]
  BY DEF Save
<1>3. user'[u] = Patched(user[u], f) /\ \A v \in Users \ {u} : user'[v] = user[v]
  BY <1>1, <1>2 DEF AccountTypes, UserTypes
<1>4. user[u] \in Documents
  BY <1>1 DEF AccountTypes, UserTypes
<1> QED BY <1>1, <1>2, <1>3, <1>4, PatchedDocument

\* A request about to save or to sign holds the version it read.
LEMMA Copies ==
  ASSUME AccountTypes, NEW p \in Procs, Step(p), proc'[p].pc \in {"save", "login"}
  PROVE  \/ proc'[p] = proc[p]
         \/ proc'[p].on \in Users /\ proc'[p].copy = 0
         \/ proc'[p].on \in Users /\ proc'[p].copy = user[proc'[p].on].version /\ user' = user
<1> DEFINE G == \/ proc'[p] = proc[p]
                \/ proc'[p].on \in Users /\ proc'[p].copy = 0
                \/ proc'[p].on \in Users /\ proc'[p].copy = user[proc'[p].on].version /\ user' = user
<1> SUFFICES G
  OBVIOUS
<1>1. DOMAIN proc = Procs
  BY DEF AccountTypes, RequestTypes
<1>2. ASSUME NEW by, NEW f, NEW signs, NEW u \in Users, Loads(p, by, u, f, signs) PROVE G
  BY <1>1, <1>2 DEF Loads, Load, Saving
<1>3. ASSUME NEW by, NEW u \in Users, Create(p, by, u) PROVE G
  BY <1>1, <1>3 DEF Create, Saving
<1>4. ASSUME NEW by, NEW u \in Users, Remove(p, by, u) PROVE G
  BY <1>1, <1>4 DEF Remove, Request
<1>5. ASSUME NEW u \in Users, LogoutAll(p, u) \/ Login(p, u) \/ Work(p, u) PROVE G
  BY <1>1, <1>5 DEF LogoutAll, Login, Work, Request
<1>6. CASE Platform(p)
  <2>1. \E w \in {"admin", "bump", "on", "purge"} : Goes(p, w)
    BY <1>6 DEF Platform, CreateTenant, SwitchOff, SwitchOn, RemoveTenant, SuperStarts
  <2> QED BY <2>1, Moves
<1>7. CASE Save(p) \/ Sign(p) \/ Delete(p) \/ SaveTenant(p) \/ DeleteTenant(p) \/ Write(p) \/ Dies(p)
  <2>1. Returns(p)
    BY <1>7 DEF Save, Sign, Delete, SaveTenant, DeleteTenant, Write, Dies
  <2> QED BY <2>1, Moves
<1>8. CASE CountAdmins(p) \/ BumpAll(p) \/ Purge(p) \/ DeleteUsers(p)
  <2>1. Returns(p) \/ \E w \in {"delete", "off", "users", "tenant"} : Goes(p, w)
    BY <1>8 DEF CountAdmins, BumpAll, Purge, DeleteUsers
  <2> QED BY <2>1, Moves
<1>9. CASE CreateAdmin(p)
  <2>1. proc'[p] = Idle \/ proc'[p] = Saving(Founder, Founder, Invitation, 0, FALSE)
    BY <1>1, <1>9 DEF CreateAdmin, Returns
  <2> QED BY <2>1, AccountsAssumption DEF Idle, Request, Saving
<1> HIDE DEF G
<1>10. CASE Asked(p)
  BY <1>2, <1>3, <1>4, <1>5, <1>10 DEF Asked
<1> QED BY <1>6, <1>7, <1>8, <1>9, <1>10 DEF Step, Steps

\* The order of versions is kept: a save writes the successor of its copy, which is the
\* version of the document unless the user is clobbered.
LEMMA VersionStep ==
  ASSUME AccountTypes, Early, RequestInv, VersionInv, NEW p \in Procs, Step(p)
  PROVE  VersionInv'
<1>1. /\ clobbered \subseteq clobbered'
      /\ \A u \in Users : user[u].state # "no" =>
            /\ user'[u].state # "no" /\ (Exists(u)' => Exists(u))
            /\ u \notin clobbered' => user[u].version <= user'[u].version
  BY UsersGrow DEF Grows
<1>2. \A u \in Users : user[u].version \in Nat /\ user'[u].version \in Nat
  BY UserAfter DEF Step, AccountTypes, UserTypes, Documents
<1>3. \A q \in Procs : /\ proc[q].copy \in Nat
                       /\ proc[q].pc \in OfUser => proc[q].on \in Users /\ user[proc[q].on].state # "no"
  BY DEF AccountTypes, RequestTypes, IsRequest, RequestInv
<1>4. \A s \in sessions : s.user \in Users /\ s.version \in Nat /\ user[s.user].state # "no"
  BY DEF AccountTypes, OtherTypes, VersionInv
<1>5. \A s \in sessions : s.user \notin clobbered' => s.version <= user[s.user].version
  BY <1>1 DEF VersionInv
<1>6. \A q \in Procs : proc'[q].pc \in {"save", "login"} /\ proc'[q].on \notin clobbered' =>
                       proc'[q].copy <= user'[proc'[q].on].version
  <2> TAKE q \in Procs
  <2> HAVE proc'[q].pc \in {"save", "login"} /\ proc'[q].on \notin clobbered'
  <2>1. CASE proc'[q] = proc[q]
    <3> DEFINE u == proc[q].on
    <3>1. u \in Users /\ user[u].state # "no" /\ proc[q].copy \in Nat
      BY <1>3, <2>1 DEF OfUser
    <3>2. proc[q].copy <= user[u].version /\ user[u].version <= user'[u].version
      BY <1>1, <2>1, <3>1 DEF VersionInv
    <3>3. user[u].version \in Nat /\ user'[u].version \in Nat
      BY <1>2, <3>1
    <3>4. proc[q].copy <= user'[u].version
      BY <3>1, <3>2, <3>3
    <3> QED BY <2>1, <3>4
  <2>2. CASE q = p /\ proc'[p] # proc[p]
    BY <1>2, <2>2, Copies
  <2> QED BY <2>1, <2>2, OthersStay
<1>7. ASSUME \A s \in sessions' \ sessions :
                /\ user'[s.user].state # "no"
                /\ s.user \notin clobbered' => s.version <= user'[s.user].version,
             \A s \in ended' \ ended : s \in sessions /\ (s.user \notin clobbered' /\ Exists(s.user)
                                       => user'[s.user].version = user[s.user].version + 1)
      PROVE  VersionInv'
  <2>1. \A s \in sessions' : user'[s.user].state # "no"
    BY <1>1, <1>4, <1>7
  <2>2. ASSUME NEW s \in sessions, s.user \notin clobbered' PROVE s.version <= user'[s.user].version
    <3>1. s.user \in Users /\ s.version \in Nat /\ s.version <= user[s.user].version
          /\ user[s.user].version <= user'[s.user].version
      BY <1>1, <1>4, <1>5, <2>2
    <3>2. user[s.user].version \in Nat /\ user'[s.user].version \in Nat
      BY <1>2, <3>1
    <3> QED BY <3>1, <3>2
  <2>3. ASSUME NEW s \in ended', s.user \notin clobbered', Exists(s.user)' PROVE s.version < user'[s.user].version
    <3>1. s \in sessions
      BY <1>7, <2>3 DEF AccountTypes, OtherTypes
    <3>2. s.user \in Users /\ s.version \in Nat /\ s.version <= user[s.user].version /\ Exists(s.user)
          /\ user[s.user].version <= user'[s.user].version
      BY <1>1, <1>4, <1>5, <2>3, <3>1
    <3>3. user[s.user].version \in Nat /\ user'[s.user].version \in Nat
      BY <1>2, <3>2
    <3>4. CASE s \in ended
      <4>1. s.version < user[s.user].version
        BY <1>1, <2>3, <3>2, <3>4 DEF VersionInv
      <4> QED BY <3>2, <3>3, <4>1
    <3>5. CASE s \notin ended
      BY <1>7, <2>3, <3>2, <3>3, <3>5
    <3> QED BY <3>4, <3>5
  <2>4. \A s \in sessions' : s.user \notin clobbered' => s.version <= user'[s.user].version
    BY <1>7, <2>2
  <2> QED BY <1>6, <2>1, <2>3, <2>4 DEF VersionInv
<1>8. ASSUME UNCHANGED <<sessions, ended>> PROVE VersionInv'
  BY <1>7, <1>8
<1>9. CASE Asked(p)
  <2>1. ASSUME NEW u \in Users, LogoutAll(p, u) PROVE VersionInv'
    <3>1. sessions' = sessions /\ ended' = ended \cup {s \in sessions : s.user = u}
      BY <2>1 DEF LogoutAll
    <3>2. user'[u].version = user[u].version + 1
      BY <2>1 DEF LogoutAll, AccountTypes, UserTypes, Documents
    <3> QED BY <1>7, <3>1, <3>2
  <2> QED BY <1>8, <1>9, <2>1 DEF Asked, Loads, Load, Create, Remove, Login, Work
<1>10. CASE Platform(p) \/ Dies(p)
  BY <1>8, <1>10 DEF Platform, CreateTenant, SwitchOff, SwitchOn, RemoveTenant, SuperStarts, Dies
<1>11. CASE Save(p)
  <2> DEFINE u == proc[p].on
             f == proc[p].patch
  <2>1. CASE ~Exists(u)
    BY <1>8, <1>11, <2>1 DEF Save
  <2>2. CASE Exists(u)
    <3>1. /\ u \in Users /\ proc[p].copy \in Nat /\ user'[u].state # "no"
          /\ user'[u].version = IF "version" \in DOMAIN f THEN f.version ELSE user[u].version
      BY <1>11, <2>2, Saves DEF Exists
    <3>2. Revokes(p) => f.version = proc[p].copy + 1
      BY <1>11 DEF Save, RequestInv
    <3>3. /\ sessions' = IF proc[p].signs THEN sessions \cup {[user |-> u, version |-> proc[p].copy + 1]} ELSE sessions
          /\ ended' = IF Revokes(p) THEN ended \cup {s \in sessions : s.user = u} ELSE ended
          /\ clobbered' = IF Revokes(p) /\ proc[p].copy # user[u].version THEN clobbered \cup {u} ELSE clobbered
      BY <1>11, <2>2 DEF Save
    <3>4. proc[p].signs => Revokes(p)
      BY <1>11 DEF Save, RequestInv
    <3>5. \A s \in sessions' \ sessions :
            /\ user'[s.user].state # "no"
            /\ s.user \notin clobbered' => s.version <= user'[s.user].version
      BY <3>1, <3>2, <3>3, <3>4 DEF Revokes
    <3>6. \A s \in ended' \ ended : s \in sessions /\ (s.user \notin clobbered' /\ Exists(s.user)
                                       => user'[s.user].version = user[s.user].version + 1)
      BY <3>1, <3>2, <3>3 DEF Revokes
    <3> QED BY <1>7, <3>5, <3>6
  <2> QED BY <2>1, <2>2
<1>12. CASE Sign(p)
  <2> DEFINE t == [user |-> proc[p].on, version |-> proc[p].copy]
  <2>1. ended' = ended /\ user' = user /\ sessions' \subseteq sessions \cup {t}
    BY <1>12 DEF Sign, history
  <2>2. user[proc[p].on].state # "no" /\ (proc[p].on \notin clobbered => proc[p].copy <= user[proc[p].on].version)
    BY <1>3, <1>12 DEF Sign, At, OfUser, VersionInv
  <2>3. \A s \in sessions' \ sessions :
          /\ user'[s.user].state # "no"
          /\ s.user \notin clobbered' => s.version <= user'[s.user].version
    BY <1>1, <2>1, <2>2
  <2> QED BY <1>7, <2>1, <2>3
<1>13. CASE BumpAll(p)
  <2>1. sessions' = sessions /\ ended' = ended \cup sessions
    BY <1>13 DEF BumpAll
  <2>2. \A u \in Users : Exists(u) => user'[u].version = user[u].version + 1
    BY <1>13 DEF BumpAll, AccountTypes, UserTypes, Documents
  <2> QED BY <1>4, <1>7, <2>1, <2>2
<1>14. CASE CountAdmins(p) \/ Delete(p) \/ CreateAdmin(p) \/ SaveTenant(p) \/ Purge(p) \/ DeleteUsers(p)
            \/ DeleteTenant(p) \/ Write(p)
  BY <1>8, <1>14 DEF CountAdmins, Delete, CreateAdmin, SaveTenant, Purge, DeleteUsers, DeleteTenant, Write, history
<1> QED BY <1>9, <1>10, <1>11, <1>12, <1>13, <1>14 DEF Step, Steps
\* A step that takes no active admin away leaves what the others rely on.
LEMMA QuietKeeps ==
  ASSUME AccountTypes, KeptInv, NEW p \in Procs, Step(p),
         tenant \in {"on", "off"}, ~overtaken, ~imposed, ~crashed, proc[p].pc \notin {"admin", "tenant"},
         \A q \in Procs : proc'[q].pc \notin {"admin", "tenant"},
         stale \ {p} \subseteq stale', \A u \in Users : IsAdmin(u) => IsAdmin(u)',
         Takes(p)' => p \in stale' \/ Spared(p)'
  PROVE  Kept'
<1>1. \A q \in Procs \ {p} : proc'[q] = proc[q]
  BY OthersStay
<1>2. \A q \in Procs : proc[q].pc \notin {"admin", "tenant"}
  BY <1>1
<1>3. Kept
  BY <1>2 DEF KeptInv
<1>4. ASSUME NEW q \in Procs \ {p}, q \notin stale', Takes(q)' PROVE Spared(q)'
  <2>1. Takes(q) /\ q \notin stale
    BY <1>1, <1>4 DEF Takes, At
  <2>2. Spared(q)
    BY <1>3, <2>1 DEF Kept
  <2> QED BY <1>1, <2>2 DEF Spared
<1> QED BY <1>3, <1>4 DEF Kept

\* Of a request that takes an active admin away another one is left, as long as nobody was
\* faster: who asks to change a role or an access is one, and a removal has counted two.
LEMMA AdminStep ==
  ASSUME AccountTypes, Early, RequestInv, KeptInv, NEW p \in Procs, Step(p)
  PROVE  KeptInv'
<1> SUFFICES ASSUME tenant' \in {"on", "off"}, ~overtaken', ~imposed', ~crashed',
                    \A q \in Procs : proc'[q].pc \notin {"admin", "tenant"}
             PROVE  Kept'
  BY DEF KeptInv
<1>1. \A q \in Procs \ {p} : proc'[q] = proc[q]
  BY OthersStay
<1>2. user \in [Users -> Documents] /\ DOMAIN proc = Procs
  BY DEF AccountTypes, UserTypes, RequestTypes
<1>3. ASSUME tenant \in {"on", "off"}, UNCHANGED people, ~crashed, proc[p].pc \notin {"admin", "tenant"},
             \A u \in Users : IsAdmin(u) => IsAdmin(u)', ~Takes(p)'
      PROVE  Kept'
  BY <1>3, QuietKeeps DEF people
<1>4. ASSUME UNCHANGED user PROVE \A u \in Users : IsAdmin(u) => IsAdmin(u)'
  BY <1>4 DEF IsAdmin, Exists
<1>5. CASE Asked(p)
  <2>1. At(p, "idle") /\ UNCHANGED <<tenant, overtaken, imposed, crashed>> /\ stale \ {p} \subseteq stale'
    BY <1>5 DEF Asked, Loads, Load, Create, Remove, LogoutAll, Login, Work, Fresh, people
  <2>2. \A v \in Users : IsAdmin(v) => IsAdmin(v)'
    <3> SUFFICES ASSUME NEW v \in Users, IsAdmin(v) PROVE IsAdmin(v)'
      OBVIOUS
    <3>1. ASSUME NEW by, NEW u \in Users, Create(p, by, u) PROVE user'[v] = user[v]
      BY <1>2, <3>1 DEF Create, IsAdmin, Exists
    <3>2. ASSUME NEW u \in Users, LogoutAll(p, u)
          PROVE  user'[v].state = user[v].state /\ user'[v].role = user[v].role /\ user'[v].active = user[v].active
      BY <1>2, <3>2 DEF LogoutAll, Documents
    <3> QED BY <1>5, <3>1, <3>2 DEF Asked, Loads, Load, Remove, Login, Work, IsAdmin, Exists
  <2>3. Kept
    <3>1. \A q \in Procs : proc[q].pc \notin {"admin", "tenant"}
      BY <1>1, <2>1 DEF At
    <3> QED BY <2>1, <3>1 DEF KeptInv
  <2>4. Takes(p)' => Spared(p)'
    <3>1. ASSUME NEW by, NEW f, NEW signs, NEW u \in Users, Loads(p, by, u, f, signs), Takes(p)'
          PROVE  Spared(p)'
      <4>1. proc'[p] = Saving(by, u, f, user[u].version, signs) /\ user' = user
        BY <1>2, <3>1 DEF Loads, Load
      <4>2. by # u /\ by \in Administrators /\ by # Super
        BY <3>1, <4>1 DEF Loads, Takes, At, Saving
      <4>3. by \in Users /\ IsAdmin(by)
        <5>1. \A s \in sessions : s.user \in Users
          BY DEF AccountTypes, OtherTypes
        <5> QED BY <4>2, <5>1 DEF Administrators, Authenticated, Accepted, IsAdmin, Exists
      <4>4. IsAdmin(by)'
        BY <1>4, <4>1, <4>3
      <4> QED BY <4>1, <4>2, <4>3, <4>4 DEF Spared, Saving
    <3>2. ASSUME NEW by, NEW u \in Users, Remove(p, by, u), Takes(p)' PROVE Spared(p)'
      <4>1. proc'[p] = Request(IF user[u].role = "admin" THEN "count" ELSE "delete", by, u, 0) /\ user' = user
        BY <1>2, <3>2 DEF Remove
      <4>2. user[u].role # "admin" /\ proc'[p].on = u
        BY <3>2, <4>1 DEF Takes, At, Request
      <4>3. PICK a \in Users : IsAdmin(a)
        BY <2>3 DEF Kept
      <4>4. a # u /\ IsAdmin(a)'
        BY <1>4, <4>1, <4>2, <4>3 DEF IsAdmin
      <4> QED BY <4>2, <4>4 DEF Spared
    <3>3. ASSUME NEW by, NEW u \in Users, Create(p, by, u) PROVE ~Takes(p)'
      <4>1. proc'[p].pc = "idle" \/ proc'[p] = Saving(u, u, Invitation, 0, FALSE)
        BY <1>2, <2>1, <3>3 DEF Create, At
      <4> QED BY <4>1 DEF Takes, At, Saving, Invitation
    <3>4. ASSUME NEW u \in Users, LogoutAll(p, u) \/ Login(p, u) \/ Work(p, u) PROVE ~Takes(p)'
      BY <1>2, <2>1, <3>4 DEF LogoutAll, Login, Work, Takes, At, Request
    <3> QED BY <1>5, <3>1, <3>2, <3>3, <3>4 DEF Asked
  <2> QED BY <2>1, <2>2, <2>4, QuietKeeps DEF At
<1>6. CASE CreateTenant(p)
  BY <1>6, Moves DEF CreateTenant, SuperStarts
<1>7. CASE SwitchOff(p) \/ SwitchOn(p) \/ RemoveTenant(p)
  <2>1. At(p, "idle") /\ UNCHANGED <<user, tenant, people, crashed>>
    BY <1>7 DEF SwitchOff, SwitchOn, RemoveTenant, SuperStarts
  <2>2. \E w \in {"bump", "on", "purge"} : Goes(p, w)
    BY <1>7 DEF SwitchOff, SwitchOn, RemoveTenant, SuperStarts
  <2>3. ~Takes(p)'
    BY <2>2, Moves DEF Takes, At
  <2> QED BY <1>3, <1>4, <2>1, <2>3 DEF At
<1>8. ASSUME Returns(p) PROVE ~Takes(p)'
  BY <1>8, Moves DEF Takes, At
<1>9. CASE Dies(p)
  BY <1>3, <1>4, <1>8, <1>9 DEF Dies, At
<1>10. ASSUME Taken(p, proc[p].by = Super), At(p, "save"), Returns(p), UNCHANGED <<tenant, crashed>>,
              Exists(proc[p].on), Save(p)
       PROVE  Kept'
  <2> DEFINE u == proc[p].on
  <2>1. /\ u \in Users /\ \A v \in Users \ {u} : user'[v] = user[v]
        /\ user'[u].state = user[u].state
        /\ "role" \notin DOMAIN proc[p].patch => user'[u].role = user[u].role
        /\ "active" \notin DOMAIN proc[p].patch => user'[u].active = user[u].active
    BY <1>10, Saves
  <2>2. CASE ~AnAdminGoes
    BY <1>3, <1>8, <1>10, <2>2 DEF Taken, AnAdminGoes, At
  <2>3. CASE AnAdminGoes
    <3>1. p \notin stale /\ proc[p].by # Super /\ ~overtaken /\ ~imposed
      BY <1>10, <2>3 DEF Taken
    <3>2. Takes(p)
      BY <1>10, <2>1, <2>3, <3>1 DEF AnAdminGoes, IsAdmin, Exists, Takes
    <3>3. Spared(p)
      <4>1. \A q \in Procs : proc[q].pc \notin {"admin", "tenant"}
        BY <1>1, <1>10 DEF At
      <4> QED BY <1>10, <3>1, <3>2, <4>1 DEF KeptInv, Kept
    <3>4. PICK a \in Users : a # u /\ IsAdmin(a)
      BY <3>3 DEF Spared
    <3>5. IsAdmin(a)'
      BY <2>1, <3>4 DEF IsAdmin, Exists
    <3>6. ASSUME NEW q \in Procs \ stale' PROVE ~Takes(q)'
      <4>1. CASE q = p
        BY <1>8, <1>10, <4>1
      <4>2. CASE q # p
        BY <1>1, <1>10, <2>3, <3>6, <4>2 DEF Taken, Takes, At
      <4> QED BY <4>1, <4>2
    <3> QED BY <3>5, <3>6 DEF Kept
  <2> QED BY <2>2, <2>3
<1>11. CASE Save(p)
  <2>1. At(p, "save") /\ Returns(p) /\ UNCHANGED <<tenant, crashed>>
    BY <1>11 DEF Save
  <2>2. CASE ~Exists(proc[p].on)
    BY <1>3, <1>4, <1>8, <1>11, <2>1, <2>2 DEF Save, At
  <2>3. CASE Exists(proc[p].on)
    BY <1>10, <1>11, <2>1, <2>3 DEF Save
  <2> QED BY <2>2, <2>3
<1>12. CASE Delete(p)
  <2> DEFINE u == proc[p].on
  <2>1. /\ u \in Users /\ (\A v \in Users \ {u} : user'[v] = user[v]) /\ Returns(p) /\ Takes(p)
        /\ UNCHANGED <<tenant, crashed>> /\ Taken(p, FALSE) /\ At(p, "delete")
    <3>1. u \in Users
      BY <1>12 DEF Delete, At, AccountTypes, RequestTypes, IsRequest, OfUser
    <3> QED BY <1>2, <1>12, <3>1 DEF Delete, Takes
  <2>2. CASE ~AnAdminGoes
    BY <1>3, <1>8, <2>1, <2>2 DEF Taken, AnAdminGoes, At
  <2>3. CASE AnAdminGoes
    <3>1. p \notin stale /\ ~overtaken /\ ~imposed
      BY <2>1, <2>3 DEF Taken
    <3>2. Spared(p)
      <4>1. \A q \in Procs : proc[q].pc \notin {"admin", "tenant"}
        BY <1>1, <2>1 DEF At
      <4> QED BY <2>1, <3>1, <4>1 DEF KeptInv, Kept
    <3>3. PICK a \in Users : a # u /\ IsAdmin(a)
      BY <3>2 DEF Spared
    <3>4. IsAdmin(a)'
      BY <2>1, <3>3 DEF IsAdmin, Exists
    <3>5. ASSUME NEW q \in Procs \ stale' PROVE ~Takes(q)'
      <4>1. CASE q = p
        BY <1>8, <2>1, <4>1
      <4>2. CASE q # p
        BY <1>1, <2>1, <2>3, <3>5, <4>2 DEF Taken, Takes, At
      <4> QED BY <4>1, <4>2
    <3> QED BY <3>4, <3>5 DEF Kept
  <2> QED BY <2>2, <2>3
<1>13. CASE CountAdmins(p)
  <2>1. /\ At(p, "count") /\ UNCHANGED <<user, tenant, overtaken, imposed, crashed>>
        /\ stale \ {p} \subseteq stale'
    BY <1>13 DEF CountAdmins, Fresh
  <2>2. ASSUME Takes(p)' PROVE Spared(p)'
    <3> DEFINE A == {u \in Users : IsAdmin(u)}
    <3>1. Cardinality(A) > 1 /\ proc'[p].on = proc[p].on
      BY <1>8, <1>13, <2>2, Moves DEF CountAdmins
    <3>2. ~(A \subseteq {proc[p].on})
      <4>1. SUFFICES ASSUME A \subseteq {proc[p].on} PROVE FALSE
        OBVIOUS
      <4>2. A = {} \/ A = {proc[p].on}
        BY <4>1
      <4> HIDE DEF A
      <4>3. Cardinality(A) \in {0, 1}
        BY <4>2, FS_EmptySet, FS_Singleton
      <4> QED BY <3>1, <4>3
    <3>3. PICK a \in Users : a # proc[p].on /\ IsAdmin(a)
      BY <3>2
    <3>4. IsAdmin(a)'
      BY <1>4, <2>1, <3>3
    <3> QED BY <3>1, <3>3, <3>4 DEF Spared
  <2> QED BY <1>4, <2>1, <2>2, QuietKeeps DEF At
<1>14. CASE BumpAll(p)
  <2>1. \A v \in Users : IsAdmin(v) => IsAdmin(v)'
    BY <1>2, <1>14 DEF BumpAll, IsAdmin, Exists, Documents
  <2>2. ~Takes(p)'
    BY <1>14, Moves DEF BumpAll, Takes, At
  <2> QED BY <1>3, <1>14, <2>1, <2>2 DEF BumpAll, At
<1>15. CASE DeleteUsers(p)
  BY <1>15, Moves DEF DeleteUsers
<1>16. CASE CreateAdmin(p)
  <2>1. PICK password : /\ user' = [user EXCEPT ![Founder] = Newcomer("admin", password)]
                        /\ proc' = [proc EXCEPT ![p] = IF password = "own" THEN Idle
                                           ELSE Saving(Founder, Founder, Invitation, 0, FALSE)]
    BY <1>16 DEF CreateAdmin
  <2>2. IsAdmin(Founder)'
    BY <1>2, <2>1, AccountsAssumption DEF Newcomer, IsAdmin, Exists
  <2>3. proc'[p] = Idle \/ proc'[p] = Saving(Founder, Founder, Invitation, 0, FALSE)
    BY <1>2, <2>1
  <2>4. ~Takes(p)'
    BY <2>3, Moves DEF Takes, At, Saving, Invitation
  <2>5. \A q \in Procs \ {p} : ~Takes(q)'
    BY <1>1, <1>16 DEF CreateAdmin, Early, Takes, At
  <2> QED BY <2>2, <2>4, <2>5, AccountsAssumption DEF Kept
<1>17. CASE DeleteTenant(p)
  BY <1>17 DEF DeleteTenant
<1>18. CASE SaveTenant(p)
  <2>1. tenant # "no"
    BY <1>18 DEF SaveTenant, Early, At
  <2>2. tenant \in {"on", "off"} /\ Returns(p) /\ UNCHANGED <<user, people, crashed>>
    BY <1>18, <2>1 DEF SaveTenant, At, history, people, AccountTypes, OtherTypes
  <2> QED BY <1>3, <1>4, <1>8, <1>18, <2>2 DEF SaveTenant, At
<1>19. CASE Sign(p) \/ Purge(p) \/ Write(p)
  <2>1. proc[p].pc \in {"login", "purge", "write"} /\ UNCHANGED <<user, tenant, people, crashed>>
    BY <1>19 DEF Sign, Purge, Write, At, history, people
  <2>2. ~Takes(p)'
    BY <1>8, <1>19, Moves DEF Sign, Purge, Write, Takes, At
  <2> QED BY <1>3, <1>4, <2>1, <2>2
<1> QED BY <1>5, <1>6, <1>7, <1>9, <1>11, <1>12, <1>13, <1>14, <1>15, <1>16, <1>17, <1>18, <1>19
        DEF Step, Steps, Platform

\* An invitation that makes a password random makes the invite pending with it, and only a
\* password of one's own ends it.
LEMMA InviteStep ==
  ASSUME AccountTypes, Early, RequestInv, NobodyLockedOut, NEW p \in Procs, Step(p)
  PROVE  NobodyLockedOut'
<1> DEFINE Invites(q, u) == At(q, "save") /\ proc[q].on = u /\ "invite" \in DOMAIN proc[q].patch
           Free(u) == ~Exists(u) \/ user[u].password # "random" \/ user[u].invite \/ \E q \in Procs : Invites(q, u)
<1> SUFFICES ASSUME ~crashed', NEW u \in Users PROVE Free(u)'
  BY DEF NobodyLockedOut
<1>1. \A q \in Procs \ {p} : proc'[q] = proc[q]
  BY OthersStay
<1>2. user \in [Users -> Documents] /\ DOMAIN proc = Procs
  BY DEF AccountTypes, UserTypes, RequestTypes
<1>3. ~crashed => Free(u)
  BY DEF NobodyLockedOut
<1>4. ASSUME ~crashed, ~Invites(p, u),
             user'[u].state = user[u].state \/ user'[u].state = "gone",
             user'[u].password = user[u].password, user'[u].invite = user[u].invite
      PROVE  Free(u)'
  <2>1. CASE \E q \in Procs : Invites(q, u)
    BY <1>1, <1>4, <2>1 DEF At
  <2>2. CASE ~Exists(u) \/ user[u].password # "random" \/ user[u].invite
    BY <1>4, <2>2 DEF Exists
  <2> QED BY <1>3, <1>4, <2>1, <2>2
<1>5. ASSUME NEW v, proc'[p] = Saving(v, v, Invitation, 0, FALSE) PROVE Invites(p, v)'
  BY <1>5 DEF Saving, Invitation, At
<1>6. CASE Asked(p)
  <2>1. At(p, "idle") /\ UNCHANGED crashed
    BY <1>6 DEF Asked, Loads, Load, Create, Remove, LogoutAll, Login, Work
  <2>2. ASSUME NEW by, NEW v \in Users, Create(p, by, v) PROVE Free(u)'
    <3>1. PICK role, password : 
            /\ user' = [user EXCEPT ![v] = Newcomer(role, password)] /\ password \in {"own", "random"}
            /\ proc' = IF password = "own" THEN proc
                       ELSE [proc EXCEPT ![p] = Saving(v, v, Invitation, 0, FALSE)]
      BY <2>2 DEF Create
    <3>2. CASE u # v
      <4>1. user'[u] = user[u]
        BY <1>2, <3>1, <3>2
      <4> QED BY <1>4, <2>1, <4>1 DEF At
    <3>3. CASE u = v /\ password = "own"
      <4>1. user'[u].password = "own"
        BY <1>2, <3>1, <3>3 DEF Newcomer
      <4> QED BY <4>1
    <3>4. CASE u = v /\ password = "random"
      <4>1. proc'[p] = Saving(u, u, Invitation, 0, FALSE)
        BY <1>2, <3>1, <3>4
      <4> QED BY <1>5, <4>1
    <3> QED BY <3>1, <3>2, <3>3, <3>4
  <2>3. ASSUME NEW v \in Users, LogoutAll(p, v) PROVE Free(u)'
    <3>1. /\ user'[u].state = user[u].state
          /\ user'[u].password = user[u].password /\ user'[u].invite = user[u].invite
      BY <1>2, <2>3 DEF LogoutAll, Documents
    <3> QED BY <1>4, <2>1, <3>1 DEF At
  <2>4. ASSUME user' = user PROVE Free(u)'
    BY <1>4, <2>1, <2>4 DEF At
  <2> HIDE DEF Free
  <2> QED BY <1>6, <2>2, <2>3, <2>4 DEF Asked, Loads, Load, Remove, Login, Work
<1>7. CASE Platform(p)
  <2>1. At(p, "idle") /\ UNCHANGED <<user, crashed>>
    BY <1>7 DEF Platform, CreateTenant, SwitchOff, SwitchOn, RemoveTenant, SuperStarts
  <2> QED BY <1>4, <2>1 DEF At
<1>8. CASE Dies(p)
  <2>1. UNCHANGED user /\ ~crashed /\ ~Invites(p, u)
    BY <1>8 DEF Dies
  <2> QED BY <1>4, <2>1
<1>9. CASE Save(p)
  <2> DEFINE v == proc[p].on
             f == proc[p].patch
  <2>1. UNCHANGED crashed /\ At(p, "save")
    BY <1>9 DEF Save
  <2>2. CASE ~Exists(v)
    <3>1. user' = user
      BY <1>9, <2>2 DEF Save
    <3>2. CASE u = v
      BY <2>2, <3>1, <3>2 DEF Exists
    <3>3. CASE u # v
      BY <1>4, <2>1, <3>1, <3>3
    <3> QED BY <3>2, <3>3
  <2>3. CASE Exists(v)
    <3>1. /\ IsPatch(f)
          /\ \A w \in Users \ {v} : user'[w] = user[w]
          /\ user'[v].state = user[v].state
          /\ user'[v].password = IF "password" \in DOMAIN f THEN f.password ELSE user[v].password
          /\ user'[v].invite = IF "invite" \in DOMAIN f THEN f.invite ELSE user[v].invite
      BY <1>9, <2>3, Saves
    <3>2. CASE u # v
      BY <1>4, <2>1, <3>1, <3>2
    <3>3. CASE u = v /\ "invite" \in DOMAIN f
      BY <3>1, <3>3 DEF IsPatch
    <3>4. CASE u = v /\ "invite" \notin DOMAIN f
      <4>1. CASE "password" \in DOMAIN f
        BY <3>1, <3>4, <4>1 DEF IsPatch
      <4>2. CASE "password" \notin DOMAIN f
        BY <1>4, <2>1, <3>1, <3>4, <4>2
      <4> QED BY <4>1, <4>2
    <3> QED BY <3>2, <3>3, <3>4
  <2> QED BY <2>2, <2>3
<1>10. CASE Delete(p) \/ BumpAll(p) \/ DeleteUsers(p)
  <2>1. /\ user'[u].state = user[u].state \/ user'[u].state = "gone"
        /\ user'[u].password = user[u].password /\ user'[u].invite = user[u].invite
    <3>1. CASE Delete(p)
      BY <1>2, <3>1 DEF Delete, Documents
    <3>2. CASE BumpAll(p)
      BY <1>2, <3>2 DEF BumpAll, Documents
    <3>3. CASE DeleteUsers(p)
      BY <1>2, <3>3 DEF DeleteUsers, Documents
    <3> QED BY <1>10, <3>1, <3>2, <3>3
  <2>2. UNCHANGED crashed /\ ~At(p, "save")
    BY <1>10 DEF Delete, BumpAll, DeleteUsers, At, history
  <2> QED BY <1>4, <2>1, <2>2
<1>11. CASE CreateAdmin(p)
  <2>1. \A w \in Users : user[w].state = "no"
    BY <1>11 DEF CreateAdmin, Early
  <2>2. CASE user' = user
    BY <2>1, <2>2 DEF Exists
  <2>3. ASSUME NEW password, user' = [user EXCEPT ![Founder] = Newcomer("admin", password)],
               proc' = [proc EXCEPT ![p] = IF password = "own" THEN Idle
                                          ELSE Saving(Founder, Founder, Invitation, 0, FALSE)]
        PROVE  Free(u)'
    <3>1. CASE u # Founder
      BY <1>2, <2>1, <2>3, <3>1 DEF Exists
    <3>2. CASE u = Founder /\ password = "own"
      <4>1. user'[u].password = "own"
        BY <1>2, <2>3, <3>2 DEF Newcomer
      <4> QED BY <4>1
    <3>3. CASE u = Founder /\ password # "own"
      <4>1. proc'[p] = Saving(u, u, Invitation, 0, FALSE)
        BY <1>2, <2>3, <3>3
      <4> QED BY <1>5, <4>1
    <3> QED BY <3>1, <3>2, <3>3
  <2> HIDE DEF Free
  <2> QED BY <1>11, <2>2, <2>3 DEF CreateAdmin
<1>12. CASE Sign(p) \/ CountAdmins(p) \/ SaveTenant(p) \/ Purge(p) \/ DeleteTenant(p) \/ Write(p)
  <2>1. UNCHANGED <<user, crashed>> /\ ~At(p, "save")
    BY <1>12 DEF Sign, CountAdmins, SaveTenant, Purge, DeleteTenant, Write, At, history
  <2> QED BY <1>4, <2>1
<1> HIDE DEF Free
<1> QED BY <1>6, <1>7, <1>8, <1>9, <1>10, <1>11, <1>12 DEF Step, Steps

\* What is purged stays purged but for what a request writes late.
LEMMA PurgeStep ==
  ASSUME AccountTypes, Early, PurgeInv, NEW p \in Procs, Step(p)
  PROVE  PurgeInv'
<1> DEFINE Over == tenant = "gone" \/ \E q \in Procs : At(q, "tenant")
           Emptied == docs \cap PurgedKinds \subseteq late
           Clean == Emptied /\ \A u \in Users : Exists(u) => u \in late
<1>1. \A q \in Procs \ {p} : proc'[q] = proc[q]
  BY OthersStay
<1>2. user \in [Users -> Documents] /\ DOMAIN proc = Procs /\ Users \cap PurgedKinds = {}
  BY AccountsAssumption DEF AccountTypes, UserTypes, RequestTypes, Kinds, PurgedKinds
<1>3. (\A q \in Procs : At(q, "users") => Emptied) /\ (Over => Clean)
  BY DEF PurgeInv
<1>4. ASSUME late' = late, docs' = docs,
             \A u \in Users : Exists(u)' => Exists(u),
             tenant' = "gone" => tenant = "gone",
             ~At(p, "users")', ~At(p, "tenant")'
      PROVE  PurgeInv'
  BY <1>1, <1>3, <1>4 DEF PurgeInv, At
<1>5. ASSUME ~Purged, tenant' = tenant, ~At(p, "users")', ~At(p, "tenant")' PROVE PurgeInv'
  <2>1. tenant' # "gone" /\ \A q \in Procs : ~At(q, "users")' /\ ~At(q, "tenant")'
    BY <1>1, <1>5 DEF Purged, At
  <2> QED BY <2>1 DEF PurgeInv
<1>6. CASE Asked(p)
  <2>1. At(p, "idle") /\ UNCHANGED <<tenant, docs>>
    BY <1>6 DEF Asked, Loads, Load, Create, Remove, LogoutAll, Login, Work
  <2>2. ~At(p, "users")' /\ ~At(p, "tenant")'
    <3>1. ASSUME NEW u \in Users, LogoutAll(p, u) \/ Login(p, u) \/ Work(p, u) PROVE proc'[p].pc \in {"idle", "login", "write"}
      BY <1>2, <2>1, <3>1 DEF LogoutAll, Login, Work, Request, At
    <3>2. ASSUME NEW by, NEW u \in Users, Create(p, by, u) \/ Remove(p, by, u)
          PROVE  proc'[p].pc \in {"idle", "save", "count", "delete"}
      BY <1>2, <2>1, <3>2 DEF Create, Remove, Request, Saving, At
    <3>3. ASSUME NEW by, NEW f, NEW signs, NEW u \in Users, Loads(p, by, u, f, signs) PROVE proc'[p].pc = "save"
      BY <1>2, <3>3 DEF Loads, Load, Saving
    <3> QED BY <1>6, <3>1, <3>2, <3>3 DEF Asked, At
  <2>3. ASSUME NEW by, NEW v \in Users, Create(p, by, v) PROVE PurgeInv'
    <3>1. CASE ~Purged
      BY <1>5, <2>1, <2>2, <3>1
    <3>2. CASE Purged
      <4>1. late' = late \cup {v} /\ \A u \in Users \ {v} : user'[u] = user[u]
        BY <1>2, <2>3, <3>2 DEF Create
      <4> QED BY <1>1, <1>3, <2>1, <2>2, <4>1 DEF PurgeInv, At, Exists
    <3> QED BY <3>1, <3>2
  <2>4. ASSUME NEW v \in Users, LogoutAll(p, v) PROVE PurgeInv'
    <3>1. (\A u \in Users : Exists(u)' => Exists(u)) /\ late' = late
      BY <1>2, <2>4 DEF LogoutAll, Exists, Documents
    <3> QED BY <1>4, <2>1, <2>2, <3>1
  <2>5. ASSUME user' = user, late' = late PROVE PurgeInv'
    BY <1>4, <2>1, <2>2, <2>5 DEF Exists
  <2> QED BY <1>6, <2>3, <2>4, <2>5 DEF Asked, Loads, Load, Remove, Login, Work
<1>7. CASE Platform(p)
  <2>1. (\E w \in {"admin", "bump", "on", "purge"} : Goes(p, w)) /\ UNCHANGED <<user, docs, late>> /\ tenant' # "gone"
    BY <1>7 DEF Platform, CreateTenant, SwitchOff, SwitchOn, RemoveTenant, SuperStarts
  <2> QED BY <1>4, <2>1, Moves DEF At, Exists
<1>8. CASE Dies(p)
  <2>1. Returns(p) /\ UNCHANGED <<user, docs, tenant, late>>
    BY <1>8 DEF Dies
  <2> QED BY <1>4, <2>1, Moves DEF At, Exists
<1>9. CASE Save(p) \/ Sign(p) \/ CountAdmins(p) \/ Delete(p) \/ BumpAll(p) \/ SaveTenant(p)
  <2>1. UNCHANGED <<docs, late>> /\ (tenant' = "gone" => tenant = "gone")
    BY <1>9 DEF Save, Sign, CountAdmins, Delete, BumpAll, SaveTenant, At, history
  <2>2. Returns(p) \/ Goes(p, "delete") \/ Goes(p, "off")
    BY <1>9 DEF Save, Sign, CountAdmins, Delete, BumpAll, SaveTenant
  <2>3. ASSUME NEW u \in Users, Exists(u)' PROVE Exists(u)
    <3>1. CASE Delete(p) \/ BumpAll(p)
      BY <1>2, <2>3, <3>1 DEF Delete, BumpAll, Exists, Documents
    <3>2. CASE Save(p)
      BY <1>2, <2>3, <3>2 DEF Save, Exists
    <3> QED BY <1>9, <2>3, <3>1, <3>2 DEF Sign, CountAdmins, SaveTenant, Exists
  <2> QED BY <1>4, <2>1, <2>2, <2>3, Moves DEF At
<1>10. CASE CreateAdmin(p)
  <2>1. tenant = "on" /\ docs = {} /\ (\A w \in Users : ~Exists(w)) /\ \A q \in Procs \ {p} : At(q, "idle")
    BY <1>10 DEF CreateAdmin, Early, Exists
  <2>2. docs' = docs
    BY <1>10 DEF CreateAdmin
  <2>3. ~At(p, "users")' /\ ~At(p, "tenant")'
    BY <1>2, <1>10 DEF CreateAdmin, Returns, Idle, Request, Saving, At
  <2>4. \A q \in Procs : ~At(q, "users")' /\ ~At(q, "tenant")'
    BY <1>1, <2>1, <2>3 DEF At
  <2>5. CASE tenant' = "gone"
    <3>1. user' = user
      BY <1>10, <2>1, <2>5 DEF CreateAdmin
    <3> QED BY <2>1, <2>2, <2>4, <3>1 DEF PurgeInv, Exists
  <2> QED BY <2>4, <2>5 DEF PurgeInv
<1>11. CASE Purge(p)
  <2>1. /\ docs' = docs \ PurgedKinds /\ late' = late \ PurgedKinds /\ UNCHANGED <<user, tenant>>
        /\ ~At(p, "tenant")'
    BY <1>11, Moves DEF Purge, At
  <2>2. Over' => Over
    BY <1>1, <2>1 DEF At
  <2>3. Emptied'
    BY <2>1
  <2>4. Over => \A u \in Users : Exists(u)' => u \in late'
    BY <1>2, <1>3, <2>1 DEF Exists
  <2> QED BY <2>2, <2>3, <2>4 DEF PurgeInv
<1>12. CASE DeleteUsers(p)
  <2>1. /\ UNCHANGED <<docs, tenant>> /\ At(p, "users") /\ late' = late \ Users
        /\ \A u \in Users : ~Exists(u)'
    BY <1>2, <1>12, Moves DEF DeleteUsers, At, Exists, Documents
  <2>2. Emptied'
    BY <1>2, <1>3, <2>1
  <2> QED BY <2>1, <2>2 DEF PurgeInv
<1>13. CASE DeleteTenant(p)
  <2>1. UNCHANGED <<docs, late, user>> /\ At(p, "tenant")
    BY <1>13 DEF DeleteTenant, history
  <2> QED BY <1>3, <2>1 DEF PurgeInv, Exists
<1>14. CASE Write(p)
  <2>1. UNCHANGED <<user, tenant>> /\ proc'[p].pc = "idle"
    BY <1>14, Moves DEF Write
  <2>2. CASE ~Purged
    BY <1>5, <2>1, <2>2 DEF At
  <2>3. CASE Purged
    <3>1. PICK k \in Kinds : docs' = docs \cup {k} /\ late' = late \cup {k}
      BY <1>14, <2>3 DEF Write
    <3> QED BY <1>1, <1>3, <2>1, <3>1 DEF PurgeInv, At, Exists
  <2> QED BY <2>2, <2>3
<1> QED BY <1>6, <1>7, <1>8, <1>9, <1>10, <1>11, <1>12, <1>13, <1>14 DEF Step, Steps

-----------------------------------------------------------------------------
(* The properties.                                                          *)
AccountInv == AccountTypes /\ Early /\ RequestInv

\* The first state.
LEMMA AccountInvInit == Init => AccountInv
<1> SUFFICES ASSUME Init PROVE AccountInv
  OBVIOUS
<1>1. Nobody \in Documents
  BY DEF Nobody, Documents, Roles, Passwords
<1>2. IsRequest(Idle) /\ Idle.pc = "idle"
  BY DEF IsRequest, Idle, Request, Pcs, OfUser
<1>3. user = [u \in Users |-> Nobody] /\ proc = [p \in Procs |-> Idle]
  BY DEF Init
<1>4. UserTypes /\ RequestTypes /\ \A p \in Procs : proc[p].pc = "idle"
  BY <1>1, <1>2, <1>3 DEF UserTypes, RequestTypes
<1>5. OtherTypes
  BY DEF Init, OtherTypes
<1>6. Nobody.state = "no"
  BY DEF Nobody
<1>7. Early /\ RequestInv
  BY <1>3, <1>4, <1>6 DEF Init, Early, RequestInv, At, OfUser
<1> QED BY <1>4, <1>5, <1>7 DEF AccountInv, AccountTypes

\* Each step of the system is a step of one request, or none.
LEMMA StepOfRequest == ASSUME AccountTypes, Next PROVE \E p \in Procs : Step(p)
  BY Requests DEF Next, Step

\* What requests hold is kept by every step.
LEMMA AccountInvStep == AccountInv /\ [Next]_vars => AccountInv'
<1> SUFFICES ASSUME AccountInv, [Next]_vars PROVE AccountInv'
  OBVIOUS
<1>1. AccountTypes'
  BY TypesStep DEF AccountInv
<1>2. CASE Next
  <2>1. PICK p \in Procs : Step(p)
    BY <1>2, StepOfRequest DEF AccountInv
  <2> QED BY <1>1, <2>1, EarlyStep, RequestInvAfter DEF AccountInv
<1>3. CASE UNCHANGED vars
  <2>1. UNCHANGED <<user, tenant, docs, sessions, proc>>
    BY <1>3 DEF vars
  <2> QED BY <1>1, <2>1 DEF AccountInv, Early, RequestInv, At, Revokes
<1> QED BY <1>2, <1>3

\* "Impede que o cliente fique sem nenhum administrador ativo": whatever requests interleave,
\* of admins and of the superadmin, a tenant has an active administrator, unless a request that
\* took one away was overtaken by another that did, or the superadmin took a role or an access.
THEOREM AnAdminIsKept == Spec => []AdminKept
<1>1. Init => AccountInv /\ KeptInv
  BY AccountInvInit DEF Init, KeptInv
<1>2. AccountInv /\ KeptInv /\ [Next]_vars => AccountInv' /\ KeptInv'
  <2> SUFFICES ASSUME AccountInv, KeptInv, [Next]_vars PROVE KeptInv'
    BY AccountInvStep
  <2>1. CASE Next
    BY <2>1, StepOfRequest, AdminStep DEF AccountInv
  <2>2. CASE UNCHANGED vars
    BY <2>2 DEF vars, history, people, KeptInv, Kept, Takes, Spared, At, IsAdmin, Exists
  <2> QED BY <2>1, <2>2
<1>3. KeptInv => AdminKept
  BY DEF KeptInv, Kept, AdminKept
<1> QED BY <1>1, <1>2, <1>3, PTL DEF Spec

\* A session of a user whose sessions were ended is not accepted again, however many saves
\* of old copies are on their way, but for a user whose version such a save wrote.
THEOREM SessionsStayEnded == Spec => []EndedStaysEnded
<1>1. Init => AccountInv /\ VersionInv
  <2> SUFFICES ASSUME Init PROVE VersionInv
    BY AccountInvInit
  <2>1. \A p \in Procs : proc[p].pc = "idle"
    BY DEF Init, Idle, Request
  <2> QED BY <2>1 DEF Init, VersionInv
<1>2. AccountInv /\ VersionInv /\ [Next]_vars => AccountInv' /\ VersionInv'
  <2> SUFFICES ASSUME AccountInv, VersionInv, [Next]_vars PROVE VersionInv'
    BY AccountInvStep
  <2>1. CASE Next
    BY <2>1, StepOfRequest, VersionStep DEF AccountInv
  <2>2. CASE UNCHANGED vars
    BY <2>2 DEF vars, history, VersionInv, Exists
  <2> QED BY <2>1, <2>2
<1>3. AccountInv /\ VersionInv => EndedStaysEnded
  <2> SUFFICES ASSUME AccountInv, VersionInv, NEW s \in ended, Accepted(s), s.user \notin clobbered PROVE FALSE
    BY DEF EndedStaysEnded
  <2>1. s.user \in Users /\ user[s.user].version \in Nat
    BY DEF AccountInv, AccountTypes, OtherTypes, UserTypes, Documents
  <2>2. s.version < user[s.user].version /\ s.version = user[s.user].version
    BY DEF VersionInv, Accepted
  <2> QED BY <2>1, <2>2
<1> QED BY <1>1, <1>2, <1>3, PTL DEF Spec

\* Nobody is left with a password nobody knows and no invite to set one, unless a request
\* died between the two.
THEOREM NobodyIsLockedOut == Spec => []NobodyLockedOut
<1>1. Init => AccountInv /\ NobodyLockedOut
  BY AccountInvInit DEF Init, NobodyLockedOut, Exists, Nobody
<1>2. AccountInv /\ NobodyLockedOut /\ [Next]_vars => AccountInv' /\ NobodyLockedOut'
  <2> SUFFICES ASSUME AccountInv, NobodyLockedOut, [Next]_vars PROVE NobodyLockedOut'
    BY AccountInvStep
  <2>1. CASE Next
    BY <2>1, StepOfRequest, InviteStep DEF AccountInv
  <2>2. CASE UNCHANGED vars
    BY <2>2 DEF vars, history, NobodyLockedOut, Exists, At
  <2> QED BY <2>1, <2>2
<1> QED BY <1>1, <1>2, PTL DEF Spec

\* "Remocao total": however many removals of a tenant run side by side, what is gone leaves
\* import jobs and what a request wrote after the deletion of its kind, and nothing else.
THEOREM NothingIsLeft == Spec => []NothingLeft
<1>1. Init => AccountInv /\ PurgeInv
  <2> SUFFICES ASSUME Init PROVE PurgeInv
    BY AccountInvInit
  <2>1. \A p \in Procs : proc[p].pc = "idle"
    BY DEF Init, Idle, Request
  <2> QED BY <2>1 DEF Init, PurgeInv, At
<1>2. AccountInv /\ PurgeInv /\ [Next]_vars => AccountInv' /\ PurgeInv'
  <2> SUFFICES ASSUME AccountInv, PurgeInv, [Next]_vars PROVE PurgeInv'
    BY AccountInvStep
  <2>1. CASE Next
    BY <2>1, StepOfRequest, PurgeStep DEF AccountInv
  <2>2. CASE UNCHANGED vars
    BY <2>2 DEF vars, history, PurgeInv, Exists, At
  <2> QED BY <2>1, <2>2
<1>3. AccountInv /\ PurgeInv => NothingLeft
  BY DEF AccountInv, AccountTypes, OtherTypes, PurgeInv, NothingLeft
<1> QED BY <1>1, <1>2, <1>3, PTL DEF Spec
=============================================================================
