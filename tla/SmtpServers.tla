---------------------------- MODULE SmtpServers ----------------------------
(***************************************************************************)
(* The SMTP servers of a tenant and the one among them that campaigns and  *)
(* forms use by default (smtp.service).  A server is saved on a copy that  *)
(* was loaded before; a second write takes the flag from the others.       *)
(***************************************************************************)
EXTENDS Integers

CONSTANTS Servers,   \* SmtpSettings documents, those to come included
          Requests   \* HTTP requests in hand at once

VARIABLES
    server,   \* each document: not yet there, plain, the default one, or removed
    saving,   \* each request: its step, its server, isDefault on its copy, if that changed, if it is new
    trace     \* history: what happened to the flag

serverVars == <<server, saving, trace>>

ServerStates == {"none", "plain", "default", "gone"}
Live == {s \in Servers : server[s] \in {"plain", "default"}}
Defaults == {s \in Servers : server[s] = "default"}

ServersInit ==
    /\ \E s \in Servers : server = [t \in Servers |-> IF t = s THEN "plain" ELSE "none"]
    /\ saving = [r \in Requests |-> [pc |-> "idle"]]
    /\ trace = [had |-> FALSE, overlap |-> FALSE, unset |-> FALSE, broke |-> FALSE]

SavingAt(r, w) == saving[r].pc = w
SavingTo(r, w) == saving' = [saving EXCEPT ![r] = IF w = "idle" THEN [pc |-> "idle"] ELSE [@ EXCEPT !.pc = w]]
ServerIs(s, state) == server' = [server EXCEPT ![s] = state]

Begin(r, s, was, new, wants) ==
    LET dft == IF wants = "keep" THEN was ELSE wants = "on" IN
    /\ saving' = [saving EXCEPT ![r] = [pc |-> "write", of |-> s, dft |-> dft, dirty |-> new \/ dft # was, new |-> new]]
    /\ trace' = [trace EXCEPT !.overlap = @ \/ \E q \in Requests : ~SavingAt(q, "idle")]
    /\ UNCHANGED server

\* save of an existing server: the fields of the request on the loaded document.
LoadServer(r, s, wants) == SavingAt(r, "idle") /\ s \in Live /\ Begin(r, s, server[s] = "default", FALSE, wants)

NewServer(r, s, wants) ==
    /\ SavingAt(r, "idle") /\ server[s] = "none"
    /\ \A q \in Requests : ~SavingAt(q, "idle") => saving[q].of # s
    /\ Begin(r, s, FALSE, TRUE, wants)

\* Mutant: a new server does not take the flag from the others.
WriteServerNew(r) ==
    LET m == saving[r] IN
    /\ SavingAt(r, "write")
    /\ ServerIs(m.of, IF m.dirty THEN IF m.dft THEN "default" ELSE "plain" ELSE server[m.of])
    /\ SavingTo(r, IF m.dft /\ ~m.new THEN "clear" ELSE "idle")
    /\ trace' = [trace EXCEPT !.had = @ \/ m.dft]

\* doc.save writes isDefault only if the copy changed it, and fails on a removed document.
WriteServer(r) ==
    LET m == saving[r] IN
    /\ SavingAt(r, "write")
    /\ IF server[m.of] = "gone" THEN SavingTo(r, "idle") /\ UNCHANGED <<server, trace>>
       ELSE /\ ServerIs(m.of, IF m.dirty THEN IF m.dft THEN "default" ELSE "plain" ELSE server[m.of])
            /\ SavingTo(r, IF m.dft THEN "clear" ELSE "idle")
            /\ trace' = [trace EXCEPT !.had = @ \/ (m.dirty /\ m.dft),
                                      !.unset = @ \/ (m.dirty /\ ~m.dft /\ server[m.of] = "default")]

ClearOthers(r) ==
    /\ SavingAt(r, "clear")
    /\ server' = [s \in Servers |-> IF s # saving[r].of /\ server[s] = "default" THEN "plain" ELSE server[s]]
    /\ SavingTo(r, "idle")
    /\ UNCHANGED trace

RemoveServer(s) ==
    /\ s \in Live
    /\ ServerIs(s, "gone")
    /\ trace' = [trace EXCEPT !.unset = @ \/ server[s] = "default"]
    /\ UNCHANGED saving

\* MongoDB fails or the process dies: what was not written is not written.
SavingBreaks(r) ==
    /\ ~SavingAt(r, "idle")
    /\ SavingTo(r, "idle")
    /\ trace' = [trace EXCEPT !.broke = @ \/ SavingAt(r, "clear")]
    /\ UNCHANGED server

SaveStep(r) == WriteServer(r) \/ ClearOthers(r)

\* Between saves a tenant has one default server at most, also when two saves ran at once,
\* unless one broke off between its two writes.  Once it has one it keeps one, until it is
\* removed or switched off; only saves that overlapped can take the flag from each other.
OneDefault ==
    (\A r \in Requests : SavingAt(r, "idle")) =>
        /\ ~trace.broke => \A s, t \in Defaults : s = t
        /\ trace.had /\ Defaults = {} => trace.overlap \/ trace.unset
=============================================================================
