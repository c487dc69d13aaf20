--------------------------- MODULE BounceWebhook ---------------------------
(***************************************************************************)
(* Bounces the SMTP server reports later, by webhook: the same             *)
(* processBounce the worker uses, in a process of its own and without the  *)
(* worker's finalizeIfDone and autoPauseIfTooManyErrors.  The server may   *)
(* report a bounce for any message it accepted, and report it again.       *)
(***************************************************************************)
EXTENDS CampaignState

KeepApart == UNCHANGED <<smtp, workVars, apiVars, late>>

HookGoto(h, s) == hook' = [hook EXCEPT ![h].step = s]

Reported(c) == \E r \in Runs : mails[<<c, r>>] > 0

HookArrives(h) ==
    /\ "webhook" \in Environment /\ hooksLeft > 0
    /\ hook[h].step = "idle"
    /\ \E c \in Contacts :
          /\ Reported(c)
          /\ hook' = [hook EXCEPT ![h] = [step |-> "find", contact |-> c, seen |-> NoLog]]
    /\ hooksLeft' = hooksLeft - 1
    /\ UNCHANGED <<camp, log, eligible>> /\ KeepApart

\* Without a SendLog there is no tenant to act for: nothing is marked.
HookFind(h) ==
    LET c == hook[h].contact IN
    /\ hook[h].step = "find"
    /\ \/ /\ log[c] = NoLog
          /\ hook' = [hook EXCEPT ![h] = IdleHook]
          /\ UNCHANGED eligible
       \/ /\ log[c] # NoLog
          /\ hook' = [hook EXCEPT ![h].seen = log[c], ![h].step = "mark"]
          /\ eligible' = eligible \ {c}
    /\ UNCHANGED <<camp, log, hooksLeft>> /\ KeepApart

\* Loaded as bounced: nothing to do. Otherwise save(), which throws if the log is gone.
HookMark(h) ==
    LET c == hook[h].contact IN
    /\ hook[h].step = "mark"
    /\ \/ /\ hook[h].seen.status # "bounced" /\ log[c].run = hook[h].seen.run
          /\ log' = [log EXCEPT ![c].status = "bounced"]
          /\ HookGoto(h, "count")
       \/ /\ hook[h].seen.status = "bounced" \/ log[c].run # hook[h].seen.run
          /\ hook' = [hook EXCEPT ![h] = IdleHook]
          /\ UNCHANGED log
    /\ UNCHANGED <<camp, eligible, hooksLeft>> /\ KeepApart

HookCount(h) ==
    /\ hook[h].step = "count"
    /\ camp' = Increment("bounced")
    /\ hook' = [hook EXCEPT ![h] = IdleHook]
    /\ UNCHANGED <<log, eligible, hooksLeft>> /\ KeepApart

HookStepOf(h) == HookFind(h) \/ HookMark(h) \/ HookCount(h)
=============================================================================
