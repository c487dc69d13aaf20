---------------------------- MODULE SendingSetup ----------------------------
(***************************************************************************)
(* What sending needs in place, composed: the tenant's servers, the domain *)
(* they send from, and the engine's settings in every instance.  The       *)
(* requests are the same ones for all three; a domain is asked for only    *)
(* while a server sends from it.                                           *)
(***************************************************************************)
EXTENDS SmtpServers, SendingDomains, PlatformSettings

CONSTANT MaxEvents  \* bound: requests, faults and changes outside

ASSUME SetupAssumption == Callers = Requests /\ Admins = Requests /\ MaxEvents \in Nat

VARIABLE events     \* how many there have been

vars == <<serverVars, domainVars, settingsVars, events>>

Init == ServersInit /\ DomainsInit /\ SettingsInit /\ events = 0

Free(r) == SavingAt(r, "idle") /\ AskingAt(r, "idle") /\ AdminAt(r, "idle")
Happens == events < MaxEvents /\ events' = events + 1

ServersMove(A) == A /\ UNCHANGED <<domainVars, settingsVars>>
DomainsMove(A) == A /\ UNCHANGED <<serverVars, settingsVars>>
SettingsMove(A) == A /\ UNCHANGED <<serverVars, domainVars>>

Panel == \E r \in Requests :
    /\ Free(r) /\ Happens
    /\ \/ \E s \in Servers, wants \in {"keep", "on", "off"} : ServersMove(LoadServer(r, s, wants) \/ NewServer(r, s, wants))
       \/ Live # {} /\ DomainsMove(VerifyDomain(r) \/ AssertSendable(r))
       \/ \E i \in Instances, v \in Values : SettingsMove(BeginUpdate(r, i, v))

Outside ==
    /\ Happens
    /\ \/ \E s \in Servers : ServersMove(RemoveServer(s))
       \/ DomainsMove(EditRecords \/ DnsTurns)

Faults ==
    /\ Happens
    /\ \/ \E r \in Requests : ServersMove(SavingBreaks(r)) \/ DomainsMove(CallBreaks(r)) \/ SettingsMove(PublishFails(r))
       \/ \E i \in Instances : SettingsMove(ReadFails(i) \/ CloseFails(i) \/ Dies(i))

Continue ==
    /\ UNCHANGED events
    /\ \/ \E r \in Requests : ServersMove(SaveStep(r)) \/ DomainsMove(AskStep(r))
       \/ DomainsMove(HourPasses)
       \/ SettingsMove(SettingsStep)

Next == Panel \/ Outside \/ Faults \/ Continue
Spec == Init /\ [][Next]_vars
=============================================================================
