-------------------------- MODULE PlatformSettings --------------------------
(***************************************************************************)
(* The engine's settings, one document for the platform, and the worker    *)
(* each API instance builds from them (platformSettings.service,           *)
(* settingsBus, the reload of email.worker).  A saved change is published; *)
(* an instance that hears of it closes its worker and builds another.      *)
(***************************************************************************)
EXTENDS Integers, FiniteSets

CONSTANTS Instances,  \* processes of the API
          Admins,     \* requests of the platform's panel at once
          Values,     \* engine settings (concurrency and rate)
          FromEnv     \* defaultsFromEnv

ASSUME SettingsAssumption == FromEnv \in Values /\ "none" \notin Values

VARIABLES
    saved,     \* the PlatformSettings document
    inst,      \* each instance: its step, the worker's settings, those it has read, the service's cache
    notices,   \* messages of the channel an instance has not handled
    updating,  \* each request of the panel: its step, instance and value
    missed     \* history: instances a change did not reach since they last read the settings

settingsVars == <<saved, inst, notices, updating, missed>>

None == "none"
Down == [pc |-> "down", worker |-> None, read |-> None, cache |-> None]

SettingsInit ==
    /\ saved = None
    /\ inst = [i \in Instances |-> Down]
    /\ notices = [i \in Instances |-> 0]
    /\ updating = [a \in Admins |-> [pc |-> "idle"]]
    /\ missed = {}

InstAt(i, w) == inst[i].pc = w
Subscribed == {i \in Instances : inst[i].pc \in {"up", "load", "close"}}
Listening == {i \in Instances : InstAt(i, "up") \/ InstAt(i, "load")}
AdminAt(a, w) == updating[a].pc = w
AdminIdle(a) == updating' = [updating EXCEPT ![a] = [pc |-> "idle"]]

\* load: the document, which the first to ask creates from the environment.
Loaded == IF saved = None THEN FromEnv ELSE saved

(* startEmailWorker: read, build, subscribe.                                *)
Boot(i) ==
    /\ InstAt(i, "down")
    /\ inst' = [inst EXCEPT ![i] = [pc |-> "subscribe", worker |-> Loaded, read |-> None, cache |-> Loaded]]
    /\ saved' = Loaded
    /\ missed' = missed \ {i}
    /\ UNCHANGED <<notices, updating>>

Subscribe(i) ==
    /\ InstAt(i, "subscribe")
    /\ inst' = [inst EXCEPT ![i].pc = "up"]
    /\ UNCHANGED <<saved, notices, updating, missed>>

(* reloadEmailWorker: a notice that comes during a reload joins it.         *)
HearNotice(i) ==
    /\ notices[i] > 0
    /\ notices' = [notices EXCEPT ![i] = @ - 1]
    /\ inst' = IF InstAt(i, "up") THEN [inst EXCEPT ![i].pc = "load", ![i].cache = None] ELSE inst
    /\ missed' = IF InstAt(i, "close") THEN missed \cup {i} ELSE missed
    /\ UNCHANGED <<saved, updating>>

\* The settings are read, and the module has no worker until the old one has closed.
ReadSettings(i) ==
    /\ InstAt(i, "load")
    /\ inst' = [inst EXCEPT ![i] = [pc |-> "close", worker |-> None, read |-> Loaded, cache |-> Loaded]]
    /\ saved' = Loaded
    /\ missed' = missed \ {i}
    /\ UNCHANGED <<notices, updating>>

RebuildWorker(i) ==
    /\ InstAt(i, "close")
    /\ inst' = [inst EXCEPT ![i].pc = "up", ![i].worker = inst[i].read, ![i].read = None]
    /\ UNCHANGED <<saved, notices, updating, missed>>

(* MongoDB fails: a setting remembered meanwhile stands in, or the worker   *)
(* stays.  The old worker fails to close: the instance has none.            *)
ReadFails(i) ==
    /\ InstAt(i, "load")
    /\ inst' = [inst EXCEPT ![i] = IF @.cache = None THEN [@ EXCEPT !.pc = "up"]
                                   ELSE [@ EXCEPT !.pc = "close", !.worker = None, !.read = inst[i].cache]]
    /\ missed' = missed \cup {i}
    /\ UNCHANGED <<saved, notices, updating>>

CloseFails(i) ==
    /\ InstAt(i, "close")
    /\ inst' = [inst EXCEPT ![i].pc = "up", ![i].read = None]
    /\ missed' = missed \cup {i}
    /\ UNCHANGED <<saved, notices, updating>>

(* update: load, write, remember, publish.                                  *)
BeginUpdate(a, i, v) ==
    /\ AdminAt(a, "idle") /\ inst[i].pc # "down"
    /\ updating' = [updating EXCEPT ![a] = [pc |-> "write", on |-> i, value |-> v]]
    /\ saved' = Loaded
    /\ UNCHANGED <<inst, notices, missed>>

WriteSettings(a) ==
    LET u == updating[a] IN
    /\ AdminAt(a, "write")
    /\ saved' = u.value
    /\ inst' = [inst EXCEPT ![u.on].cache = u.value]
    /\ updating' = [updating EXCEPT ![a].pc = "publish"]
    /\ UNCHANGED <<notices, missed>>

\* Who has read the settings and does not hear of a change keeps the old ones.
Unheard == {i \in Instances : InstAt(i, "subscribe")}

\* Mutant: the instance that saved is not told.
PublishToOthers(a) ==
    /\ AdminAt(a, "publish")
    /\ notices' = [i \in Instances |-> IF i \in Subscribed \ {updating[a].on} THEN notices[i] + 1 ELSE notices[i]]
    /\ missed' = missed \cup Unheard
    /\ AdminIdle(a)
    /\ UNCHANGED <<saved, inst>>

PublishChange(a) ==
    /\ AdminAt(a, "publish")
    /\ notices' = [i \in Instances |-> IF i \in Subscribed THEN notices[i] + 1 ELSE notices[i]]
    /\ missed' = missed \cup Unheard
    /\ AdminIdle(a)
    /\ UNCHANGED <<saved, inst>>

\* The channel is out, which update ignores; or the request broke off before it.
PublishFails(a) ==
    /\ AdminAt(a, "publish")
    /\ missed' = missed \cup Subscribed \cup Unheard
    /\ AdminIdle(a)
    /\ UNCHANGED <<saved, inst, notices>>

Dies(i) ==
    LET on == {a \in Admins : ~AdminAt(a, "idle") /\ updating[a].on = i} IN
    /\ inst[i].pc # "down"
    /\ inst' = [inst EXCEPT ![i] = Down]
    /\ notices' = [notices EXCEPT ![i] = 0]
    /\ missed' = (IF \E a \in on : AdminAt(a, "publish") THEN missed \cup Subscribed \cup Unheard ELSE missed) \ {i}
    /\ updating' = [a \in Admins |-> IF a \in on THEN [pc |-> "idle"] ELSE updating[a]]
    /\ UNCHANGED saved

SettingsStep ==
    \/ \E i \in Instances : Boot(i) \/ Subscribe(i) \/ HearNotice(i) \/ ReadSettings(i) \/ RebuildWorker(i)
    \/ \E a \in Admins : WriteSettings(a) \/ PublishChange(a)

\* An instance that is up, with every notice handled, sends with the settings that are saved.
\* The exceptions are the ones `missed` lists: a change published while it had read and not yet
\* subscribed, or heard while its reload had already read, and failures.
Announced == \A a \in Admins : ~AdminAt(a, "publish")
WorkersFollowSettings ==
    \A i \in Instances \ missed :
        InstAt(i, "up") /\ notices[i] = 0 /\ Announced => inst[i].worker = saved
=============================================================================
