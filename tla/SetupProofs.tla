---------------------------- MODULE SetupProofs ----------------------------
(***************************************************************************)
(* What SendingSetup promises, for any number of servers, requests and     *)
(* instances, any settings and any age a verdict may have.  Each part of   *)
(* the system has an invariant of its own, which the steps of the others   *)
(* leave alone.                                                            *)
(***************************************************************************)
EXTENDS SendingSetup, TLAPS

-----------------------------------------------------------------------------
(* The default server.                                                      *)
SavingMemory == [pc : {"write", "clear"}, of : Servers, dft : BOOLEAN, dirty : BOOLEAN, new : BOOLEAN]
SavingIdle == [pc |-> "idle"]

ServerTypes ==
    /\ server \in [Servers -> ServerStates]
    /\ saving \in [Requests -> SavingMemory \cup {SavingIdle}]
    /\ trace \in [had : BOOLEAN, overlap : BOOLEAN, unset : BOOLEAN, broke : BOOLEAN]

\* Two defaults have a save that is about to clear one of them.
Contested ==
    ~trace.broke => \A s, t \in Defaults :
        s # t => \E r \in Requests : saving[r].pc = "clear" /\ saving[r].of \in {s, t}

\* While saves do not overlap there is one at most, and what it has read is what is stored.
Alone ==
    ~trace.overlap =>
        /\ \A q, r \in Requests : saving[q].pc # "idle" /\ saving[r].pc # "idle" => q = r
        /\ ~trace.unset => \A r \in Requests :
             saving[r].pc = "write" /\ saving[r].dft /\ ~saving[r].dirty => saving[r].of \in Defaults

\* A default, once there, is there until it is taken away, and the save that clears the others
\* leaves it.
Kept ==
    trace.had /\ ~trace.overlap /\ ~trace.unset =>
        Defaults # {} /\ \A r \in Requests : saving[r].pc = "clear" => saving[r].of \in Defaults

DefaultInv == Contested /\ Alone /\ Kept

ServerInv == ServerTypes /\ DefaultInv

ServersNext ==
    \/ \E r \in Requests, s \in Servers, wants \in {"keep", "on", "off"} :
          LoadServer(r, s, wants) \/ NewServer(r, s, wants)
    \/ \E r \in Requests : WriteServer(r) \/ ClearOthers(r) \/ SavingBreaks(r)
    \/ \E s \in Servers : RemoveServer(s)

\* A save that goes on keeps what it has in hand.
LEMMA MemoryMoves ==
  ASSUME NEW m \in SavingMemory, NEW w \in {"write", "clear"}
  PROVE  /\ [m EXCEPT !.pc = w] \in SavingMemory
         /\ [m EXCEPT !.pc = w].pc = w
         /\ [m EXCEPT !.pc = w].of = m.of
         /\ [m EXCEPT !.pc = w].dft = m.dft
         /\ [m EXCEPT !.pc = w].dirty = m.dirty
BY DEF SavingMemory
\* What a step of one save does to the saves in hand.
LEMMA SavingMoves ==
  ASSUME saving \in [Requests -> SavingMemory \cup {SavingIdle}], NEW r \in Requests,
           saving[r].pc # "idle", NEW w \in {"idle", "write", "clear"}, SavingTo(r, w)
  PROVE  /\ saving' \in [Requests -> SavingMemory \cup {SavingIdle}]
         /\ saving'[r].pc = w
         /\ w # "idle" => saving'[r].of = saving[r].of /\ saving'[r].dft = saving[r].dft
              /\ saving'[r].dirty = saving[r].dirty
         /\ \A q \in Requests \ {r} : saving'[q] = saving[q]
<1> DEFINE m == saving[r]
<1>0. SavingIdle.pc = "idle"
  BY DEF SavingIdle
<1>1. m \in SavingMemory
  BY <1>0
<1>2. CASE w = "idle"
  <2>1. saving' = [saving EXCEPT ![r] = SavingIdle]
    BY <1>2 DEF SavingTo, SavingIdle
  <2> HIDE DEF m
  <2> QED BY <2>1, <1>2, <1>0
<1>3. CASE w # "idle"
  <2> DEFINE n == [m EXCEPT !.pc = w]
  <2>1. saving' = [saving EXCEPT ![r] = n]
    BY <1>3 DEF SavingTo
  <2>2. n \in SavingMemory /\ n.pc = w /\ n.of = m.of /\ n.dft = m.dft /\ n.dirty = m.dirty
    BY <1>1, <1>3, MemoryMoves
  <2> HIDE DEF n
  <2> QED BY <2>1, <2>2, <1>3
<1> QED BY <1>2, <1>3

\* The servers' part of the state keeps its types.
LEMMA ServerTypesStep == ASSUME ServerTypes, [ServersNext]_serverVars PROVE ServerTypes'
<1>0. SavingIdle.pc = "idle"
  BY DEF SavingIdle
<1>1. ASSUME NEW r \in Requests, NEW s \in Servers, NEW wants \in {"keep", "on", "off"},
             LoadServer(r, s, wants) \/ NewServer(r, s, wants)
      PROVE  ServerTypes'
  <2>1. PICK was \in BOOLEAN, new \in BOOLEAN : Begin(r, s, was, new, wants)
    BY <1>1, <1>0 DEF LoadServer, NewServer
  <2> DEFINE dft == IF wants = "keep" THEN was ELSE wants = "on"
             n == [pc |-> "write", of |-> s, dft |-> dft, dirty |-> new \/ dft # was, new |-> new]
  <2>2. n \in SavingMemory
    BY DEF SavingMemory
  <2>3. saving' = [saving EXCEPT ![r] = n] /\ server' = server
    BY <2>1 DEF Begin
  <2>4. trace' \in [had : BOOLEAN, overlap : BOOLEAN, unset : BOOLEAN, broke : BOOLEAN]
    BY <2>1 DEF Begin, ServerTypes
  <2> HIDE DEF n
  <2> QED BY <2>2, <2>3, <2>4 DEF ServerTypes
<1>2. ASSUME NEW r \in Requests, WriteServer(r) PROVE ServerTypes'
  <2>1. saving[r] \in SavingMemory
    BY <1>0, <1>2 DEF WriteServer, SavingAt, ServerTypes
  <2>2. \E w \in {"idle", "clear"} : SavingTo(r, w)
    BY <1>2 DEF WriteServer
  <2>3. saving' \in [Requests -> SavingMemory \cup {SavingIdle}]
    BY <1>2, <2>2, SavingMoves DEF WriteServer, SavingAt, ServerTypes
  <2>4. server' \in [Servers -> ServerStates]
    BY <1>2, <2>1 DEF WriteServer, ServerIs, ServerTypes, ServerStates, SavingMemory
  <2>5. trace' \in [had : BOOLEAN, overlap : BOOLEAN, unset : BOOLEAN, broke : BOOLEAN]
    BY <1>2, <2>1 DEF WriteServer, ServerTypes, SavingMemory
  <2> QED BY <2>3, <2>4, <2>5 DEF ServerTypes
<1>3. ASSUME NEW r \in Requests, ClearOthers(r) \/ SavingBreaks(r) PROVE ServerTypes'
  <2>1. saving' \in [Requests -> SavingMemory \cup {SavingIdle}]
    BY <1>3, SavingMoves DEF ClearOthers, SavingBreaks, SavingAt, ServerTypes
  <2>2. server' \in [Servers -> ServerStates]
    BY <1>3 DEF ClearOthers, SavingBreaks, ServerTypes, ServerStates
  <2>3. trace' \in [had : BOOLEAN, overlap : BOOLEAN, unset : BOOLEAN, broke : BOOLEAN]
    BY <1>3 DEF ClearOthers, SavingBreaks, ServerTypes
  <2> QED BY <2>1, <2>2, <2>3 DEF ServerTypes
<1>4. ASSUME NEW s \in Servers, RemoveServer(s) PROVE ServerTypes'
  BY <1>4 DEF RemoveServer, ServerIs, ServerTypes, ServerStates
<1>5. CASE UNCHANGED serverVars
  BY <1>5 DEF serverVars, ServerTypes
<1> QED BY <1>1, <1>2, <1>3, <1>4, <1>5 DEF ServersNext

\* No step of a save, and no removal, breaks what the flags promise.
LEMMA DefaultStep == ASSUME ServerInv, [ServersNext]_serverVars PROVE DefaultInv'
<1>0. ServerTypes' /\ ServerTypes /\ SavingIdle.pc = "idle"
  BY ServerTypesStep DEF ServerInv, SavingIdle
<1>1. ASSUME NEW r \in Requests, NEW s \in Servers, NEW wants \in {"keep", "on", "off"},
             LoadServer(r, s, wants) \/ NewServer(r, s, wants)
      PROVE  DefaultInv'
  <2>1. PICK was \in BOOLEAN, new \in BOOLEAN : Begin(r, s, was, new, wants)
          /\ (was = (server[s] = "default")) /\ saving[r].pc = "idle"
    BY <1>1, <1>0 DEF LoadServer, NewServer, SavingAt
  <2>2. saving'[r].pc = "write" /\ saving'[r].of = s /\ \A q \in Requests \ {r} : saving'[q] = saving[q]
    BY <2>1, <1>0 DEF Begin, ServerTypes
  <2>3. saving'[r].dft /\ ~saving'[r].dirty => server[s] = "default"
    BY <2>1, <1>0 DEF Begin, ServerTypes
  <2>4. /\ (trace'.had <=> trace.had) /\ (trace'.unset <=> trace.unset) /\ (trace'.broke <=> trace.broke)
        /\ (trace'.overlap <=> trace.overlap \/ \E q \in Requests : saving[q].pc # "idle")
        /\ server' = server
    BY <2>1, <1>0 DEF Begin, ServerTypes, SavingAt
  <2>7. Contested'
    BY <2>1, <2>2, <2>3, <2>4, <1>0 DEF ServerInv, DefaultInv, Contested, Defaults
  <2>8. Alone'
    BY <2>1, <2>2, <2>3, <2>4, <1>0 DEF ServerInv, DefaultInv, Alone, Defaults
  <2>9. Kept'
    BY <2>1, <2>2, <2>3, <2>4, <1>0 DEF ServerInv, DefaultInv, Kept, Alone, Defaults
  <2> QED BY <2>7, <2>8, <2>9 DEF DefaultInv
<1>2. ASSUME NEW r \in Requests, WriteServer(r) PROVE DefaultInv'
  <2> DEFINE m == saving[r]
  <2>1. m \in SavingMemory /\ m.pc = "write"
    BY <1>0, <1>2 DEF WriteServer, SavingAt, ServerTypes
  <2>2. CASE server[m.of] = "gone"
    <3>1. server' = server /\ trace' = trace /\ SavingTo(r, "idle")
      BY <1>2, <2>2 DEF WriteServer
    <3>2. saving'[r].pc = "idle" /\ \A q \in Requests \ {r} : saving'[q] = saving[q]
      BY <3>1, <2>1, <1>0, SavingMoves DEF ServerTypes
    <3> HIDE DEF m
    <3>7. Contested'
      BY <3>1, <3>2, <2>1 DEF ServerInv, DefaultInv, Contested, Defaults, m
    <3>8. Alone'
      BY <3>1, <3>2, <2>1 DEF ServerInv, DefaultInv, Alone, Defaults, m
    <3>9. Kept'
      BY <3>1, <3>2, <2>1 DEF ServerInv, DefaultInv, Kept, Alone, Defaults, m
    <3> QED BY <3>7, <3>8, <3>9 DEF DefaultInv
  <2>3. CASE server[m.of] # "gone"
    <3>1. /\ server' = [server EXCEPT ![m.of] = IF m.dirty THEN IF m.dft THEN "default" ELSE "plain" ELSE server[m.of]]
          /\ SavingTo(r, IF m.dft THEN "clear" ELSE "idle")
      BY <1>2, <2>3 DEF WriteServer, ServerIs
    <3>2. /\ saving'[r].pc = (IF m.dft THEN "clear" ELSE "idle")
          /\ m.dft => saving'[r].of = m.of
          /\ \A q \in Requests \ {r} : saving'[q] = saving[q]
      BY <3>1, <2>1, <1>0, SavingMoves DEF ServerTypes
    <3>3. /\ (trace'.had <=> trace.had \/ (m.dirty /\ m.dft)) /\ (trace'.broke <=> trace.broke)
               /\ (trace'.overlap <=> trace.overlap)
          /\ (trace'.unset <=> trace.unset \/ (m.dirty /\ ~m.dft /\ server[m.of] = "default"))
      BY <1>2, <2>3, <1>0 DEF WriteServer, ServerTypes
    <3>4. m.of \in Servers /\ m.dft \in BOOLEAN /\ m.dirty \in BOOLEAN
      BY <2>1 DEF SavingMemory
    <3>5. /\ m.dirty /\ m.dft => Defaults' = Defaults \cup {m.of}
          /\ m.dirty /\ ~m.dft => Defaults' = Defaults \ {m.of}
          /\ ~m.dirty => Defaults' = Defaults
      BY <3>1, <3>4, <1>0 DEF Defaults, ServerTypes
    <3>6. m.of \in Defaults <=> server[m.of] = "default"
      BY <3>4 DEF Defaults
    <3> HIDE DEF m
    <3>7. Contested'
      BY <3>2, <3>3, <3>4, <3>5, <3>6, <2>1 DEF ServerInv, DefaultInv, Contested, m
    <3>8. Alone'
      BY <3>2, <3>3, <3>4, <3>5, <3>6, <2>1 DEF ServerInv, DefaultInv, Alone, m
    <3>9. Kept'
      BY <3>2, <3>3, <3>4, <3>5, <3>6, <2>1 DEF ServerInv, DefaultInv, Kept, Alone, m
    <3> QED BY <3>7, <3>8, <3>9 DEF DefaultInv
  <2> QED BY <2>2, <2>3
<1>3. ASSUME NEW r \in Requests, ClearOthers(r) PROVE DefaultInv'
  <2>1. saving'[r].pc = "idle" /\ \A q \in Requests \ {r} : saving'[q] = saving[q]
    BY <1>3, <1>0, SavingMoves DEF ClearOthers, SavingAt, ServerTypes
  <2>2. Defaults' = Defaults \cap {saving[r].of} /\ trace' = trace /\ saving[r].pc = "clear"
    BY <1>3, <1>0 DEF ClearOthers, SavingAt, ServerTypes, Defaults
  <2>7. Contested'
    BY <2>1, <2>2 DEF ServerInv, DefaultInv, Contested
  <2>8. Alone'
    BY <2>1, <2>2 DEF ServerInv, DefaultInv, Alone
  <2>9. Kept'
    BY <2>1, <2>2 DEF ServerInv, DefaultInv, Kept, Alone
  <2> QED BY <2>7, <2>8, <2>9 DEF DefaultInv
<1>4. ASSUME NEW r \in Requests, SavingBreaks(r) PROVE DefaultInv'
  <2>1. saving'[r].pc = "idle" /\ \A q \in Requests \ {r} : saving'[q] = saving[q]
    BY <1>4, <1>0, SavingMoves DEF SavingBreaks, SavingAt, ServerTypes
  <2>2. Defaults' = Defaults
    BY <1>4 DEF SavingBreaks, Defaults
  <2>3. (trace'.broke <=> trace.broke \/ saving[r].pc = "clear") /\ (trace'.had <=> trace.had)
          /\ (trace'.overlap <=> trace.overlap) /\ (trace'.unset <=> trace.unset)
    BY <1>4, <1>0 DEF SavingBreaks, SavingAt, ServerTypes
  <2>7. Contested'
    BY <2>1, <2>2, <2>3 DEF ServerInv, DefaultInv, Contested
  <2>8. Alone'
    BY <2>1, <2>2, <2>3 DEF ServerInv, DefaultInv, Alone
  <2>9. Kept'
    BY <2>1, <2>2, <2>3 DEF ServerInv, DefaultInv, Kept, Alone
  <2> QED BY <2>7, <2>8, <2>9 DEF DefaultInv
<1>5. ASSUME NEW s \in Servers, RemoveServer(s) PROVE DefaultInv'
  <2>1. Defaults' = Defaults \ {s} /\ saving' = saving
    BY <1>5, <1>0 DEF RemoveServer, ServerIs, ServerTypes, Defaults
  <2>2. (trace'.unset <=> trace.unset \/ s \in Defaults) /\ (trace'.had <=> trace.had)
          /\ (trace'.overlap <=> trace.overlap) /\ (trace'.broke <=> trace.broke)
    BY <1>5, <1>0 DEF RemoveServer, ServerTypes, Defaults
  <2>7. Contested'
    BY <2>1, <2>2 DEF ServerInv, DefaultInv, Contested
  <2>8. Alone'
    BY <2>1, <2>2 DEF ServerInv, DefaultInv, Alone
  <2>9. Kept'
    BY <2>1, <2>2 DEF ServerInv, DefaultInv, Kept, Alone
  <2> QED BY <2>7, <2>8, <2>9 DEF DefaultInv
<1>6. CASE UNCHANGED serverVars
  BY <1>6 DEF serverVars, ServerInv, DefaultInv, Contested, Alone, Kept, Defaults
<1> QED BY <1>1, <1>2, <1>3, <1>4, <1>5, <1>6 DEF ServersNext

-----------------------------------------------------------------------------
(* The engine's settings.                                                   *)
InstanceStates == [pc : {"down", "subscribe", "up", "load", "close"}, worker : Values \cup {None},
                   read : Values \cup {None}, cache : Values \cup {None}]
Change == [pc : {"write", "publish"}, on : Instances, value : Values]
NoChange == [pc |-> "idle"]

SettingsTypes ==
    /\ saved \in Values \cup {None}
    /\ inst \in [Instances -> InstanceStates]
    /\ notices \in [Instances -> Nat]
    /\ updating \in [Admins -> Change \cup {NoChange}]

\* The first instance to start creates the document; who is not subscribed hears nothing.
Created == saved = None => \A i \in Instances : inst[i].pc = "down"
Deaf == \A i \in Instances : inst[i].pc \in {"down", "subscribe"} => notices[i] = 0

\* What an instance runs with, or is about to, is what is saved, unless it will hear otherwise.
WillHear(i) == notices[i] > 0 \/ \E a \in Admins : updating[a].pc = "publish"
Follows ==
    \A i \in Instances \ missed :
        /\ inst[i].pc \in {"up", "subscribe"} => inst[i].worker = saved \/ WillHear(i)
        /\ inst[i].pc = "close" => inst[i].read = saved \/ WillHear(i)

FollowInv == Created /\ Deaf /\ Follows
SettingsInv == SettingsTypes /\ FollowInv

SettingsNext ==
    \/ SettingsStep
    \/ \E a \in Admins, i \in Instances, v \in Values : BeginUpdate(a, i, v)
    \/ \E a \in Admins : PublishFails(a)
    \/ \E i \in Instances : ReadFails(i) \/ CloseFails(i) \/ Dies(i)

\* A change that is stored goes on to be announced.
LEMMA ChangeMoves ==
  ASSUME SettingsTypes, NEW a \in Admins, updating[a].pc # "idle"
  PROVE  /\ updating[a] \in Change
         /\ [updating[a] EXCEPT !.pc = "publish"] \in Change
         /\ [updating[a] EXCEPT !.pc = "publish"].pc = "publish"
<1>1. NoChange.pc = "idle"
  BY DEF NoChange
<1>2. updating[a] \in Change
  BY <1>1 DEF SettingsTypes
<1> QED BY <1>2 DEF Change

\* The types of the settings' part, by variable.
LEMMA NoticesStep == ASSUME SettingsTypes, [SettingsNext]_settingsVars
              PROVE notices' \in [Instances -> Nat] /\ saved' \in Values \cup {None}
<1> USE SettingsAssumption DEF SettingsTypes, Loaded
<1>1. ASSUME NEW i \in Instances, Boot(i) \/ Subscribe(i) \/ ReadSettings(i) \/ RebuildWorker(i)
               \/ ReadFails(i) \/ CloseFails(i)
      PROVE  notices' = notices /\ saved' \in Values \cup {None}
  BY <1>1 DEF Boot, Subscribe, ReadSettings, RebuildWorker, ReadFails, CloseFails
<1>2. ASSUME NEW i \in Instances, HearNotice(i) \/ Dies(i)
      PROVE notices' \in [Instances -> Nat] /\ saved' = saved
  BY <1>2 DEF HearNotice, Dies
<1>3. ASSUME NEW a \in Admins, WriteSettings(a) PROVE notices' = notices /\ saved' \in Values
  BY <1>3, ChangeMoves DEF WriteSettings, AdminAt, Change
<1>4. ASSUME NEW a \in Admins, PublishChange(a) \/ PublishFails(a)
      PROVE notices' \in [Instances -> Nat] /\ saved' = saved
  BY <1>4 DEF PublishChange, PublishFails
<1>5. ASSUME NEW a \in Admins, NEW i \in Instances, NEW v \in Values, BeginUpdate(a, i, v)
      PROVE notices' = notices /\ saved' \in Values \cup {None}
  BY <1>5 DEF BeginUpdate
<1>6. CASE UNCHANGED settingsVars
  BY <1>6 DEF settingsVars
<1> QED BY <1>1, <1>2, <1>3, <1>4, <1>5, <1>6 DEF SettingsNext, SettingsStep

\* The memory of the requests keeps its type.
LEMMA UpdatingStep == ASSUME SettingsTypes, [SettingsNext]_settingsVars
              PROVE updating' \in [Admins -> Change \cup {NoChange}]
<1>1. ASSUME NEW i \in Instances, Boot(i) \/ Subscribe(i) \/ ReadSettings(i) \/ RebuildWorker(i)
               \/ ReadFails(i) \/ CloseFails(i) \/ HearNotice(i)
      PROVE  updating' = updating
  BY <1>1 DEF Boot, Subscribe, ReadSettings, RebuildWorker, ReadFails, CloseFails, HearNotice
<1>2. ASSUME NEW i \in Instances, Dies(i)
      PROVE updating' \in [Admins -> Change \cup {NoChange}]
  BY <1>2 DEF Dies, NoChange, SettingsTypes
<1>3. ASSUME NEW a \in Admins, WriteSettings(a) PROVE updating' \in [Admins -> Change \cup {NoChange}]
  <2> DEFINE n == [updating[a] EXCEPT !.pc = "publish"]
  <2>1. updating' = [updating EXCEPT ![a] = n] /\ updating[a].pc = "write"
    BY <1>3 DEF WriteSettings, AdminAt
  <2>2. n \in Change
    BY <2>1, ChangeMoves
  <2> HIDE DEF n
  <2> QED BY <2>1, <2>2 DEF SettingsTypes
<1>4. ASSUME NEW a \in Admins, PublishChange(a) \/ PublishFails(a)
      PROVE updating' \in [Admins -> Change \cup {NoChange}]
  <2>1. updating' = [updating EXCEPT ![a] = NoChange]
    BY <1>4 DEF PublishChange, PublishFails, AdminIdle, NoChange
  <2> QED BY <2>1 DEF SettingsTypes
<1>5. ASSUME NEW a \in Admins, NEW i \in Instances, NEW v \in Values, BeginUpdate(a, i, v)
      PROVE updating' \in [Admins -> Change \cup {NoChange}]
  <2> DEFINE n == [pc |-> "write", on |-> i, value |-> v]
  <2>1. updating' = [updating EXCEPT ![a] = n]
    BY <1>5 DEF BeginUpdate
  <2>2. n \in Change
    BY DEF Change
  <2> HIDE DEF n
  <2> QED BY <2>1, <2>2 DEF SettingsTypes
<1>6. CASE UNCHANGED settingsVars
  BY <1>6 DEF settingsVars, SettingsTypes
<1> QED BY <1>1, <1>2, <1>3, <1>4, <1>5, <1>6 DEF SettingsNext, SettingsStep, SettingsTypes

\* The memory of the instances keeps its type.
LEMMA InstancesStep == ASSUME SettingsTypes, [SettingsNext]_settingsVars
              PROVE inst' \in [Instances -> InstanceStates]
<1>1. Loaded \in Values /\ Down \in InstanceStates
  BY SettingsAssumption DEF SettingsTypes, Loaded, Down, InstanceStates
<1>2. ASSUME NEW i \in Instances, Boot(i) \/ ReadSettings(i)
      PROVE  inst' \in [Instances -> InstanceStates]
  BY <1>2, <1>1 DEF Boot, ReadSettings, SettingsTypes, InstanceStates
<1>3. ASSUME NEW i \in Instances, Subscribe(i) \/ RebuildWorker(i) \/ CloseFails(i)
      PROVE  inst' \in [Instances -> InstanceStates]
  BY <1>3 DEF Subscribe, RebuildWorker, CloseFails, SettingsTypes, InstanceStates
<1>4. ASSUME NEW i \in Instances, ReadFails(i) PROVE  inst' \in [Instances -> InstanceStates]
  <2>1. inst[i] \in InstanceStates
    BY DEF SettingsTypes
  <2>2. CASE inst[i].cache = None
    <3>1. inst' = [inst EXCEPT ![i] = [inst[i] EXCEPT !.pc = "up"]]
      BY <1>4, <2>2 DEF ReadFails
    <3>2. [inst[i] EXCEPT !.pc = "up"] \in InstanceStates
      BY <2>1 DEF InstanceStates
    <3> QED BY <3>1, <3>2 DEF SettingsTypes
  <2>3. CASE inst[i].cache # None
    <3>1. inst' = [inst EXCEPT ![i] = [inst[i] EXCEPT !.pc = "close", !.worker = None,
            !.read = inst[i].cache]]
      BY <1>4, <2>3 DEF ReadFails
    <3>2. [inst[i] EXCEPT !.pc = "close", !.worker = None, !.read = inst[i].cache] \in InstanceStates
      BY <2>1 DEF InstanceStates
    <3> QED BY <3>1, <3>2 DEF SettingsTypes
  <2> QED BY <2>2, <2>3
<1>5. ASSUME NEW i \in Instances, HearNotice(i) PROVE  inst' \in [Instances -> InstanceStates]
  <2>1. CASE InstAt(i, "up")
    <3> DEFINE heard == [inst EXCEPT ![i].pc = "load"]
    <3>1. heard \in [Instances -> InstanceStates]
      BY DEF SettingsTypes, InstanceStates
    <3>2. inst' = [heard EXCEPT ![i].cache = None]
      BY <1>5, <2>1 DEF HearNotice, SettingsTypes, InstanceStates
    <3> HIDE DEF heard
    <3> QED BY <3>1, <3>2 DEF InstanceStates
  <2>2. CASE ~InstAt(i, "up")
    BY <1>5, <2>2 DEF HearNotice, SettingsTypes
  <2> QED BY <2>1, <2>2
<1>6. ASSUME NEW i \in Instances, Dies(i) PROVE  inst' \in [Instances -> InstanceStates]
  BY <1>6, <1>1 DEF Dies, SettingsTypes
<1>7. ASSUME NEW a \in Admins, WriteSettings(a) PROVE inst' \in [Instances -> InstanceStates]
  <2>1. updating[a].value \in Values
    BY <1>7, ChangeMoves DEF WriteSettings, AdminAt, Change
  <2> QED BY <1>7, <2>1 DEF WriteSettings, SettingsTypes, InstanceStates
<1>8. ASSUME NEW a \in Admins, PublishChange(a) \/ PublishFails(a)
               \/ \E i \in Instances, v \in Values : BeginUpdate(a, i, v)
      PROVE inst' = inst
  BY <1>8 DEF PublishChange, PublishFails, BeginUpdate
<1>9. CASE UNCHANGED settingsVars
  BY <1>9 DEF settingsVars, SettingsTypes
<1> QED BY <1>2, <1>3, <1>4, <1>5, <1>6, <1>7, <1>8, <1>9 DEF SettingsNext, SettingsStep, SettingsTypes

\* The settings' part of the state keeps its types.
LEMMA SettingsTypesStep == ASSUME SettingsTypes, [SettingsNext]_settingsVars PROVE SettingsTypes'
BY NoticesStep, UpdatingStep, InstancesStep DEF SettingsTypes

\* An instance moves on its own: the changes it is told of stay what they were.
LEMMA InstanceFollows ==
  ASSUME SettingsInv, SettingsTypes', NEW i \in Instances,
         Boot(i) \/ Subscribe(i) \/ HearNotice(i) \/ ReadSettings(i) \/ RebuildWorker(i)
           \/ ReadFails(i) \/ CloseFails(i)
  PROVE  FollowInv'
<1>0. Loaded \in Values /\ None \notin Values /\ (saved # None => Loaded = saved)
  BY SettingsAssumption DEF SettingsInv, SettingsTypes, Loaded, None
<1>1. CASE Boot(i) \/ ReadSettings(i)
  <2>1. saved' = Loaded /\ notices' = notices /\ updating' = updating /\ missed' = missed \ {i}
    BY <1>1 DEF Boot, ReadSettings
  <2>2. \A j \in Instances \ {i} : inst'[j] = inst[j]
    BY <1>1 DEF Boot, ReadSettings, SettingsInv, SettingsTypes
  <2>3. \/ inst[i].pc = "down" /\ inst'[i].pc = "subscribe" /\ inst'[i].worker = Loaded
        \/ inst[i].pc = "load" /\ inst'[i].pc = "close" /\ inst'[i].read = Loaded
    BY <1>1 DEF Boot, ReadSettings, InstAt, SettingsInv, SettingsTypes
  <2>4. \A j \in Instances \ {i} : inst[j].pc # "down" => saved' = saved
    BY <2>1, <1>0 DEF SettingsInv, FollowInv, Created
  <2>5. Created' /\ Deaf'
    BY <2>1, <2>2, <2>3, <1>0 DEF SettingsInv, FollowInv, Created, Deaf
  <2>6. \A j \in Instances : WillHear(j)' <=> WillHear(j)
    BY <2>1 DEF WillHear
  <2>7. Follows'
    BY <2>1, <2>2, <2>3, <2>4, <2>6 DEF SettingsInv, FollowInv, Follows
  <2> QED BY <2>5, <2>7 DEF FollowInv
<1>2. CASE Subscribe(i) \/ RebuildWorker(i)
  <2>1. saved' = saved /\ notices' = notices /\ updating' = updating /\ missed' = missed
    BY <1>2 DEF Subscribe, RebuildWorker
  <2>2. \A j \in Instances \ {i} : inst'[j] = inst[j]
    BY <1>2 DEF Subscribe, RebuildWorker, SettingsInv, SettingsTypes
  <2>3. /\ inst'[i].pc = "up"
        /\ \/ inst[i].pc = "subscribe" /\ inst'[i].worker = inst[i].worker
           \/ inst[i].pc = "close" /\ inst'[i].worker = inst[i].read
    BY <1>2 DEF Subscribe, RebuildWorker, InstAt, SettingsInv, SettingsTypes, InstanceStates
  <2>5. Created' /\ Deaf'
    BY <2>1, <2>2, <2>3 DEF SettingsInv, FollowInv, Created, Deaf
  <2>6. \A j \in Instances : WillHear(j)' <=> WillHear(j)
    BY <2>1 DEF WillHear
  <2>7. Follows'
    BY <2>1, <2>2, <2>3, <2>6 DEF SettingsInv, FollowInv, Follows
  <2> QED BY <2>5, <2>7 DEF FollowInv
<1>3. CASE ReadFails(i) \/ CloseFails(i)
  <2>1. saved' = saved /\ notices' = notices /\ updating' = updating /\ missed' = missed \cup {i}
    BY <1>3 DEF ReadFails, CloseFails
  <2>2. \A j \in Instances \ {i} : inst'[j] = inst[j]
    BY <1>3 DEF ReadFails, CloseFails, SettingsInv, SettingsTypes
  <2>3. inst[i].pc \in {"load", "close"} /\ inst'[i].pc \in {"up", "close"}
    <3>1. CASE ReadFails(i)
      BY <3>1 DEF ReadFails, InstAt, SettingsInv, SettingsTypes, InstanceStates
    <3>2. CASE CloseFails(i)
      BY <3>2 DEF CloseFails, InstAt, SettingsInv, SettingsTypes, InstanceStates
    <3> QED BY <1>3, <3>1, <3>2
  <2>5. Created' /\ Deaf'
    BY <2>1, <2>2, <2>3 DEF SettingsInv, FollowInv, Created, Deaf
  <2>6. \A j \in Instances : WillHear(j)' <=> WillHear(j)
    BY <2>1 DEF WillHear
  <2>7. Follows'
    BY <2>1, <2>2, <2>6 DEF SettingsInv, FollowInv, Follows
  <2> QED BY <2>5, <2>7 DEF FollowInv
<1>4. CASE HearNotice(i)
  <2>1. saved' = saved /\ updating' = updating /\ notices[i] > 0 /\ missed \subseteq missed'
    BY <1>4 DEF HearNotice
  <2>2. \A j \in Instances \ {i} : inst'[j] = inst[j] /\ notices'[j] = notices[j]
    BY <1>4 DEF HearNotice, SettingsInv, SettingsTypes
  <2>3. inst[i].pc \in {"up", "load", "close"}
    BY <2>1 DEF SettingsInv, SettingsTypes, FollowInv, Deaf, InstanceStates
  <2>4. \/ inst'[i].pc = "load"
        \/ inst'[i].pc = "close" /\ i \in missed'
    BY <1>4, <2>3 DEF HearNotice, InstAt, SettingsInv, SettingsTypes, InstanceStates
  <2>5. Created' /\ Deaf'
    BY <2>1, <2>2, <2>3, <2>4 DEF SettingsInv, FollowInv, Created, Deaf
  <2>6. \A j \in Instances \ {i} : WillHear(j)' <=> WillHear(j)
    BY <2>1, <2>2 DEF WillHear
  <2>7. Follows'
    BY <2>1, <2>2, <2>4, <2>6 DEF SettingsInv, FollowInv, Follows
  <2> QED BY <2>5, <2>7 DEF FollowInv
<1> QED BY <1>1, <1>2, <1>3, <1>4

\* A change that is stored is announced, to the instances that listen.
LEMMA ChangeFollows ==
  ASSUME SettingsInv, SettingsTypes', NEW a \in Admins,
         WriteSettings(a) \/ PublishChange(a) \/ PublishFails(a)
           \/ \E i \in Instances, v \in Values : BeginUpdate(a, i, v)
  PROVE  FollowInv'
<1>0. None \notin Values
  BY SettingsAssumption DEF None
<1>1. CASE WriteSettings(a)
  <2>1. updating[a] \in Change /\ updating'[a].pc = "publish"
    BY <1>1, ChangeMoves DEF WriteSettings, AdminAt, SettingsInv, SettingsTypes
  <2>2. saved' \in Values /\ notices' = notices /\ missed' = missed
    BY <1>1, <2>1 DEF WriteSettings, Change
  <2>3. \A j \in Instances : inst'[j].pc = inst[j].pc
    BY <1>1 DEF WriteSettings, SettingsInv, SettingsTypes, InstanceStates
  <2>4. \A j \in Instances : WillHear(j)'
    BY <2>1 DEF WillHear
  <2> QED BY <1>0, <2>2, <2>3, <2>4 DEF SettingsInv, FollowInv, Created, Deaf, Follows
<1>2. CASE PublishChange(a) \/ PublishFails(a)
  <2>1. saved' = saved /\ inst' = inst
    BY <1>2 DEF PublishChange, PublishFails
  <2>2. \A j \in Instances : inst[j].pc \in {"up", "close"} => notices'[j] > 0 \/ j \in missed'
    BY <1>2 DEF PublishChange, PublishFails, Subscribed, SettingsInv, SettingsTypes
  <2>3. \A j \in Instances : inst[j].pc = "subscribe" => j \in missed'
    BY <1>2 DEF PublishChange, PublishFails, Unheard, InstAt
  <2>4. \A j \in Instances : inst[j].pc \in {"down", "subscribe"} => notices'[j] = notices[j]
    BY <1>2 DEF PublishChange, PublishFails, Subscribed, SettingsInv, SettingsTypes
  <2> QED BY <2>1, <2>2, <2>3, <2>4 DEF SettingsInv, FollowInv, Created, Deaf, Follows, WillHear
<1>3. ASSUME NEW i \in Instances, NEW v \in Values, BeginUpdate(a, i, v) PROVE FollowInv'
  <2>1. inst' = inst /\ notices' = notices /\ missed' = missed /\ inst[i].pc # "down"
    BY <1>3 DEF BeginUpdate
  <2>2. saved' = saved
    BY <1>3, <2>1 DEF BeginUpdate, Loaded, SettingsInv, FollowInv, Created
  <2>3. \A b \in Admins : updating[b].pc = "publish" => updating'[b].pc = "publish"
    BY <1>3 DEF BeginUpdate, AdminAt, SettingsInv, SettingsTypes
  <2>4. \A j \in Instances : WillHear(j) => WillHear(j)'
    BY <2>1, <2>3 DEF WillHear
  <2> QED BY <2>1, <2>2, <2>4 DEF SettingsInv, FollowInv, Created, Deaf, Follows
<1> QED BY <1>1, <1>2, <1>3

\* With an instance die the requests it served, their announcements unsent.
LEMMA DeathFollows == ASSUME SettingsInv, SettingsTypes', NEW i \in Instances, Dies(i) PROVE FollowInv'
<1> DEFINE on == {a \in Admins : ~AdminAt(a, "idle") /\ updating[a].on = i}
<1>1. saved' = saved /\ inst'[i].pc = "down" /\ notices'[i] = 0
        /\ \A j \in Instances \ {i} : inst'[j] = inst[j] /\ notices'[j] = notices[j]
  BY DEF Dies, Down, SettingsInv, SettingsTypes
<1>2. \A a \in Admins \ on : updating'[a] = updating[a]
  BY DEF Dies
<1>3. \A j \in missed : j # i => j \in missed'
  BY DEF Dies
<1>4. CASE \E a \in on : updating[a].pc = "publish"
  <2>1. \A j \in Instances \ {i} : inst[j].pc \in {"up", "close", "subscribe"} => j \in missed'
    BY <1>4 DEF Dies, AdminAt, Subscribed, Unheard, InstAt
  <2> HIDE DEF on
  <2> QED BY <1>1, <2>1 DEF SettingsInv, FollowInv, Created, Deaf, Follows
<1>5. CASE ~\E a \in on : updating[a].pc = "publish"
  <2>1. \A j \in Instances \ {i} : WillHear(j) => WillHear(j)'
    BY <1>1, <1>2, <1>5 DEF WillHear
  <2> HIDE DEF on
  <2> QED BY <1>1, <1>3, <2>1 DEF SettingsInv, FollowInv, Created, Deaf, Follows
<1> QED BY <1>4, <1>5

\* Every step of the settings keeps the invariant.
LEMMA SettingsStepKeeps == ASSUME SettingsInv, [SettingsNext]_settingsVars PROVE SettingsInv'
<1>1. SettingsTypes'
  BY SettingsTypesStep DEF SettingsInv
<1>2. CASE UNCHANGED settingsVars
  BY <1>2 DEF settingsVars, SettingsInv, SettingsTypes, FollowInv, Created, Deaf, Follows, WillHear
<1> QED BY <1>1, <1>2, InstanceFollows, ChangeFollows, DeathFollows DEF SettingsInv, SettingsNext,
  SettingsStep

-----------------------------------------------------------------------------
(* The sender's domain.                                                     *)
Question == [pc : {"lookup", "existing", "write", "allowed"}, send : BOOLEAN,
             got : {"none", "pass", "fail", "error"}]
NoQuestion == [pc |-> "idle"]

DomainTypes ==
    /\ hour \in Nat /\ wrongAt \in Nat /\ records \in BOOLEAN /\ dns \in BOOLEAN
    /\ domain \in [status : {"none", "verified", "unverified"}, at : Nat]
    /\ asking \in [Callers -> Question \cup {NoQuestion}]

\* A verdict that releases the domain, stored or about to be, is not younger than the records'
\* last change for the worse.
Grounded ==
    /\ wrongAt <= hour /\ domain.at <= hour
    /\ Verified /\ ~records => domain.at <= wrongAt
    /\ \A c \in Callers : asking[c].pc = "write" /\ asking[c].got = "pass" /\ ~records => wrongAt = hour

\* An outage is about to be written over a release only where one overtook the other.
Overtaken ==
    \A c \in Callers :
        /\ asking[c].pc = "existing" => asking[c].got = "error"
        /\ asking[c].pc = "write" /\ asking[c].got = "error" /\ Verified => c \in raced

DomainInv == DomainTypes /\ Grounded /\ Overtaken

DomainsNext ==
    \/ \E c \in Callers : VerifyDomain(c) \/ AssertSendable(c) \/ AskStep(c) \/ CallBreaks(c)
    \/ EditRecords \/ DnsTurns \/ HourPasses

ReleaseRule ==
    \A c \in Callers :
        /\ ~AskingAt(c, "allowed") /\ AskingAt(c, "allowed")' /\ asking'[c].got # "error"
              => records \/ hour - wrongAt <= Reverify
        /\ AskingAt(c, "write") /\ ~AskingAt(c, "write")' /\ asking[c].got = "error" /\ Verified
             /\ ~Verified'
              => c \in raced

\* A caller that moves, and what its next question is.
Turns(c, q) == asking' = [asking EXCEPT ![c] = q] /\ q \in Question \cup {NoQuestion}

\* A caller asks its next question.
LEMMA Questions == ASSUME NEW w \in {"lookup", "existing", "write", "allowed"}, NEW send \in BOOLEAN,
                      NEW got \in {"none", "pass", "fail", "error"},
                          NEW c, Asks(c, w, send, got)
                   PROVE  \E q \in Question : Turns(c, q) /\ q.pc = w /\ q.got = got
<1> DEFINE q == [pc |-> w, send |-> send, got |-> got]
<1>1. q \in Question /\ q.pc = w /\ q.got = got
  BY DEF Question
<1>2. asking' = [asking EXCEPT ![c] = q]
  BY DEF Asks
<1> HIDE DEF q
<1> QED BY <1>1, <1>2 DEF Turns

\* Or it has done.
LEMMA Silence == ASSUME NEW c, Idle(c) PROVE Turns(c, NoQuestion) /\ NoQuestion.pc = "idle"
BY DEF Turns, Idle, NoQuestion

\* A caller that is not idle has a question.
LEMMA Asked == ASSUME DomainTypes, NEW c \in Callers, asking[c].pc # "idle" PROVE asking[c] \in Question
BY DEF DomainTypes, NoQuestion

\* Only the caller that moves changes.
LEMMA Turned ==
  ASSUME DomainTypes, NEW c \in Callers, NEW q, Turns(c, q)
  PROVE  /\ asking' \in [Callers -> Question \cup {NoQuestion}]
         /\ asking'[c] = q
         /\ \A d \in Callers \ {c} : asking'[d] = asking[d]
BY DEF DomainTypes, Turns

\* Steps that write no verdict: what releases is fresh and good, what writes has looked.
LEMMA AskStepKeeps ==
  ASSUME DomainInv, NEW c \in Callers, VerifyDomain(c) \/ AssertSendable(c) \/ EvaluateDomain(c)
           \/ CallEnds(c) \/ CallBreaks(c)
  PROVE  DomainInv' /\ ReleaseRule
<1>1. UNCHANGED <<World, domain, raced>>
  BY DEF VerifyDomain, AssertSendable, EvaluateDomain, CallEnds, CallBreaks
<1>2. \E q \in Question \cup {NoQuestion} :
         /\ Turns(c, q)
         /\ q.pc = "allowed" => asking[c].pc # "write" /\ Verified /\ ~Stale
         /\ q.pc = "existing" => q.got = "error"
         /\ q.pc = "write" => q.got # "error" /\ (q.got = "pass" => records)
  <2>1. CASE VerifyDomain(c)
    BY <2>1, Questions DEF VerifyDomain
  <2>2. CASE AssertSendable(c)
    <3>1. asking[c].pc = "idle" /\ Asks(c, IF Verified /\ ~Stale THEN "allowed" ELSE "lookup", TRUE,
            "none")
      BY <2>2 DEF AssertSendable, AskingAt
    <3> DEFINE q == [pc |-> (IF Verified /\ ~Stale THEN "allowed" ELSE "lookup"), send |-> TRUE,
      got |-> "none"]
    <3>2. asking' = [asking EXCEPT ![c] = q]
      BY <3>1 DEF Asks
    <3>3. q \in Question /\ q.pc = (IF Verified /\ ~Stale THEN "allowed" ELSE "lookup") /\ q.got = "none"
      BY DEF Question
    <3> HIDE DEF q
    <3> QED BY <3>1, <3>2, <3>3 DEF Turns
  <2>3. CASE EvaluateDomain(c)
    <3>1. asking[c].send \in BOOLEAN
      BY <2>3, Asked DEF EvaluateDomain, AskingAt, DomainInv, Question
    <3>2. PICK got \in Verdicts : Asks(c, IF got = "error" THEN "existing" ELSE "write",
            asking[c].send, got)
      BY <2>3 DEF EvaluateDomain
    <3>3. got \in {"pass", "fail", "error"} /\ (got = "pass" => records)
      BY <3>2 DEF Verdicts
    <3>4. PICK q \in Question : Turns(c, q)
            /\ q.pc = (IF got = "error" THEN "existing" ELSE "write") /\ q.got = got
      BY <3>1, <3>2, <3>3, Questions
    <3> QED BY <3>3, <3>4
  <2>4. CASE CallEnds(c) \/ CallBreaks(c)
    BY <2>4, Silence DEF CallEnds, CallBreaks
  <2> QED BY <2>1, <2>2, <2>3, <2>4
<1>3. PICK q \in Question \cup {NoQuestion} :
         /\ Turns(c, q)
         /\ q.pc = "allowed" => asking[c].pc # "write" /\ Verified /\ ~Stale
         /\ q.pc = "existing" => q.got = "error"
         /\ q.pc = "write" => q.got # "error" /\ (q.got = "pass" => records)
  BY <1>2
<1>4. /\ asking' \in [Callers -> Question \cup {NoQuestion}] /\ asking'[c] = q
      /\ \A d \in Callers \ {c} : asking'[d] = asking[d]
  BY <1>3, Turned DEF DomainInv
<1>5. DomainTypes'
  BY <1>1, <1>4 DEF DomainInv, DomainTypes, World
<1>6. Grounded' /\ Overtaken'
  BY <1>1, <1>3, <1>4 DEF DomainInv, Grounded, Overtaken, World, Verified
<1>7. Verified /\ ~Stale => records \/ hour - wrongAt <= Reverify
  BY DomainAssumption DEF DomainInv, DomainTypes, Grounded, Stale, Verified
<1>8. ReleaseRule
  BY <1>1, <1>3, <1>4, <1>7 DEF ReleaseRule, AskingAt, Verified
<1> QED BY <1>5, <1>6, <1>8 DEF DomainInv

\* An outage keeps a release, or is about to write where there is none.
LEMMA KeepStep == ASSUME DomainInv, NEW c \in Callers, KeepExisting(c) PROVE DomainInv' /\ ReleaseRule
<1>1. UNCHANGED <<World, domain>> /\ raced' = raced \ {c}
  BY DEF KeepExisting
<1>2. asking[c].pc = "existing" /\ asking[c].send \in BOOLEAN /\ asking[c].got = "error"
  BY Asked DEF KeepExisting, AskingAt, DomainInv, Overtaken, Question
<1>3. PICK q \in Question \cup {NoQuestion} :
         /\ Turns(c, q)
         /\ q.pc \in {"idle", "allowed", "write"}
         /\ q.pc = "allowed" => q.got = "error"
         /\ q.pc = "write" => q.got = "error" /\ ~Verified
  <2>1. CASE Verified /\ asking[c].send
    <3>1. Asks(c, "allowed", TRUE, asking[c].got)
      BY <2>1 DEF KeepExisting, Answered
    <3> DEFINE q == [pc |-> "allowed", send |-> TRUE, got |-> asking[c].got]
    <3>2. asking' = [asking EXCEPT ![c] = q]
      BY <3>1 DEF Asks
    <3>3. q \in Question /\ q.pc = "allowed" /\ q.got = asking[c].got
      BY <1>2 DEF Question
    <3> HIDE DEF q
    <3> QED BY <1>2, <3>2, <3>3 DEF Turns
  <2>2. CASE Verified /\ ~asking[c].send
    BY <2>2, <1>2, Silence DEF KeepExisting, Answered
  <2>3. CASE ~Verified
    <3>1. Asks(c, "write", asking[c].send, "error")
      BY <2>3 DEF KeepExisting
    <3>2. PICK q \in Question : Turns(c, q) /\ q.pc = "write" /\ q.got = "error"
      BY <3>1, <1>2, Questions
    <3> QED BY <3>2, <2>3
  <2> QED BY <2>1, <2>2, <2>3, <1>2
<1>4. /\ asking' \in [Callers -> Question \cup {NoQuestion}] /\ asking'[c] = q
      /\ \A d \in Callers \ {c} : asking'[d] = asking[d]
  BY <1>3, Turned DEF DomainInv
<1>5. DomainTypes'
  BY <1>1, <1>4 DEF DomainInv, DomainTypes, World
<1>6. Grounded' /\ Overtaken'
  BY <1>1, <1>3, <1>4 DEF DomainInv, Grounded, Overtaken, World, Verified
<1>8. ReleaseRule
  BY <1>1, <1>2, <1>3, <1>4 DEF ReleaseRule, AskingAt, Verified
<1> QED BY <1>5, <1>6, <1>8 DEF DomainInv

\* A verdict is written: what it releases was right a moment ago, and it overtakes the others.
LEMMA WriteStep == ASSUME DomainInv, NEW c \in Callers, WriteVerdict(c) PROVE DomainInv' /\ ReleaseRule
<1> DEFINE verified == asking[c].got = "pass"
<1>1. UNCHANGED World /\ raced \subseteq raced'
  BY DEF WriteVerdict
<1>2. asking[c].pc = "write" /\ asking[c].send \in BOOLEAN
        /\ asking[c].got \in {"none", "pass", "fail", "error"}
  BY Asked DEF WriteVerdict, AskingAt, DomainInv, Question
<1>3. PICK q \in Question \cup {NoQuestion} :
         /\ Turns(c, q)
         /\ q.pc \in {"idle", "allowed"}
         /\ q.pc = "allowed" => verified
  <2>1. CASE verified /\ asking[c].send
    <3>1. Asks(c, "allowed", TRUE, asking[c].got)
      BY <2>1 DEF WriteVerdict, Answered
    <3> DEFINE q == [pc |-> "allowed", send |-> TRUE, got |-> asking[c].got]
    <3>2. asking' = [asking EXCEPT ![c] = q]
      BY <3>1 DEF Asks
    <3>3. q \in Question /\ q.pc = "allowed" /\ q.got = asking[c].got
      BY <1>2 DEF Question
    <3> HIDE DEF q
    <3> QED BY <2>1, <3>2, <3>3 DEF Turns
  <2>2. CASE ~(verified /\ asking[c].send)
    BY <2>2, <1>2, Silence DEF WriteVerdict, Answered
  <2> QED BY <2>1, <2>2
<1>4. /\ asking' \in [Callers -> Question \cup {NoQuestion}] /\ asking'[c] = q
      /\ \A d \in Callers \ {c} : asking'[d] = asking[d]
  BY <1>3, Turned DEF DomainInv
<1>5. domain'.at = hour /\ (Verified' <=> verified)
        /\ domain' \in [status : {"none", "verified", "unverified"}, at : Nat]
  BY DEF WriteVerdict, Verified, DomainInv, DomainTypes
<1>6. verified => \A d \in Callers \ {c} : asking[d].pc = "write" => d \in raced'
  BY DEF WriteVerdict, AskingAt
<1>7. DomainTypes'
  BY <1>1, <1>4, <1>5 DEF DomainInv, DomainTypes, World
<1>8. verified /\ ~records => wrongAt = hour
  BY <1>2 DEF DomainInv, Grounded
<1>9. hour \in Nat /\ wrongAt \in Nat /\ Reverify \in Nat /\ wrongAt <= hour
  BY DomainAssumption DEF DomainInv, DomainTypes, Grounded
<1> HIDE DEF verified
<1>10. Grounded'
  BY <1>1, <1>3, <1>4, <1>5, <1>8, <1>9 DEF DomainInv, Grounded, World
<1>11. Overtaken'
  BY <1>1, <1>3, <1>4, <1>5, <1>6 DEF DomainInv, Overtaken
<1>12. ReleaseRule
  <2>1. verified => records \/ hour - wrongAt <= Reverify
    BY <1>8, <1>9
  <2>2. asking[c].got = "error" /\ Verified => c \in raced
    BY <1>2 DEF DomainInv, Overtaken
  <2> QED BY <1>2, <1>3, <1>4, <2>1, <2>2 DEF ReleaseRule, AskingAt
<1> QED BY <1>7, <1>10, <1>11, <1>12 DEF DomainInv

\* The client and the clock: records that turn wrong turn wrong now.
LEMMA WorldStep == ASSUME DomainInv, EditRecords \/ DnsTurns \/ HourPasses \/ UNCHANGED domainVars
              PROVE DomainInv' /\ ReleaseRule
<1>1. UNCHANGED <<domain, asking, raced>>
  BY DEF EditRecords, DnsTurns, HourPasses, domainVars
<1>2. DomainTypes' /\ hour <= hour'
  <2>1. CASE EditRecords \/ DnsTurns \/ UNCHANGED domainVars
    <3>1. records' \in BOOLEAN /\ dns' \in BOOLEAN
      BY <2>1, Zenon DEF EditRecords, DnsTurns, domainVars, DomainInv, DomainTypes
    <3>2. hour' = hour /\ wrongAt' \in Nat
      BY <2>1 DEF EditRecords, DnsTurns, domainVars, DomainInv, DomainTypes
    <3> QED BY <1>1, <3>1, <3>2 DEF DomainInv, DomainTypes
  <2>2. CASE HourPasses
    BY <2>2 DEF HourPasses, DomainInv, DomainTypes
  <2> QED BY <2>1, <2>2
<1>3. Grounded'
  <2>1. CASE EditRecords
    BY <2>1, <1>2 DEF EditRecords, DomainInv, DomainTypes, Grounded, Verified
  <2>2. CASE DnsTurns \/ UNCHANGED domainVars
    BY <2>2 DEF DnsTurns, domainVars, DomainInv, Grounded, Verified
  <2>3. CASE HourPasses
    BY <2>3, <1>2 DEF HourPasses, AskingAt, DomainInv, DomainTypes, Grounded, Verified
  <2> QED BY <2>1, <2>2, <2>3
<1>4. Overtaken'
  BY <1>1 DEF DomainInv, Overtaken, Verified
<1>5. ReleaseRule
  BY <1>1 DEF ReleaseRule, AskingAt
<1> QED BY <1>2, <1>3, <1>4, <1>5 DEF DomainInv

\* Every step of the domain keeps the invariant and obeys the rule.
LEMMA DomainStep == ASSUME DomainInv, [DomainsNext]_domainVars PROVE DomainInv' /\ ReleaseRule
BY AskStepKeeps, KeepStep, WriteStep, WorldStep DEF DomainsNext, AskStep

-----------------------------------------------------------------------------
(* A step of the whole is a step of each part, or leaves it alone.          *)
LEMMA PartsMove == ASSUME [Next]_vars
                   PROVE  [ServersNext]_serverVars /\ [SettingsNext]_settingsVars
                     /\ [DomainsNext]_domainVars
<1> USE SetupAssumption
<1>1. CASE Panel
  BY <1>1 DEF Panel, ServersMove, DomainsMove, SettingsMove, ServersNext, SettingsNext, DomainsNext
<1>2. CASE Outside
  BY <1>2 DEF Outside, ServersMove, DomainsMove, ServersNext, DomainsNext
<1>3. CASE Faults
  BY <1>3 DEF Faults, ServersMove, DomainsMove, SettingsMove, ServersNext, SettingsNext, DomainsNext
<1>4. CASE Continue
  BY <1>4 DEF Continue, ServersMove, DomainsMove, SettingsMove, SaveStep, ServersNext, SettingsNext,
    DomainsNext
<1>5. CASE UNCHANGED vars
  BY <1>5 DEF vars
<1> QED BY <1>1, <1>2, <1>3, <1>4, <1>5 DEF Next

\* The parts start as their invariants say.
LEMMA ServersStart == ASSUME Init PROVE ServerInv
<1>1. server \in [Servers -> ServerStates] /\ Defaults = {}
  BY DEF Init, ServersInit, ServerStates, Defaults
<1>2. saving = [r \in Requests |-> SavingIdle] /\ SavingIdle.pc = "idle"
  BY DEF Init, ServersInit, SavingIdle
<1>3. saving \in [Requests -> SavingMemory \cup {SavingIdle}]
        /\ \A r \in Requests : saving[r].pc = "idle"
  BY <1>2
<1>4. trace \in [had : BOOLEAN, overlap : BOOLEAN, unset : BOOLEAN, broke : BOOLEAN] /\ ~trace.had
  BY DEF Init, ServersInit
<1> QED BY <1>1, <1>3, <1>4 DEF ServerInv, ServerTypes, DefaultInv, Contested, Alone, Kept

\* No instance runs yet.
LEMMA SettingsStart == ASSUME Init PROVE SettingsInv
<1>1. Down \in InstanceStates /\ Down.pc = "down"
  BY DEF Down, InstanceStates
<1>2. inst \in [Instances -> InstanceStates] /\ \A i \in Instances : inst[i].pc = "down"
        /\ notices[i] = 0
  BY <1>1 DEF Init, SettingsInit
<1>3. notices \in [Instances -> Nat] /\ saved = None
  BY DEF Init, SettingsInit
<1>4. updating \in [Admins -> Change \cup {NoChange}]
  BY DEF Init, SettingsInit, NoChange
<1> QED BY <1>2, <1>3, <1>4 DEF SettingsInv, SettingsTypes, FollowInv, Created, Deaf, Follows

\* Nobody has asked yet.
LEMMA DomainsStart == ASSUME Init PROVE DomainInv
<1>1. asking = [c \in Callers |-> NoQuestion] /\ NoQuestion.pc = "idle"
  BY DEF Init, DomainsInit, NoQuestion
<1>2. asking \in [Callers -> Question \cup {NoQuestion}] /\ \A c \in Callers : asking[c].pc = "idle"
  BY <1>1
<1>3. domain \in [status : {"none", "verified", "unverified"}, at : Nat] /\ domain.at = 0
        /\ domain.status = "none"
  BY DEF Init, DomainsInit
<1>4. hour = 0 /\ wrongAt = 0 /\ records \in BOOLEAN /\ dns \in BOOLEAN
  BY DEF Init, DomainsInit
<1> QED BY <1>2, <1>3, <1>4 DEF DomainInv, DomainTypes, Grounded, Overtaken, Verified

\* Between saves a tenant has at most one default server, and keeps the one it has, however
\* many servers are saved in whatever order (smtp.service save and remove).
THEOREM DefaultKept == Spec => []OneDefault
<1>1. Init => ServerInv
  BY ServersStart
<1>2. ServerInv /\ [Next]_vars => ServerInv'
  BY PartsMove, ServerTypesStep, DefaultStep DEF ServerInv
<1>3. ServerInv => OneDefault
  BY DEF ServerInv, DefaultInv, Contested, Kept, OneDefault, SavingAt
<1> QED BY <1>1, <1>2, <1>3, PTL DEF Spec

\* However many instances hear of however many changes, one that is up and was reached by the
\* last of them runs with the settings that are saved (platformSettings.service update, the
\* reload of email.worker).
THEOREM SettingsFollowed == Spec => []WorkersFollowSettings
<1>1. Init => SettingsInv
  BY SettingsStart
<1>2. SettingsInv /\ [Next]_vars => SettingsInv'
  BY PartsMove, SettingsStepKeeps
<1>3. SettingsInv => WorkersFollowSettings
  <2>1. SUFFICES ASSUME SettingsInv, NEW i \in Instances \ missed, InstAt(i, "up"), notices[i] = 0,
          Announced
                 PROVE  inst[i].worker = saved
    BY DEF WorkersFollowSettings
  <2>2. ~WillHear(i)
    BY <2>1 DEF WillHear, Announced, AdminAt
  <2> QED BY <2>1, <2>2 DEF SettingsInv, FollowInv, Follows, InstAt
<1> QED BY <1>1, <1>2, <1>3, PTL DEF Spec

\* Whatever the age a verdict may reach and however many ask at once, a domain is released only
\* by records that were right within that age, and taken down only by records, or by a check
\* overtaken by the one that released it (sendingDomain.service evaluate, assertSendable).
THEOREM RecordsRelease == Spec => ReleasedByRecords
<1>1. Init => DomainInv
  BY DomainsStart
<1>2. DomainInv /\ [Next]_vars => DomainInv' /\ [ReleaseRule]_domainVars
  BY PartsMove, DomainStep
<1> QED BY <1>1, <1>2, PTL DEF Spec, ReleasedByRecords, ReleaseRule
=============================================================================
