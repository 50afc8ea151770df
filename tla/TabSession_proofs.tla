-------------------------- MODULE TabSession_proofs --------------------------
(***************************************************************************)
(* Proofs about TabSession for every set of tabs, every choice of session  *)
(* kinds and every bound: type correctness, that the registry of file      *)
(* connections never leaks one, that an ended connection's file side goes  *)
(* first, and that a remote tab that looks connected is.  The last part is *)
(* about the panes that hold the tabs.                                     *)
(***************************************************************************)
EXTENDS TabSession, TLAPS

USE MaxGenAssumption, KindsAssumption, QueueCapAssumption

(* The worker of a tab and a generation, and the tab's counter.             *)
LEMMA GenFacts ==
  ASSUME TypeOK, NEW t \in Tabs, NEW g \in Gens
  PROVE  /\ <<t, g>> \in Workers
         /\ g # NoGen
         /\ starts[t] \in Nat
BY DEF TypeOK, Gens, Workers, NoGen

LEMMA StartFacts ==
  ASSUME TypeOK, NEW t \in Tabs, starts[t] < MaxGen
  PROVE  /\ starts[t] + 1 \in Gens
         /\ <<t, starts[t] + 1>> \in Workers
<1>1. starts[t] \in Nat
  BY DEF TypeOK, Gens, NoGen
<1>2. starts[t] + 1 \in Gens
  BY <1>1 DEF Gens
<1>3. QED
  BY <1>2 DEF Workers

LEMMA StartKeepsTypes ==
  ASSUME TypeOK, NEW t \in Tabs, StartSession(t)
  PROVE  /\ starts' \in [Tabs -> Gens \cup {NoGen}]
         /\ handles' \in [Tabs -> Gens \cup {NoGen}]
         /\ sftpHandles' \in [Tabs -> Gens \cup {NoGen}]
         /\ shell' \in [Workers -> ShellPhase]
         /\ sftpW' \in [Workers -> SftpPhase]
<1>1. starts[t] + 1 \in Gens /\ <<t, starts[t] + 1>> \in Workers
  BY StartFacts DEF StartSession
<1>2. /\ starts' \in [Tabs -> Gens \cup {NoGen}]
      /\ handles' \in [Tabs -> Gens \cup {NoGen}]
      /\ sftpHandles' \in [Tabs -> Gens \cup {NoGen}]
  BY <1>1 DEF StartSession, TypeOK
<1>3. /\ shell' \in [Workers -> ShellPhase]
      /\ sftpW' \in [Workers -> SftpPhase]
  BY <1>1 DEF StartSession, TypeOK, ShellPhase, SftpPhase
<1>4. QED
  BY <1>2, <1>3

LEMMA PostKeepsTypes ==
  ASSUME TypeOK, NEW t \in Tabs, NEW g \in Gens,
         NEW e \in ShellEvent, Post(t, g, e)
  PROVE  uiQ' \in [Tabs -> Seq(UiTask)]
<1>1. [evt |-> e, gen |-> g] \in UiTask
  BY DEF UiTask
<1>2. Append(uiQ[t], [evt |-> e, gen |-> g]) \in Seq(UiTask)
  BY <1>1 DEF TypeOK
<1>3. QED
  BY <1>2 DEF TypeOK, Post

LEMMA RegisteredFacts ==
  ASSUME TypeOK, NEW t \in Tabs
  PROVE  Registered(t) \subseteq Workers
BY DEF Registered

-----------------------------------------------------------------------------
(* Every variable keeps its type: no queue is popped empty, no worker or   *)
(* generation outside the bounds is named.                                 *)
THEOREM TypeCorrect == Spec => []TypeOK
<1>1. Init => TypeOK
  <2> SUFFICES ASSUME Init PROVE TypeOK
    OBVIOUS
  <2>1. kind \in [Tabs -> SessionKind]
    BY DEF Init
  <2>3. /\ shell \in [Workers -> ShellPhase]
        /\ sftpW \in [Workers -> SftpPhase]
    BY DEF Init, ShellPhase, SftpPhase
  <2>4. /\ shellQ \in [Workers -> Seq(ShellEvent)]
        /\ uiQ \in [Tabs -> Seq(UiTask)]
    BY DEF Init
  <2>5. QED
    BY <2>1, <2>3, <2>4 DEF Init, TypeOK
<1>2. TypeOK /\ [Next]_vars => TypeOK'
  <2> SUFFICES ASSUME TypeOK, [Next]_vars PROVE TypeOK'
    OBVIOUS
  <2>1. ASSUME NEW t \in Tabs, OpenTab(t) PROVE TypeOK'
    BY <2>1, StartKeepsTypes DEF OpenTab, TypeOK
  <2>2. ASSUME NEW t \in Tabs, Reconnect(t) PROVE TypeOK'
    BY <2>2, StartKeepsTypes, RegisteredFacts DEF Reconnect, TypeOK
  <2>3. ASSUME NEW t \in Tabs, CloseTab(t) PROVE TypeOK'
    BY <2>3, RegisteredFacts DEF CloseTab, ClosesFileSide, TypeOK
  <2>4. ASSUME NEW t \in Tabs, ApplyEvent(t) PROVE TypeOK'
    <3>1. uiQ' \in [Tabs -> Seq(UiTask)]
      BY <2>4 DEF ApplyEvent, TypeOK
    <3>2. Head(uiQ[t]) \in UiTask
      BY <2>4 DEF ApplyEvent, TypeOK
    <3>3. status' \in [Tabs -> {"none", "connecting", "connected", "disconnected"}]
      BY <2>4 DEF ApplyEvent, ApplyConnected, ApplyClosed, TypeOK
    <3>4. QED
      BY <2>4, <3>1, <3>3 DEF ApplyEvent, TypeOK, fileVars, shellVars
  <2>5. ASSUME NEW t \in Tabs, NEW g \in Gens, ShellStep(t, g) PROVE TypeOK'
    <3> DEFINE w == <<t, g>>
    <3>1. w \in Workers
      BY GenFacts
    <3>2. CASE \/ ConnectFails(t, g) \/ Connects(t, g) \/ SetupFails(t, g)
               \/ AnnouncesChild(t, g)
               \/ SamplesResources(t, g) \/ WriteFails(t, g)
               \/ ReaderEnds(t, g) \/ Finishes(t, g)
      <4>1. \E e \in ShellEvent : shellQ' = [shellQ EXCEPT ![w] = Append(@, e)]
        BY <3>2 DEF ConnectFails, Connects, SetupFails, AnnouncesChild, SamplesResources,
                    WriteFails, ReaderEnds, Finishes, Emit, ShellEvent
      <4>2. shellQ' \in [Workers -> Seq(ShellEvent)]
        BY <4>1, <3>1 DEF TypeOK
      <4>3. shell' \in [Workers -> ShellPhase] /\ readers' \in SUBSET Workers
        BY <3>1, <3>2 DEF ConnectFails, Connects, SetupFails, AnnouncesChild, SamplesResources,
                    WriteFails, ReaderEnds, Finishes, Goto, TypeOK, ShellPhase
      <4>4. UNCHANGED <<uiVars, fileVars, uiQ>>
        BY <3>2 DEF ConnectFails, Connects, SetupFails, AnnouncesChild, SamplesResources,
                    WriteFails, ReaderEnds, Finishes
      <4>5. QED
        BY <4>2, <4>3, <4>4 DEF TypeOK, uiVars, fileVars
    <3>3. CASE \/ SetsUp(t, g) \/ Awaits(t, g) \/ AwaitReturns(t, g)
               \/ SpawnsChild(t, g) \/ PeerCloses(t, g)
               \/ StopsOnCommand(t, g) \/ LocalLoopEnds(t, g)
      BY <3>1, <3>3 DEF SetsUp, Awaits, AwaitReturns, SpawnsChild, PeerCloses, StopsOnCommand, LocalLoopEnds,
                  Goto, TypeOK, ShellPhase, uiVars, fileVars
    <3>4. QED
      BY <2>5, <3>2, <3>3 DEF ShellStep
  <2>6. ASSUME NEW t \in Tabs, NEW g \in Gens, SftpStep(t, g) PROVE TypeOK'
    <3>1. <<t, g>> \in Workers
      BY GenFacts
    <3>2. sftpW' \in [Workers -> SftpPhase]
      BY <2>6, <3>1 DEF SftpStep, SftpConnects, SftpConnectFails, SftpStops,
                  SftpAborted, SftpGoto, TypeOK, SftpPhase
    <3>4. QED
      BY <2>6, <3>2 DEF SftpStep, SftpConnects, SftpConnectFails,
                  SftpStops, SftpAborted, TypeOK, uiVars, shellVars
  <2>7. ASSUME NEW t \in Tabs, NEW g \in Gens, ShellPump(t, g) PROVE TypeOK'
    <3> DEFINE e == Head(shellQ[<<t, g>>])
    <3>1. <<t, g>> \in Workers /\ Registered(t) \subseteq Workers
      BY GenFacts, RegisteredFacts
    <3>2. e \in ShellEvent /\ Tail(shellQ[<<t, g>>]) \in Seq(ShellEvent)
      BY <2>7, <3>1 DEF ShellPump, TypeOK
    <3>3. uiQ' \in [Tabs -> Seq(UiTask)]
      BY <2>7, <3>2, PostKeepsTypes DEF ShellPump
    <3>4. QED
      BY <2>7, <3>1, <3>2, <3>3 DEF ShellPump, ClosesFileSide, TypeOK, uiVars
  <2>9. CASE UNCHANGED vars
    BY <2>9 DEF vars, TypeOK
  <2>10. QED
    BY <2>1, <2>2, <2>3, <2>4, <2>5, <2>6, <2>7, <2>9
    DEF Next, UserStep, WorkerStep
<1>3. QED
  BY <1>1, <1>2, PTL DEF Spec

-----------------------------------------------------------------------------
(* The registry of file connections.                                       *)

(* A tab id that was not used has no tab, and a generation that was not    *)
(* started has no file worker: what OpenTab and StartSession rely on.      *)
Unused ==
  /\ \A t \in openTabs : status[t] # "none"
  /\ \A t \in Tabs, g \in Gens : g > starts[t] => sftpW[<<t, g>>] = "idle"

RegistryInv == Unused /\ ClosedTabReleased /\ RegistryIsNewest /\ NoOrphanSftp

LEMMA RegistryInit == Init => RegistryInv
BY DEF Init, RegistryInv, Unused, ClosedTabReleased, RegistryIsNewest,
       NoOrphanSftp, Gens, Workers, NoGen

(* Starting a tab whose registered file worker was told to close, or that  *)
(* has none, leaves the new worker as the only one not told.               *)
LEMMA StartKeepsRegistry ==
  ASSUME TypeOK, RegistryInv, NEW t \in Tabs, StartSession(t), t \in openTabs',
         openTabs \subseteq openTabs', openTabs' \subseteq openTabs \cup {t},
         sftpClosing \subseteq sftpClosing', Registered(t) \subseteq sftpClosing',
         status' = [status EXCEPT ![t] = "connecting"], UNCHANGED kind
  PROVE  RegistryInv'
<1> DEFINE g == starts[t] + 1
<1>1. g \in Gens /\ <<t, g>> \in Workers /\ g # NoGen
  BY StartFacts DEF StartSession, Gens, NoGen
<1>2. Unused'
  <2>1. \A u \in openTabs' : status'[u] # "none"
    BY DEF RegistryInv, Unused, TypeOK
  <2>2. ASSUME NEW u \in Tabs, NEW h \in Gens, h > starts'[u]
        PROVE  sftpW'[<<u, h>>] = "idle"
    <3>1. h > starts[u] /\ <<u, h>> # <<t, g>>
      <4>1. starts[u] \in Nat /\ starts[t] \in Nat /\ h \in Nat
        BY DEF TypeOK, Gens, NoGen
      <4>2. starts'[u] = IF u = t THEN starts[t] + 1 ELSE starts[u]
        BY DEF StartSession, TypeOK
      <4>3. QED
        BY <2>2, <4>1, <4>2
    <3>2. sftpW'[<<u, h>>] = sftpW[<<u, h>>]
      BY <3>1, <1>1 DEF StartSession, TypeOK, Workers
    <3>3. QED
      BY <3>1, <3>2 DEF RegistryInv, Unused
  <2>3. QED
    BY <2>1, <2>2 DEF Unused
<1>3. ClosedTabReleased'
  BY DEF RegistryInv, ClosedTabReleased, StartSession, TypeOK
<1>4. RegistryIsNewest'
  BY <1>1 DEF RegistryInv, RegistryIsNewest, StartSession, TypeOK
<1>5. NoOrphanSftp'
  <2> SUFFICES ASSUME NEW u \in Tabs, NEW h \in Gens,
                      sftpW'[<<u, h>>] \in {"connecting", "serving"},
                      <<u, h>> \notin sftpClosing'
               PROVE  sftpHandles'[u] = h
    BY DEF NoOrphanSftp
  <2>1. CASE <<u, h>> = <<t, g>>
    <3>1. kind[t] = "ssh"
      <4>1. g > starts[t]
        <5>1. starts[t] \in Nat
          BY DEF TypeOK, Gens, NoGen
        <5>2. QED
          BY <5>1
      <4>2. sftpW[<<t, g>>] = "idle"
        BY <4>1, <1>1 DEF RegistryInv, Unused
      <4>3. QED
        BY <2>1, <4>2 DEF StartSession
    <3>2. QED
      BY <2>1, <3>1 DEF StartSession, TypeOK
  <2>2. CASE <<u, h>> # <<t, g>>
    <3>1. /\ <<u, h>> \in Workers
          /\ sftpW[<<u, h>>] \in {"connecting", "serving"}
          /\ <<u, h>> \notin sftpClosing
      BY <2>2, <1>1 DEF StartSession, TypeOK, Workers
    <3>2. sftpHandles[u] = h
      BY <3>1 DEF RegistryInv, NoOrphanSftp
    <3>3. u # t
      BY <3>1, <3>2 DEF Registered
    <3>4. QED
      BY <3>2, <3>3 DEF StartSession, TypeOK
  <2>3. QED
    BY <2>1, <2>2
<1>6. QED
  BY <1>2, <1>3, <1>4, <1>5 DEF RegistryInv

(* Taking the registered file worker of a tab out of the map and telling   *)
(* it to close.                                                            *)
LEMMA ReleaseKeepsRegistry ==
  ASSUME TypeOK, RegistryInv, NEW t \in Tabs,
         sftpClosing' = sftpClosing \cup Registered(t),
         sftpHandles' = [sftpHandles EXCEPT ![t] = NoGen],
         \/ openTabs' = openTabs /\ handles' = handles
         \/ openTabs' = openTabs \ {t} /\ handles' = [handles EXCEPT ![t] = NoGen],
         UNCHANGED <<status, starts, sftpW, kind>>
  PROVE  RegistryInv'
<1>1. Unused'
  BY DEF RegistryInv, Unused
<1>2. ClosedTabReleased'
  BY DEF RegistryInv, ClosedTabReleased, TypeOK
<1>3. RegistryIsNewest'
  BY DEF RegistryInv, RegistryIsNewest, TypeOK
<1>4. NoOrphanSftp'
  <2> SUFFICES ASSUME NEW u \in Tabs, NEW h \in Gens,
                      sftpW[<<u, h>>] \in {"connecting", "serving"},
                      <<u, h>> \notin sftpClosing, <<u, h>> \notin Registered(t)
               PROVE  sftpHandles'[u] = h
    BY DEF NoOrphanSftp
  <2>1. sftpHandles[u] = h /\ <<u, h>> \in Workers
    BY DEF RegistryInv, NoOrphanSftp, Workers
  <2>2. u # t
    BY <2>1 DEF Registered
  <2>3. QED
    BY <2>1, <2>2 DEF TypeOK
<1>5. QED
  BY <1>1, <1>2, <1>3, <1>4 DEF RegistryInv

LEMMA RegistryAlways == Spec => []RegistryInv
<1>1. TypeOK /\ RegistryInv /\ [Next]_vars => RegistryInv'
  <2> SUFFICES ASSUME TypeOK, RegistryInv, [Next]_vars PROVE RegistryInv'
    OBVIOUS
  <2>1. ASSUME NEW t \in Tabs, OpenTab(t) PROVE RegistryInv'
    <3>1. t \notin openTabs
      BY <2>1 DEF OpenTab, RegistryInv, Unused
    <3>2. Registered(t) = {}
      BY <3>1 DEF RegistryInv, ClosedTabReleased, Registered, Workers, Gens, NoGen
    <3>3. QED
      BY <2>1, <3>2, StartKeepsRegistry DEF OpenTab
  <2>2. ASSUME NEW t \in Tabs, Reconnect(t) PROVE RegistryInv'
    BY <2>2, StartKeepsRegistry DEF Reconnect
  <2>3. ASSUME NEW t \in Tabs, CloseTab(t) PROVE RegistryInv'
    BY <2>3, ReleaseKeepsRegistry DEF CloseTab, ClosesFileSide
  <2>4. ASSUME NEW t \in Tabs, ApplyEvent(t) PROVE RegistryInv'
    <3>1. \A u \in Tabs : status'[u] = "none" => status[u] = "none"
      BY <2>4 DEF ApplyEvent, ApplyConnected, ApplyClosed, TypeOK
    <3>2. UNCHANGED <<openTabs, kind, starts, handles, sftpHandles, sftpW, sftpClosing>>
      BY <2>4 DEF ApplyEvent, fileVars
    <3>3. QED
      BY <3>1, <3>2 DEF RegistryInv, Unused, ClosedTabReleased, RegistryIsNewest,
                        NoOrphanSftp, TypeOK
  <2>5. ASSUME NEW t \in Tabs, NEW g \in Gens, ShellStep(t, g) PROVE RegistryInv'
    <3>1. UNCHANGED <<openTabs, kind, status, starts, handles, sftpHandles, sftpW,
                      sftpClosing>>
      BY <2>5 DEF ShellStep, ConnectFails, Connects,
           SetsUp, SetupFails, Awaits, AwaitReturns, SpawnsChild, AnnouncesChild,
                  SamplesResources, PeerCloses, WriteFails, ReaderEnds,
                  StopsOnCommand, LocalLoopEnds, Finishes, uiVars, fileVars
    <3>2. QED
      BY <3>1 DEF RegistryInv, Unused, ClosedTabReleased, RegistryIsNewest, NoOrphanSftp
  <2>6. ASSUME NEW t \in Tabs, NEW g \in Gens, SftpStep(t, g) PROVE RegistryInv'
    <3>1. UNCHANGED <<openTabs, kind, status, starts, handles, sftpHandles, sftpClosing>>
      BY <2>6 DEF SftpStep, SftpConnects, SftpConnectFails, SftpStops,
                  SftpAborted, uiVars
    <3>2. \A w \in Workers :
            /\ sftpW'[w] # sftpW[w] => sftpW[w] # "idle"
            /\ sftpW'[w] \in {"connecting", "serving"}
               => sftpW[w] \in {"connecting", "serving"}
      BY <2>6, GenFacts DEF SftpStep, SftpConnects, SftpConnectFails,
                  SftpStops, SftpAborted, SftpGoto, TypeOK
    <3>3. QED
      BY <3>1, <3>2 DEF RegistryInv, Unused, ClosedTabReleased, RegistryIsNewest,
                        NoOrphanSftp, Workers
  <2>7. ASSUME NEW t \in Tabs, NEW g \in Gens, ShellPump(t, g) PROVE RegistryInv'
    <3>1. UNCHANGED <<openTabs, kind, status, starts, handles, sftpW>>
      BY <2>7 DEF ShellPump, uiVars
    <3>2. CASE Head(shellQ[<<t, g>>]) = "Closed"
      BY <2>7, <3>1, <3>2, ReleaseKeepsRegistry DEF ShellPump, ClosesFileSide
    <3>3. CASE Head(shellQ[<<t, g>>]) # "Closed"
      <4>1. UNCHANGED <<sftpHandles, sftpClosing>>
        BY <2>7, <3>3 DEF ShellPump
      <4>2. QED
        BY <3>1, <4>1 DEF RegistryInv, Unused, ClosedTabReleased,
                          RegistryIsNewest, NoOrphanSftp
    <3>4. QED
      BY <3>2, <3>3
  <2>9. CASE UNCHANGED vars
    BY <2>9 DEF vars, RegistryInv, Unused, ClosedTabReleased, RegistryIsNewest,
                NoOrphanSftp
  <2>10. QED
    BY <2>1, <2>2, <2>3, <2>4, <2>5, <2>6, <2>7, <2>9
    DEF Next, UserStep, WorkerStep
<1>2. QED
  BY RegistryInit, <1>1, TypeCorrect, PTL DEF Spec

(* No file connection is leaked: one that lives and was not told to close  *)
(* can be reached through the registry, for any tabs, kinds and number of  *)
(* reconnects, and whatever order late events arrive in.                   *)
THEOREM SftpRegistry == Spec => []NoOrphanSftp
<1>1. RegistryInv => NoOrphanSftp
  BY DEF RegistryInv
<1>2. QED
  BY <1>1, RegistryAlways, PTL

(* A closed tab holds no handle, and only the newest generation of a tab   *)
(* is ever registered.                                                     *)
THEOREM HandlesStayCurrent == Spec => []HandlesAreCurrent
<1>1. RegistryInv => HandlesAreCurrent
  BY DEF RegistryInv, HandlesAreCurrent
<1>2. QED
  BY <1>1, RegistryAlways, PTL

-----------------------------------------------------------------------------
(* The order of the file side's end and the UI's news of the shell's end.  *)

(* A generation that was not started has said nothing and cannot speak.    *)
Silent ==
  \A t \in Tabs, g \in Gens :
    g > starts[t] =>
      /\ shell[<<t, g>>] = "idle"  /\ <<t, g>> \notin readers
      /\ shellQ[<<t, g>>] = <<>>
      /\ sftpW[<<t, g>>] = "idle"

NewsOfEnd(t) == [evt |-> "Closed", gen |-> starts[t]]

(* No posted task speaks for a later generation, and one that tells the    *)
(* end of the newest shell was posted after the map entry was taken out.   *)
PostedInv ==
  \A t \in Tabs : \A i \in DOMAIN uiQ[t] :
    /\ uiQ[t][i].gen <= starts[t]
    /\ uiQ[t][i] = NewsOfEnd(t) => sftpHandles[t] = NoGen

OrderInv == Silent /\ PostedInv

LEMMA OrderInit == Init => OrderInv
BY DEF Init, OrderInv, Silent, PostedInv, Workers

(* The numbers that are compared below.                                    *)
LEMMA GenNumbers ==
  ASSUME TypeOK, NEW t \in Tabs
  PROVE  /\ starts[t] \in Nat
         /\ \A g \in Gens : g \in Nat
         /\ \A i \in DOMAIN uiQ[t] : uiQ[t][i] \in UiTask /\ uiQ[t][i].gen \in Nat
<1>1. uiQ[t] \in Seq(UiTask)
  BY DEF TypeOK
<1>2. \A i \in DOMAIN uiQ[t] : uiQ[t][i] \in UiTask
  BY <1>1
<1>3. starts[t] \in Nat /\ \A g \in Gens : g \in Nat
  BY DEF TypeOK, Gens, NoGen
<1>4. QED
  BY <1>2, <1>3 DEF UiTask

LEMMA StartKeepsOrder ==
  ASSUME TypeOK, OrderInv, NEW t \in Tabs, StartSession(t),
         UNCHANGED <<readers, shellQ, uiQ>>
  PROVE  OrderInv'
<1> DEFINE n == starts[t] + 1
<1>1. n \in Gens /\ <<t, n>> \in Workers /\ starts[t] \in Nat
  BY StartFacts, GenNumbers DEF StartSession
<1>2. \A u \in Tabs : starts'[u] = IF u = t THEN n ELSE starts[u]
  BY DEF StartSession, TypeOK
<1>3. Silent'
  <2> SUFFICES ASSUME NEW u \in Tabs, NEW g \in Gens, g > starts'[u]
               PROVE  /\ shell'[<<u, g>>] = "idle"  /\ <<u, g>> \notin readers
                      /\ shellQ[<<u, g>>] = <<>>
                      /\ sftpW'[<<u, g>>] = "idle"
    BY DEF Silent
  <2>1. g > starts[u] /\ <<u, g>> # <<t, n>>
    BY <1>1, <1>2, GenNumbers
  <2>2. <<u, g>> \in Workers
    BY DEF Workers
  <2>3. shell'[<<u, g>>] = shell[<<u, g>>] /\ sftpW'[<<u, g>>] = sftpW[<<u, g>>]
    BY <1>1, <2>1, <2>2 DEF StartSession, TypeOK
  <2>4. QED
    BY <2>1, <2>3 DEF OrderInv, Silent
<1>4. PostedInv'
  <2> SUFFICES ASSUME NEW u \in Tabs, NEW i \in DOMAIN uiQ[u]
               PROVE  /\ uiQ[u][i].gen <= starts'[u]
                      /\ uiQ[u][i] = [evt |-> "Closed", gen |-> starts'[u]]
                         => sftpHandles'[u] = NoGen
    BY DEF PostedInv, NewsOfEnd
  <2>1. /\ uiQ[u][i].gen <= starts[u]
        /\ uiQ[u][i] = NewsOfEnd(u) => sftpHandles[u] = NoGen
    BY DEF OrderInv, PostedInv
  <2>2. CASE u = t
    <3>1. uiQ[u][i].gen \in Nat
      BY GenNumbers
    <3>2. uiQ[u][i].gen <= n /\ uiQ[u][i].gen # n
      BY <1>1, <2>1, <2>2, <3>1
    <3>3. QED
      BY <1>2, <2>2, <3>2
  <2>3. CASE u # t
    BY <1>2, <2>1, <2>3 DEF NewsOfEnd, StartSession, TypeOK
  <2>4. QED
    BY <2>2, <2>3
<1>5. QED
  BY <1>3, <1>4 DEF OrderInv

(* Posting an event of a started generation; the end of the newest shell   *)
(* only once the map entry is out.                                         *)
LEMMA PostKeepsPosted ==
  ASSUME TypeOK, OrderInv, NEW t \in Tabs, NEW g \in Gens, NEW e,
         Post(t, g, e), g <= starts[t], UNCHANGED starts,
         \A u \in Tabs : sftpHandles'[u] \in {sftpHandles[u], NoGen},
         e = "Closed" => sftpHandles'[t] = NoGen
  PROVE  PostedInv'
<1> SUFFICES ASSUME NEW u \in Tabs, NEW i \in DOMAIN uiQ'[u]
             PROVE  /\ uiQ'[u][i].gen <= starts[u]
                    /\ uiQ'[u][i] = [evt |-> "Closed", gen |-> starts[u]]
                       => sftpHandles'[u] = NoGen
  BY DEF PostedInv, NewsOfEnd
<1>1. ASSUME i \in DOMAIN uiQ[u], uiQ'[u][i] = uiQ[u][i]
      PROVE  /\ uiQ'[u][i].gen <= starts[u]
             /\ uiQ'[u][i] = [evt |-> "Closed", gen |-> starts[u]]
                => sftpHandles'[u] = NoGen
  BY <1>1 DEF OrderInv, PostedInv, NewsOfEnd
<1>2. CASE u = t
  <2> DEFINE task == [evt |-> e, gen |-> g]
  <2>1. uiQ[t] \in Seq(UiTask) /\ uiQ'[t] = Append(uiQ[t], task)
    BY DEF Post, TypeOK
  <2>2. \/ i \in DOMAIN uiQ[t] /\ uiQ'[t][i] = uiQ[t][i]
        \/ uiQ'[t][i] = task
    BY <1>2, <2>1
  <2>3. CASE uiQ'[t][i] = task
    <3>1. task.gen = g /\ task.evt = e
      OBVIOUS
    <3>2. task = [evt |-> "Closed", gen |-> starts[t]] => e = "Closed"
      OBVIOUS
    <3>3. QED
      BY <1>2, <2>3, <3>1, <3>2
  <2>4. QED
    BY <1>1, <1>2, <2>2, <2>3
<1>3. CASE u # t
  <2>1. uiQ'[u] = uiQ[u]
    BY <1>3 DEF Post, TypeOK
  <2>2. QED
    BY <1>1, <2>1
<1>4. QED
  BY <1>2, <1>3

(* Taking a task off the queue.                                            *)
LEMMA PopKeepsPosted ==
  ASSUME TypeOK, OrderInv, NEW t \in Tabs, uiQ[t] # <<>>,
         uiQ' = [uiQ EXCEPT ![t] = Tail(@)], UNCHANGED <<starts, sftpHandles>>
  PROVE  PostedInv'
<1> SUFFICES ASSUME NEW u \in Tabs, NEW i \in DOMAIN uiQ'[u]
             PROVE  \E j \in DOMAIN uiQ[u] : uiQ'[u][i] = uiQ[u][j]
  BY DEF OrderInv, PostedInv, NewsOfEnd
<1>1. uiQ[u] \in Seq(UiTask)
  BY DEF TypeOK
<1>2. CASE u = t
  <2>1. uiQ'[u] = Tail(uiQ[u])
    BY <1>2 DEF TypeOK
  <2>2. i + 1 \in DOMAIN uiQ[u] /\ uiQ'[u][i] = uiQ[u][i + 1]
    <3> DEFINE s == uiQ[u]
    <3>1. s \in Seq(UiTask) /\ s # <<>> /\ i \in DOMAIN Tail(s)
      BY <1>1, <1>2, <2>1
    <3> HIDE DEF s
    <3>2. i + 1 \in DOMAIN s /\ Tail(s)[i] = s[i + 1]
      BY <3>1
    <3>3. QED
      BY <2>1, <3>2 DEF s
  <2>3. QED
    BY <2>2
<1>3. CASE u # t
  BY <1>3 DEF TypeOK
<1>4. QED
  BY <1>2, <1>3

LEMMA OrderStep == TypeOK /\ OrderInv /\ [Next]_vars => OrderInv'
<1> SUFFICES ASSUME TypeOK, OrderInv, [Next]_vars PROVE OrderInv'
  OBVIOUS
<1>1. ASSUME NEW t \in Tabs, OpenTab(t) PROVE OrderInv'
  BY <1>1, StartKeepsOrder DEF OpenTab
<1>2. ASSUME NEW t \in Tabs, Reconnect(t) PROVE OrderInv'
  BY <1>2, StartKeepsOrder DEF Reconnect
<1>3. ASSUME NEW t \in Tabs, CloseTab(t) PROVE OrderInv'
  <2>1. \A u \in Tabs : sftpHandles'[u] \in {sftpHandles[u], NoGen}
    BY <1>3 DEF CloseTab, ClosesFileSide, TypeOK
  <2>2. UNCHANGED <<starts, shell, readers, shellQ, sftpW, uiQ>>
    BY <1>3 DEF CloseTab
  <2>3. QED
    BY <2>1, <2>2 DEF OrderInv, Silent, PostedInv, NewsOfEnd
<1>4. ASSUME NEW t \in Tabs, ApplyEvent(t) PROVE OrderInv'
  <2>1. PostedInv'
    BY <1>4, PopKeepsPosted DEF ApplyEvent, fileVars
  <2>2. Silent'
    BY <1>4 DEF ApplyEvent, fileVars, shellVars, OrderInv, Silent
  <2>3. QED
    BY <2>1, <2>2 DEF OrderInv
<1>5. ASSUME NEW t \in Tabs, NEW g \in Gens, ShellStep(t, g) PROVE OrderInv'
  <2>1. UNCHANGED <<starts, sftpHandles, sftpW, uiQ>>
    BY <1>5 DEF ShellStep, ConnectFails, Connects,
         SetsUp, SetupFails, Awaits, AwaitReturns, SpawnsChild, AnnouncesChild,
                SamplesResources, PeerCloses, WriteFails, ReaderEnds,
                StopsOnCommand, LocalLoopEnds, Finishes, uiVars, fileVars
  <2>2. shell[<<t, g>>] # "idle" \/ <<t, g>> \in readers
    BY <1>5 DEF ShellStep, ConnectFails, Connects,
         SetsUp, SetupFails, Awaits, AwaitReturns, SpawnsChild, AnnouncesChild,
                SamplesResources, PeerCloses, WriteFails, ReaderEnds,
                StopsOnCommand, LocalLoopEnds, Finishes, Goto
  <2>3. ~(g > starts[t])
    BY <2>2 DEF OrderInv, Silent
  <2>4. \A v \in Workers : v # <<t, g>> =>
          /\ shell'[v] = shell[v]  /\ shellQ'[v] = shellQ[v]
          /\ v \in readers' => v \in readers
    BY <1>5, GenFacts
    DEF ShellStep, ConnectFails, Connects,
         SetsUp, SetupFails, Awaits, AwaitReturns, SpawnsChild, AnnouncesChild,
        SamplesResources, PeerCloses, WriteFails, ReaderEnds,
        StopsOnCommand, LocalLoopEnds, Finishes, Goto, Emit, TypeOK
  <2>5. Silent'
    BY <2>1, <2>3, <2>4 DEF OrderInv, Silent, Workers
  <2>6. QED
    BY <2>1, <2>5 DEF OrderInv, PostedInv, NewsOfEnd
<1>6. ASSUME NEW t \in Tabs, NEW g \in Gens, SftpStep(t, g) PROVE OrderInv'
  <2>1. UNCHANGED <<starts, sftpHandles, shell, readers, shellQ, uiQ>>
    BY <1>6 DEF SftpStep, SftpConnects, SftpConnectFails, SftpStops,
                SftpAborted, uiVars, shellVars
  <2>2. sftpW[<<t, g>>] # "idle"
    BY <1>6 DEF SftpStep, SftpConnects, SftpConnectFails, SftpStops,
                SftpAborted, SftpGoto
  <2>3. ~(g > starts[t])
    BY <2>2 DEF OrderInv, Silent
  <2>4. \A v \in Workers : v # <<t, g>> =>
          sftpW'[v] = sftpW[v]
    BY <1>6, GenFacts DEF SftpStep, SftpConnects, SftpConnectFails,
                SftpStops, SftpAborted, SftpGoto, TypeOK
  <2>5. Silent'
    BY <2>1, <2>3, <2>4 DEF OrderInv, Silent, Workers
  <2>6. QED
    BY <2>1, <2>5 DEF OrderInv, PostedInv, NewsOfEnd
<1>7. ASSUME NEW t \in Tabs, NEW g \in Gens, ShellPump(t, g) PROVE OrderInv'
  <2> DEFINE e == Head(shellQ[<<t, g>>])
  <2>1. UNCHANGED <<starts, shell, readers, sftpW>>
    BY <1>7 DEF ShellPump, uiVars
  <2>2. g <= starts[t]
    BY <1>7, GenNumbers DEF ShellPump, OrderInv, Silent
  <2>3. /\ \A u \in Tabs : sftpHandles'[u] \in {sftpHandles[u], NoGen}
        /\ e = "Closed" => sftpHandles'[t] = NoGen
    BY <1>7 DEF ShellPump, ClosesFileSide, TypeOK
  <2>4. PostedInv'
    <3> HIDE DEF e
    <3>1. Post(t, g, e)
      BY <1>7 DEF ShellPump, e
    <3>2. QED
      BY <2>1, <2>2, <2>3, <3>1, PostKeepsPosted
  <2>5. \A v \in Workers : v # <<t, g>> => shellQ'[v] = shellQ[v]
    BY <1>7 DEF ShellPump, TypeOK
  <2>6. Silent'
    <3>1. ~(g > starts[t])
      BY <2>2, GenNumbers
    <3>2. QED
      BY <2>1, <2>5, <3>1 DEF OrderInv, Silent, Workers
  <2>7. QED
    BY <2>4, <2>6 DEF OrderInv
<1>9. CASE UNCHANGED vars
  BY <1>9 DEF vars, OrderInv, Silent, PostedInv, NewsOfEnd
<1>10. QED
  BY <1>1, <1>2, <1>3, <1>4, <1>5, <1>6, <1>7, <1>9
  DEF Next, UserStep, WorkerStep

(* When the UI thread takes the news that the newest shell ended, the file *)
(* connection is out of the map, whatever the threads did in between.      *)
THEOREM FileSideOrder == Spec => FileSideClosesFirst
<1>1. ASSUME TypeOK, OrderInv, [Next]_vars, NEW t \in Tabs,
             uiQ[t] # <<>>, uiQ'[t] = Tail(uiQ[t]), Head(uiQ[t]) = NewsOfEnd(t)
      PROVE  sftpHandles'[t] = NoGen
  <2>1. uiQ[t] \in Seq(UiTask)
    BY <1>1 DEF TypeOK
  <2>2. 1 \in DOMAIN uiQ[t] /\ uiQ[t][1] = Head(uiQ[t])
    BY <1>1, <2>1
  <2>3. sftpHandles[t] = NoGen
    BY <1>1, <2>2 DEF OrderInv, PostedInv
  <2>4. uiQ' # uiQ
    <3>1. \A s \in Seq(UiTask) : s # <<>> => Len(Tail(s)) # Len(s)
      OBVIOUS
    <3>2. Len(uiQ'[t]) # Len(uiQ[t])
      BY <1>1, <2>1, <3>1
    <3>3. QED
      BY <3>2
  <2>5. sftpHandles'[t] \in {sftpHandles[t], NoGen}
    <3>1. ASSUME NEW u \in Tabs, OpenTab(u) \/ Reconnect(u) PROVE FALSE
      BY <2>4, <3>1 DEF OpenTab, Reconnect
    <3>2. ASSUME NEW u \in Tabs, CloseTab(u)
          PROVE  sftpHandles'[t] \in {sftpHandles[t], NoGen}
      BY <1>1, <3>2 DEF CloseTab, ClosesFileSide, TypeOK
    <3>3. ASSUME NEW u \in Tabs, ApplyEvent(u) PROVE sftpHandles' = sftpHandles
      BY <3>3 DEF ApplyEvent, fileVars
    <3>4. ASSUME NEW u \in Tabs, NEW g \in Gens, ShellStep(u, g) \/ SftpStep(u, g)
          PROVE  uiQ' = uiQ
      BY <3>4 DEF ShellStep, ConnectFails, Connects,
           SetsUp, SetupFails, Awaits, AwaitReturns, SpawnsChild, AnnouncesChild,
                  SamplesResources, PeerCloses, WriteFails, ReaderEnds,
                  StopsOnCommand, LocalLoopEnds, Finishes, SftpStep, SftpConnects,
                  SftpConnectFails, SftpStops, SftpAborted
    <3>5. ASSUME NEW u \in Tabs, NEW g \in Gens, ShellPump(u, g)
          PROVE  sftpHandles'[t] \in {sftpHandles[t], NoGen}
      BY <1>1, <3>5 DEF ShellPump, ClosesFileSide, TypeOK
    <3>6. CASE UNCHANGED vars
      BY <3>6 DEF vars
    <3>7. QED
      BY <1>1, <2>4, <3>1, <3>2, <3>3, <3>4, <3>5, <3>6
      DEF Next, UserStep, WorkerStep
  <2>6. QED
    BY <2>3, <2>5
<1>2. TypeOK /\ OrderInv /\ [Next]_vars =>
        [\A t \in Tabs :
           /\ uiQ[t] # <<>> /\ uiQ'[t] = Tail(uiQ[t])
           /\ Head(uiQ[t]) = [evt |-> "Closed", gen |-> starts[t]]
           => sftpHandles'[t] = NoGen]_vars
  BY <1>1 DEF NewsOfEnd
<1>3. QED
  BY OrderInit, OrderStep, <1>2, TypeCorrect, PTL DEF Spec, FileSideClosesFirst

-----------------------------------------------------------------------------
(* A tab that looks alive.                                                 *)

(* Generation g of tab t is connected, or about to say that it ended.      *)
On(t, g) == Attached(t, g) \/ shell[<<t, g>>] = "stopping"
ClosedWaits(t, g) ==
  \E k \in DOMAIN shellQ[<<t, g>>] : shellQ[<<t, g>>][k] = "Closed"

(* Whatever a worker said of a connection, in its channel or at the UI, it *)
(* still has that connection, or its Closed comes later.                   *)
WaitsInChannel(t, g) ==
  \A i \in DOMAIN shellQ[<<t, g>>] : (shellQ[<<t, g>>][i] # "Closed") =>
    (\/ On(t, g)
     \/ \E k \in DOMAIN shellQ[<<t, g>>] : (k > i) /\ shellQ[<<t, g>>][k] = "Closed")

ClosedAfter(t, i) == \E k \in DOMAIN uiQ[t] : (k > i) /\ uiQ[t][k].evt = "Closed"
WaitsAtUi(t, g) ==
  \A i \in DOMAIN uiQ[t] : (uiQ[t][i].gen = g /\ uiQ[t][i].evt # "Closed") =>
    (On(t, g) \/ ClosedWaits(t, g) \/ ClosedAfter(t, i))

SaidOfLive ==
  \A t \in Tabs, g \in Gens :
    (kind[t] # "local") => (WaitsInChannel(t, g) /\ WaitsAtUi(t, g))

ShownIsLive ==
  \A t \in Tabs : status[t] = "connected" /\ kind[t] # "local" => AliveOrEnding(t)

OpeningIsLocal ==
  \A t \in Tabs, g \in Gens : shell[<<t, g>>] = "opening" => kind[t] = "local"

LiveInv == SaidOfLive /\ ShownIsLive /\ OpeningIsLocal

LEMMA LiveInit == Init => LiveInv
BY
  DEF Init, LiveInv, SaidOfLive, WaitsInChannel, WaitsAtUi, ClosedAfter, ShownIsLive,
      OpeningIsLocal, Workers

LEMMA AliveIs ==
  \A t : AliveOrEnding(t) <=>
    \/ \E g \in Gens : On(t, g) \/ ClosedWaits(t, g)
    \/ \E i \in DOMAIN uiQ[t] : uiQ[t][i].evt = "Closed"
BY DEF AliveOrEnding, ClosedPending, On, ClosedWaits

LEMMA AliveNext ==
  \A t : AliveOrEnding(t)' <=>
    \/ \E g \in Gens : On(t, g)' \/ ClosedWaits(t, g)'
    \/ \E i \in DOMAIN uiQ'[t] : uiQ'[t][i].evt = "Closed"
BY DEF AliveOrEnding, ClosedPending, On, ClosedWaits

LEMMA QueueTail ==
  ASSUME NEW S, NEW q \in Seq(S), q # <<>>, NEW r, r = Tail(q)
  PROVE  /\ 1 \in DOMAIN q /\ q[1] = Head(q)
         /\ \A i \in DOMAIN r : i \in Nat /\ i >= 1 /\ i + 1 \in DOMAIN q /\ r[i] = q[i + 1]
         /\ \A i \in DOMAIN q : i \in Nat /\ i >= 1
                                /\ (i # 1 => i - 1 \in DOMAIN r /\ r[i - 1] = q[i])
OBVIOUS

(* A start, the closing of a tab, a step of the file side.                 *)
LEMMA LiveUntouched ==
  ASSUME LiveInv, UNCHANGED <<kind, shellQ, uiQ>>,
         \A t \in Tabs, g \in Gens : On(t, g) => On(t, g)',
         \A t \in Tabs, g \in Gens :
           shell'[<<t, g>>] = "opening" => shell[<<t, g>>] = "opening",
         \A t \in Tabs : status'[t] = "connected" => status[t] = "connected"
  PROVE  LiveInv'
<1>1. \A t, g : ClosedWaits(t, g)' <=> ClosedWaits(t, g)
  BY DEF ClosedWaits
<1>2. SaidOfLive'
  <2>1. ASSUME NEW t \in Tabs, NEW g \in Gens, kind[t] # "local"
        PROVE  WaitsInChannel(t, g)' /\ WaitsAtUi(t, g)'
    <3>1. WaitsInChannel(t, g) /\ WaitsAtUi(t, g)
      BY <2>1 DEF LiveInv, SaidOfLive
    <3>2. WaitsInChannel(t, g)'
      BY <3>1 DEF WaitsInChannel
    <3>3. WaitsAtUi(t, g)'
      BY <1>1, <3>1 DEF WaitsAtUi, ClosedAfter
    <3>4. QED
      BY <3>2, <3>3
  <2>2. QED
    BY <2>1 DEF SaidOfLive
<1>3. ShownIsLive'
  <2>1. ASSUME NEW t \in Tabs, AliveOrEnding(t) PROVE AliveOrEnding(t)'
    BY <1>1, <2>1, AliveIs, AliveNext
  <2>2. QED
    BY <2>1 DEF LiveInv, ShownIsLive
<1>4. QED
  BY <1>2, <1>3 DEF LiveInv, OpeningIsLocal

LEMMA StartKeepsLive ==
  ASSUME TypeOK, OrderInv, LiveInv, NEW t \in Tabs, StartSession(t),
         status' = [status EXCEPT ![t] = "connecting"],
         UNCHANGED <<kind, readers, shellQ, uiQ>>
  PROVE  LiveInv'
<1> DEFINE n == starts[t] + 1
<1>1. n \in Gens /\ <<t, n>> \in Workers /\ starts[t] \in Nat
  BY StartFacts, GenNumbers DEF StartSession
<1>2. \A u \in Tabs, g \in Gens :
        shell'[<<u, g>>] = IF <<u, g>> = <<t, n>> THEN "connecting" ELSE shell[<<u, g>>]
  BY <1>1 DEF StartSession, TypeOK, Workers
<1>3. shell[<<t, n>>] = "idle" /\ <<t, n>> \notin readers
  BY <1>1 DEF OrderInv, Silent
<1>4. \A u \in Tabs, g \in Gens : On(u, g) => On(u, g)'
  BY <1>2, <1>3 DEF On, Attached
<1>5. QED
  BY <1>2, <1>4, LiveUntouched DEF TypeOK

(* A step of a shell worker: it has its connection after it spoke of one,  *)
(* and says Closed when it no longer has it.                               *)
LEMMA ShellSays ==
  ASSUME TypeOK, LiveInv, NEW t \in Tabs, NEW g \in Gens, ShellStep(t, g), kind[t] # "local"
  PROVE  \/ /\ shellQ' = shellQ
            /\ On(t, g) => On(t, g)'
         \/ \E e \in ShellEvent : /\ Emit(<<t, g>>, e)
                                  /\ e # "Closed" => On(t, g)'
<1> DEFINE w == <<t, g>>
<1>1. w \in Workers /\ kind[t] \in {"ssh", "telnet", "serial"} /\ UNCHANGED kind
  BY GenFacts DEF TypeOK, SessionKind, ShellStep, ConnectFails, Connects,
       SetsUp, SetupFails, Awaits, AwaitReturns, SpawnsChild,
     AnnouncesChild, SamplesResources, PeerCloses, WriteFails, ReaderEnds, StopsOnCommand,
     LocalLoopEnds, Finishes, uiVars
<1>2. CASE \/ ConnectFails(t, g) \/ SetupFails(t, g) \/ WriteFails(t, g)
           \/ ReaderEnds(t, g) \/ Finishes(t, g)
  BY <1>2 DEF ConnectFails, SetupFails, WriteFails, ReaderEnds, Finishes, ShellEvent
<1>3. CASE Connects(t, g)
  <2>1. shell'[w] \in {"settingUp", "running"} /\ (kind[t] = "serial" => w \in readers')
    BY <1>1, <1>3 DEF Connects, Goto, TypeOK
  <2>2. On(t, g)'
    BY <1>1, <2>1 DEF On, Attached
  <2>3. QED
    BY <1>3, <2>2 DEF Connects, ShellEvent
<1>4. CASE SamplesResources(t, g)
  <2>1. On(t, g)'
    BY <1>1, <1>4 DEF SamplesResources, On, Attached
  <2>2. QED
    BY <1>4, <2>1 DEF SamplesResources, ShellEvent
<1>5. CASE PeerCloses(t, g) \/ StopsOnCommand(t, g)
  <2>1. shell'[w] = "stopping" /\ shellQ' = shellQ
    BY <1>1, <1>5 DEF PeerCloses, StopsOnCommand, Goto, TypeOK
  <2>2. QED
    BY <2>1 DEF On
<1>6. CASE SpawnsChild(t, g) \/ AnnouncesChild(t, g) \/ LocalLoopEnds(t, g)
  BY <1>6 DEF SpawnsChild, AnnouncesChild, LocalLoopEnds, Goto, LiveInv, OpeningIsLocal
<1>7. CASE SetsUp(t, g) \/ Awaits(t, g) \/ AwaitReturns(t, g)
  <2>1. /\ shell[w] \in {"settingUp", "running", "awaiting"}
        /\ shell'[w] \in {"running", "awaiting"}
        /\ shellQ' = shellQ /\ readers' = readers
    BY <1>1, <1>7 DEF SetsUp, Awaits, AwaitReturns, Goto, TypeOK
  <2>2. On(t, g) => On(t, g)'
    BY <1>1, <2>1 DEF On, Attached
  <2>3. QED
    BY <2>1, <2>2
<1>8. QED
  BY <1>2, <1>3, <1>4, <1>5, <1>6, <1>7 DEF ShellStep

LEMMA ShellKeepsLive ==
  ASSUME TypeOK, LiveInv, NEW t \in Tabs, NEW g \in Gens, ShellStep(t, g)
  PROVE  LiveInv'
<1> DEFINE w == <<t, g>>
<1>1. w \in Workers /\ UNCHANGED <<kind, status, uiQ>>
  BY GenFacts DEF ShellStep, ConnectFails, Connects,
       SetsUp, SetupFails, Awaits, AwaitReturns, SpawnsChild,
     AnnouncesChild, SamplesResources, PeerCloses, WriteFails, ReaderEnds, StopsOnCommand,
     LocalLoopEnds, Finishes, uiVars
<1>2. \A v \in Workers : v # w =>
        /\ shell'[v] = shell[v] /\ shellQ'[v] = shellQ[v]
        /\ v \in readers' <=> v \in readers
  BY <1>1 DEF ShellStep, ConnectFails, Connects,
       SetsUp, SetupFails, Awaits, AwaitReturns, SpawnsChild, AnnouncesChild,
     SamplesResources, PeerCloses, WriteFails, ReaderEnds, StopsOnCommand, LocalLoopEnds,
     Finishes, Goto, Emit, TypeOK
<1>3. \A u \in Tabs, h \in Gens : <<u, h>> # w =>
        /\ On(u, h)' <=> On(u, h)
        /\ ClosedWaits(u, h)' <=> ClosedWaits(u, h)
  BY <1>1, <1>2 DEF On, Attached, ClosedWaits, Workers
<1>4. OpeningIsLocal'
  <2>1. shell'[w] = "opening" => shell[w] = "opening" \/ kind[t] = "local"
    BY <1>1 DEF ShellStep, ConnectFails, Connects,
         SetsUp, SetupFails, Awaits, AwaitReturns, SpawnsChild, AnnouncesChild,
       SamplesResources, PeerCloses, WriteFails, ReaderEnds, StopsOnCommand, LocalLoopEnds,
       Finishes, Goto, TypeOK
  <2>2. QED
    BY <1>1, <1>2, <2>1 DEF LiveInv, OpeningIsLocal, Workers
<1>5. SaidOfLive' /\ ShownIsLive'
  <2>1. CASE kind[t] = "local"
    <3>1. ASSUME NEW u \in Tabs, kind[u] # "local", NEW h \in Gens
          PROVE  /\ <<u, h>> # w /\ <<u, h>> \in Workers
                 /\ shellQ'[<<u, h>>] = shellQ[<<u, h>>]
                 /\ (On(u, h)' <=> On(u, h)) /\ (ClosedWaits(u, h)' <=> ClosedWaits(u, h))
      BY <1>2, <1>3, <2>1, <3>1 DEF Workers
    <3>2. SaidOfLive'
      <4>1. ASSUME NEW u \in Tabs, NEW h \in Gens, kind[u] # "local"
            PROVE  WaitsInChannel(u, h)' /\ WaitsAtUi(u, h)'
        <5>1. WaitsInChannel(u, h) /\ WaitsAtUi(u, h)
          BY <4>1 DEF LiveInv, SaidOfLive
        <5>2. WaitsInChannel(u, h)'
          BY <3>1, <4>1, <5>1 DEF WaitsInChannel
        <5>3. WaitsAtUi(u, h)'
          BY <1>1, <3>1, <4>1, <5>1 DEF WaitsAtUi, ClosedAfter
        <5>4. QED
          BY <5>2, <5>3
      <4>2. QED
        BY <1>1, <4>1 DEF SaidOfLive
    <3>3. \A u \in Tabs : kind[u] # "local" => (AliveOrEnding(u) => AliveOrEnding(u)')
      BY <1>1, <3>1, AliveIs, AliveNext
    <3>4. QED
      BY <1>1, <3>2, <3>3 DEF LiveInv, ShownIsLive
  <2>2. CASE kind[t] # "local" /\ shellQ' = shellQ /\ (On(t, g) => On(t, g)')
    <3>1. \A u \in Tabs, h \in Gens :
            (On(u, h) => On(u, h)') /\ (ClosedWaits(u, h) => ClosedWaits(u, h)')
      BY <1>3, <2>2 DEF ClosedWaits
    <3>2. SaidOfLive'
      BY <1>1, <2>2, <3>1 DEF LiveInv, SaidOfLive, WaitsInChannel, WaitsAtUi, ClosedAfter
    <3>3. \A u \in Tabs : AliveOrEnding(u) => AliveOrEnding(u)'
      BY <1>1, <3>1, AliveIs, AliveNext
    <3>4. QED
      BY <1>1, <3>2, <3>3 DEF LiveInv, ShownIsLive
  <2>3. ASSUME kind[t] # "local", NEW e \in ShellEvent, Emit(w, e),
               e # "Closed" => On(t, g)'
        PROVE  SaidOfLive' /\ ShownIsLive'
    <3>1. shellQ[w] \in Seq(ShellEvent) /\ shellQ'[w] = Append(shellQ[w], e)
      BY <1>1, <2>3 DEF Emit, TypeOK
    <3> DEFINE last == Len(shellQ[w]) + 1
    <3>2. /\ last \in DOMAIN shellQ'[w]
          /\ last \in Nat /\ shellQ'[w][last] = e
          /\ \A i \in DOMAIN shellQ[w] : /\ i \in Nat /\ i < last /\ i \in DOMAIN shellQ'[w]
                                         /\ shellQ'[w][i] = shellQ[w][i]
          /\ \A i \in DOMAIN shellQ'[w] : i \in Nat /\ (i = last \/ i \in DOMAIN shellQ[w])
      BY <3>1
    <3> HIDE DEF last
    <3>3. On(t, g)' \/ shellQ'[w][last] = "Closed"
      BY <2>3, <3>2
    <3>4. /\ ClosedWaits(t, g) => ClosedWaits(t, g)'
          /\ On(t, g)' \/ ClosedWaits(t, g)'
      BY <3>2, <3>3 DEF ClosedWaits
    <3>5. SaidOfLive'
      <4>1. ASSUME NEW u \in Tabs, NEW h \in Gens, kind[u] # "local",
                   NEW i \in DOMAIN shellQ'[<<u, h>>],
                   shellQ'[<<u, h>>][i] # "Closed"
            PROVE  \/ On(u, h)'
                   \/ \E k \in DOMAIN shellQ'[<<u, h>>] :
                         k > i /\ shellQ'[<<u, h>>][k] = "Closed"
        <5>1. CASE <<u, h>> = w
          BY <3>2, <3>3, <4>1, <5>1
        <5>2. CASE <<u, h>> # w
          <6>1. shellQ'[<<u, h>>] = shellQ[<<u, h>>]
            BY <1>2, <5>2 DEF Workers
          <6>2. QED
            BY <1>3, <4>1, <5>2, <6>1
              DEF LiveInv, SaidOfLive, WaitsInChannel, WaitsAtUi, ClosedAfter
        <5>3. QED
          BY <5>1, <5>2
      <4>2. \A u \in Tabs, h \in Gens :
              On(u, h) \/ ClosedWaits(u, h) => On(u, h)' \/ ClosedWaits(u, h)'
        BY <1>3, <3>4
      <4>3. QED
        BY <1>1, <4>1, <4>2 DEF LiveInv, SaidOfLive, WaitsInChannel, WaitsAtUi, ClosedAfter
    <3>6. ShownIsLive'
      <4>1. \A u \in Tabs : AliveOrEnding(u) => AliveOrEnding(u)'
        BY <1>1, <1>3, <3>4, AliveIs, AliveNext
      <4>2. QED
        BY <1>1, <4>1 DEF LiveInv, ShownIsLive
    <3>7. QED
      BY <3>5, <3>6
  <2>4. QED
    BY <2>1, <2>2, <2>3, ShellSays
<1>6. QED
  BY <1>4, <1>5 DEF LiveInv

(* The pump moves what a worker said from its channel to the UI, in order. *)
LEMMA PumpKeepsLive ==
  ASSUME TypeOK, LiveInv, NEW t \in Tabs, NEW g \in Gens, ShellPump(t, g)
  PROVE  LiveInv'
<1> DEFINE w == <<t, g>>
           task == [evt |-> Head(shellQ[w]), gen |-> g]
<1>1. w \in Workers /\ UNCHANGED <<kind, status, shell, readers>> /\ shellQ[w] # <<>>
  BY GenFacts DEF ShellPump, uiVars
<1>2. /\ shellQ[w] \in Seq(ShellEvent) /\ shellQ'[w] = Tail(shellQ[w])
      /\ \A v \in Workers : v # w => shellQ'[v] = shellQ[v]
  BY <1>1 DEF ShellPump, TypeOK
<1>3. /\ uiQ[t] \in Seq(UiTask) /\ uiQ'[t] = Append(uiQ[t], task) /\ task \in UiTask
      /\ \A u \in Tabs : u # t => uiQ'[u] = uiQ[u]
  <2>1. Head(shellQ[w]) \in ShellEvent
    BY <1>1, <1>2
  <2>2. QED
    BY <2>1 DEF ShellPump, Post, TypeOK, UiTask
<1>4. /\ 1 \in DOMAIN shellQ[w] /\ shellQ[w][1] = Head(shellQ[w])
      /\ \A i \in DOMAIN shellQ'[w] : /\ i \in Nat /\ i >= 1 /\ i + 1 \in DOMAIN shellQ[w]
                                      /\ shellQ'[w][i] = shellQ[w][i + 1]
      /\ \A i \in DOMAIN shellQ[w] : /\ i \in Nat /\ i >= 1
                                     /\ i # 1 => /\ i - 1 \in DOMAIN shellQ'[w]
                                                 /\ shellQ'[w][i - 1] = shellQ[w][i]
  BY <1>1, <1>2, QueueTail
<1> DEFINE last == Len(uiQ[t]) + 1
<1>5. /\ last \in DOMAIN uiQ'[t]
      /\ last \in Nat /\ uiQ'[t][last] = task
      /\ \A i \in DOMAIN uiQ[t] : /\ i \in Nat /\ i < last /\ i \in DOMAIN uiQ'[t]
                                  /\ uiQ'[t][i] = uiQ[t][i]
      /\ \A i \in DOMAIN uiQ'[t] : i \in Nat /\ (i = last \/ i \in DOMAIN uiQ[t])
  <2> HIDE DEF task
  <2>1. QED
    BY <1>3
<1> HIDE DEF last
<1>6. \A u \in Tabs, h \in Gens : On(u, h)' <=> On(u, h)
  BY <1>1 DEF On, Attached
<1>7. \A u \in Tabs, h \in Gens : <<u, h>> # w =>
        (ClosedWaits(u, h)' <=> ClosedWaits(u, h)) /\ shellQ'[<<u, h>>] = shellQ[<<u, h>>]
  BY <1>2 DEF ClosedWaits, Workers
<1>8. ClosedWaits(t, g) => ClosedWaits(t, g)' \/ uiQ'[t][last].evt = "Closed"
  BY <1>4, <1>5 DEF ClosedWaits
<1>9. SaidOfLive'
  <2>1. ASSUME NEW u \in Tabs, NEW h \in Gens, kind[u] # "local",
               NEW i \in DOMAIN shellQ'[<<u, h>>],
               shellQ'[<<u, h>>][i] # "Closed"
        PROVE  \/ On(u, h)
               \/ \E k \in DOMAIN shellQ'[<<u, h>>] :
                     k > i /\ shellQ'[<<u, h>>][k] = "Closed"
    <3>1. CASE <<u, h>> = w
      <4>1. i \in Nat /\ i >= 1 /\ i + 1 \in DOMAIN shellQ[w] /\ shellQ[w][i + 1] # "Closed"
        BY <1>4, <2>1, <3>1
      <4>2. On(t, g) \/ \E k \in DOMAIN shellQ[w] : k > i + 1 /\ shellQ[w][k] = "Closed"
        BY <2>1, <3>1, <4>1 DEF LiveInv, SaidOfLive, WaitsInChannel, WaitsAtUi, ClosedAfter
      <4>3. ASSUME NEW k \in DOMAIN shellQ[w], k > i + 1, shellQ[w][k] = "Closed"
            PROVE  k - 1 \in DOMAIN shellQ'[w] /\ k - 1 > i /\ shellQ'[w][k - 1] = "Closed"
        BY <1>4, <4>1, <4>3
      <4>4. QED
        BY <3>1, <4>2, <4>3
    <3>2. CASE <<u, h>> # w
      BY <1>7, <2>1, <3>2 DEF LiveInv, SaidOfLive, WaitsInChannel, WaitsAtUi, ClosedAfter
    <3>3. QED
      BY <3>1, <3>2
  <2>2. ASSUME NEW u \in Tabs, NEW h \in Gens, kind[u] # "local", NEW i \in DOMAIN uiQ'[u],
               uiQ'[u][i].gen = h, uiQ'[u][i].evt # "Closed"
        PROVE  \/ On(u, h) \/ ClosedWaits(u, h)'
               \/ \E k \in DOMAIN uiQ'[u] : k > i /\ uiQ'[u][k].evt = "Closed"
    <3>1. CASE u = t /\ i = last
      <4>1. h = g /\ shellQ[w][1] # "Closed"
        BY <1>4, <1>5, <2>2, <3>1
      <4>2. On(t, g) \/ \E k \in DOMAIN shellQ[w] : k > 1 /\ shellQ[w][k] = "Closed"
        BY <1>4, <2>2, <3>1, <4>1
          DEF LiveInv, SaidOfLive, WaitsInChannel, WaitsAtUi, ClosedAfter
      <4>3. (\E k \in DOMAIN shellQ[w] : k > 1 /\ shellQ[w][k] = "Closed")
              => ClosedWaits(t, g)'
        BY <1>4 DEF ClosedWaits
      <4>4. QED
        BY <3>1, <4>1, <4>2, <4>3
    <3>2. CASE u = t /\ i # last
      <4>1. i \in DOMAIN uiQ[t] /\ uiQ'[t][i] = uiQ[t][i] /\ last > i
        BY <1>5, <2>2, <3>2
      <4>2. \/ On(t, h) \/ ClosedWaits(t, h)
            \/ \E k \in DOMAIN uiQ[t] : k > i /\ uiQ[t][k].evt = "Closed"
        <5>1. WaitsAtUi(t, h)
          BY <2>2, <3>2 DEF LiveInv, SaidOfLive
        <5>2. QED
          BY <2>2, <3>2, <4>1, <5>1 DEF WaitsAtUi, ClosedAfter
      <4>3. ClosedWaits(t, h) => ClosedWaits(t, h)' \/ uiQ'[t][last].evt = "Closed"
        BY <1>7, <1>8
      <4>4. QED
        BY <1>5, <3>2, <4>1, <4>2, <4>3
    <3>3. CASE u # t
      <4>1. WaitsAtUi(u, h)
        BY <2>2 DEF LiveInv, SaidOfLive
      <4>2. uiQ'[u] = uiQ[u] /\ (ClosedWaits(u, h)' <=> ClosedWaits(u, h))
        BY <1>3, <1>7, <3>3
      <4>3. QED
        BY <2>2, <4>1, <4>2 DEF WaitsAtUi, ClosedAfter
    <3>4. QED
      BY <3>1, <3>2, <3>3
  <2>3. QED
    BY <1>1, <1>6, <2>1, <2>2 DEF SaidOfLive, WaitsInChannel, WaitsAtUi, ClosedAfter
<1>10. ShownIsLive'
  <2>1. ASSUME NEW u \in Tabs, AliveOrEnding(u) PROVE AliveOrEnding(u)'
    <3>1. \/ \E h \in Gens : On(u, h) \/ ClosedWaits(u, h)
          \/ \E i \in DOMAIN uiQ[u] : uiQ[u][i].evt = "Closed"
      BY <2>1, AliveIs, AliveNext
    <3>2. \A h \in Gens : ClosedWaits(u, h) =>
            ClosedWaits(u, h)' \/ \E i \in DOMAIN uiQ'[u] : uiQ'[u][i].evt = "Closed"
      BY <1>5, <1>7, <1>8
    <3>3. (\E i \in DOMAIN uiQ[u] : uiQ[u][i].evt = "Closed")
            => \E i \in DOMAIN uiQ'[u] : uiQ'[u][i].evt = "Closed"
      BY <1>3, <1>5
    <3>4. QED
      BY <1>6, <3>1, <3>2, <3>3, AliveIs, AliveNext
  <2>2. QED
    BY <1>1, <2>1 DEF LiveInv, ShownIsLive
<1>11. QED
  BY <1>1, <1>9, <1>10 DEF LiveInv, OpeningIsLocal

(* The UI takes the oldest task of a tab.                                  *)
LEMMA ApplyKeepsLive ==
  ASSUME TypeOK, LiveInv, NEW t \in Tabs, ApplyEvent(t)
  PROVE  LiveInv'
<1> DEFINE task == Head(uiQ[t])
<1>1. UNCHANGED <<kind, shell, readers, shellQ>> /\ uiQ[t] # <<>>
  BY DEF ApplyEvent, shellVars
<1>2. /\ uiQ[t] \in Seq(UiTask) /\ uiQ'[t] = Tail(uiQ[t])
      /\ \A u \in Tabs : u # t => uiQ'[u] = uiQ[u] /\ status'[u] = status[u]
      /\ \/ task.evt # "Closed"
         \/ status'[t] = "disconnected"
  BY DEF ApplyEvent, ApplyConnected, ApplyClosed, TypeOK
<1>3. /\ 1 \in DOMAIN uiQ[t] /\ uiQ[t][1] = task
      /\ \A i \in DOMAIN uiQ'[t] : /\ i \in Nat /\ i >= 1 /\ i + 1 \in DOMAIN uiQ[t]
                                   /\ uiQ'[t][i] = uiQ[t][i + 1]
      /\ \A i \in DOMAIN uiQ[t] : /\ i \in Nat /\ i >= 1
                                  /\ i # 1 => /\ i - 1 \in DOMAIN uiQ'[t]
                                              /\ uiQ'[t][i - 1] = uiQ[t][i]
  BY <1>1, <1>2, QueueTail
<1>4. \A u, h : (On(u, h)' <=> On(u, h)) /\ (ClosedWaits(u, h)' <=> ClosedWaits(u, h))
  BY <1>1 DEF On, Attached, ClosedWaits
<1> HIDE DEF task
<1>5. SaidOfLive'
  <2>1. ASSUME NEW u \in Tabs, NEW h \in Gens, kind[u] # "local", NEW i \in DOMAIN uiQ'[u],
               uiQ'[u][i].gen = h, uiQ'[u][i].evt # "Closed"
        PROVE  \/ On(u, h) \/ ClosedWaits(u, h)
               \/ \E k \in DOMAIN uiQ'[u] : k > i /\ uiQ'[u][k].evt = "Closed"
    <3>1. CASE u = t
      <4>1. i \in Nat /\ i >= 1 /\ i + 1 \in DOMAIN uiQ[t] /\ uiQ'[t][i] = uiQ[t][i + 1]
        BY <1>3, <2>1, <3>1
      <4>2. \/ On(t, h) \/ ClosedWaits(t, h)
            \/ \E k \in DOMAIN uiQ[t] : k > i + 1 /\ uiQ[t][k].evt = "Closed"
        <5>1. WaitsAtUi(t, h)
          BY <2>1, <3>1 DEF LiveInv, SaidOfLive
        <5>2. QED
          BY <2>1, <3>1, <4>1, <5>1 DEF WaitsAtUi, ClosedAfter
      <4>3. ASSUME NEW k \in DOMAIN uiQ[t], k > i + 1, uiQ[t][k].evt = "Closed"
            PROVE  k - 1 \in DOMAIN uiQ'[t] /\ k - 1 > i /\ uiQ'[t][k - 1].evt = "Closed"
        BY <1>3, <4>1, <4>3
      <4>4. QED
        BY <3>1, <4>2, <4>3
    <3>2. CASE u # t
      <4>1. WaitsAtUi(u, h)
        BY <2>1 DEF LiveInv, SaidOfLive
      <4>2. uiQ'[u] = uiQ[u]
        BY <1>2, <3>2
      <4>3. QED
        BY <2>1, <4>1, <4>2 DEF WaitsAtUi, ClosedAfter
    <3>3. QED
      BY <3>1, <3>2
  <2>2. QED
    BY <1>1, <1>4, <2>1 DEF LiveInv, SaidOfLive, WaitsInChannel, WaitsAtUi, ClosedAfter
<1>6. ShownIsLive'
  <2>1. ASSUME NEW u \in Tabs, u # t, status'[u] = "connected", kind[u] # "local"
        PROVE  AliveOrEnding(u)'
    BY <1>2, <1>4, <2>1, AliveIs, AliveNext DEF LiveInv, ShownIsLive
  <2>2. ASSUME status'[t] = "connected", kind[t] # "local" PROVE AliveOrEnding(t)'
    <3>1. task.evt # "Closed"
      BY <1>2, <2>2
    <3>2. uiQ[t][1].gen \in Gens
      <4>1. uiQ[t][1] \in UiTask
        BY <1>2, <1>3
      <4>2. QED
        BY <4>1 DEF UiTask
    <3>3. \/ \E h \in Gens : On(t, h) \/ ClosedWaits(t, h)
          \/ \E k \in DOMAIN uiQ[t] : k > 1 /\ uiQ[t][k].evt = "Closed"
      BY <1>3, <2>2, <3>1, <3>2
        DEF LiveInv, SaidOfLive, WaitsInChannel, WaitsAtUi, ClosedAfter
    <3>4. (\E k \in DOMAIN uiQ[t] : k > 1 /\ uiQ[t][k].evt = "Closed")
            => \E k \in DOMAIN uiQ'[t] : uiQ'[t][k].evt = "Closed"
      BY <1>3
    <3>5. QED
      BY <1>4, <3>3, <3>4, AliveIs, AliveNext
  <2>3. QED
    BY <1>1, <2>1, <2>2 DEF ShownIsLive
<1>7. QED
  BY <1>1, <1>5, <1>6 DEF LiveInv, OpeningIsLocal

LEMMA LiveStep == TypeOK /\ OrderInv /\ LiveInv /\ [Next]_vars => LiveInv'
<1> SUFFICES ASSUME TypeOK, OrderInv, LiveInv, [Next]_vars PROVE LiveInv'
  OBVIOUS
<1>1. ASSUME NEW t \in Tabs, OpenTab(t) \/ Reconnect(t) PROVE LiveInv'
  BY <1>1, StartKeepsLive DEF OpenTab, Reconnect
<1>2. CASE UNCHANGED <<kind, status, shell, readers, shellQ, uiQ>>
  BY <1>2, LiveUntouched DEF On, Attached
<1>3. ASSUME NEW t \in Tabs, NEW g \in Gens, WorkerStep(t, g) PROVE LiveInv'
  BY <1>2, <1>3, ShellKeepsLive, PumpKeepsLive
  DEF WorkerStep, SftpStep, SftpConnects, SftpConnectFails, SftpStops, SftpAborted, uiVars,
      shellVars
<1>4. ASSUME NEW t \in Tabs, CloseTab(t) PROVE LiveInv'
  BY <1>2, <1>4 DEF CloseTab
<1>5. CASE UNCHANGED vars
  BY <1>2, <1>5 DEF vars
<1>6. QED
  BY <1>1, <1>3, <1>4, <1>5, ApplyKeepsLive DEF Next, UserStep

(* A remote tab that looks connected is, or the news of its end is on the  *)
(* way: a sample or a Connected is followed by the Closed of its worker,   *)
(* through the worker's channel, its pump and the event loop.              *)
THEOREM ConnectedMeansAlive == Spec => []RemoteConnectedMeansAlive
<1>1. TypeOK /\ LiveInv => RemoteConnectedMeansAlive
  BY DEF LiveInv, ShownIsLive, RemoteConnectedMeansAlive, TypeOK
<1>2. QED
  BY OrderInit, OrderStep, LiveInit, LiveStep, <1>1, TypeCorrect, PTL DEF Spec

-----------------------------------------------------------------------------
(* The panes that hold the tabs, as PaneGroups describes them for any tabs *)
(* and pane ids: they partition the open tabs, show what they hold, and    *)
(* one that exists has the focus.                                          *)
CONSTANTS NoTab, PaneIds
VARIABLES panes, focused
Pg == INSTANCE PaneGroups

PanesInv == Pg!TypeOK /\ Pg!OnePanePerTab /\ Pg!PaneShowsItsTab /\ Pg!FocusIsLive

(* The panes are a function on some of the ids.                            *)
LEMMA PanesTyped ==
  ASSUME Pg!TypeOK
  PROVE  /\ DOMAIN panes \subseteq PaneIds
         /\ panes \in [DOMAIN panes -> Pg!Group]
         /\ \A p \in DOMAIN panes : /\ panes[p].tabs \subseteq Tabs
                                    /\ panes[p].active \in Tabs \cup {NoTab}
                                    /\ panes[p] \in Pg!Group
BY DEF Pg!TypeOK, Pg!Group

LEMMA ShownFacts ==
  ASSUME PanesInv, NEW p \in DOMAIN panes, NEW t \in panes[p].tabs, NEW a \in Pg!Shown(p, t)
  PROVE  IF Pg!Rest(p, t) = {} THEN a = NoTab ELSE a \in Pg!Rest(p, t)
<1>1. panes[p].active \in panes[p].tabs
  BY DEF PanesInv, Pg!PaneShowsItsTab
<1>2. QED
  BY <1>1 DEF Pg!Shown, Pg!Rest

LEMMA PanesInit == Pg!Init => PanesInv
<1> SUFFICES ASSUME NEW first \in PaneIds, NEW t \in Tabs \cup {NoTab},
                    panes = [p \in {first} |-> [tabs |-> {t} \ {NoTab}, active |-> t]],
                    focused = first
             PROVE  PanesInv
  BY DEF Pg!Init
<1>1. /\ DOMAIN panes = {first}
      /\ panes[first].tabs = {t} \ {NoTab}
      /\ panes[first].active = t
  OBVIOUS
<1>2. Pg!TypeOK
  <2>1. [tabs |-> {t} \ {NoTab}, active |-> t] \in Pg!Group
    BY DEF Pg!Group
  <2>2. panes \in [{first} -> Pg!Group]
    BY <2>1
  <2>3. QED
    BY <2>2 DEF Pg!TypeOK
<1>3. Pg!OnePanePerTab /\ Pg!PaneShowsItsTab /\ Pg!FocusIsLive
  BY <1>1 DEF Pg!OnePanePerTab, Pg!PaneShowsItsTab, Pg!FocusIsLive
<1>4. QED
  BY <1>2, <1>3 DEF PanesInv

(* What a step must show of the panes it leaves.                           *)
LEMMA PanesFit ==
  ASSUME NEW live \in SUBSET PaneIds, NEW tabs, NEW shown,
         \A q \in live : tabs[q] \subseteq Tabs /\ shown[q] \in Tabs \cup {NoTab},
         panes' = [q \in live |-> [tabs |-> tabs[q], active |-> shown[q]]],
         focused' \in live,
         \A q, r \in live : tabs[q] \cap tabs[r] # {} => q = r,
         \A q \in live : tabs[q] = {} => shown[q] = NoTab /\ live = {q},
         \A q \in live : tabs[q] # {} => shown[q] \in tabs[q]
  PROVE  PanesInv'
<1>1. /\ DOMAIN panes' = live
      /\ \A q \in live : panes'[q].tabs = tabs[q] /\ panes'[q].active = shown[q]
  OBVIOUS
<1>2. Pg!TypeOK'
  <2>1. \A q \in live : [tabs |-> tabs[q], active |-> shown[q]] \in Pg!Group
    BY DEF Pg!Group
  <2>2. panes' \in [live -> Pg!Group]
    BY <2>1
  <2>3. QED
    BY <2>2 DEF Pg!TypeOK
<1>3. Pg!OnePanePerTab' /\ Pg!FocusIsLive'
  BY <1>1 DEF Pg!OnePanePerTab, Pg!FocusIsLive
<1>4. Pg!PaneShowsItsTab'
  BY <1>1 DEF Pg!PaneShowsItsTab
<1>5. QED
  BY <1>2, <1>3, <1>4 DEF PanesInv

LEMMA OpenInv ==
  ASSUME PanesInv, NEW t \in Tabs, NEW p \in DOMAIN panes, Pg!Open(t, p)
  PROVE  PanesInv'
<1> DEFINE tabs == [q \in DOMAIN panes |-> IF q = p THEN panes[q].tabs \cup {t} ELSE panes[q].tabs]
           shown == [q \in DOMAIN panes |-> IF q = p THEN t ELSE panes[q].active]
<1> USE DEF PanesInv
<1>1. panes' = [q \in DOMAIN panes |-> [tabs |-> tabs[q], active |-> shown[q]]]
  <2>1. \A q \in DOMAIN panes : panes[q] = [tabs |-> panes[q].tabs, active |-> panes[q].active]
    BY PanesTyped DEF Pg!Group
  <2>2. panes' = [q \in DOMAIN panes |->
                    IF q = p THEN [tabs |-> panes[p].tabs \cup {t}, active |-> t]
                             ELSE panes[q]]
    BY PanesTyped DEF Pg!Open
  <2>3. QED
    BY <2>1, <2>2
<1>2. \A q \in DOMAIN panes : t \notin panes[q].tabs
  BY DEF Pg!Open, Pg!Opened
<1>3. \A q, r \in DOMAIN panes : tabs[q] \cap tabs[r] # {} => q = r
  BY <1>2 DEF Pg!OnePanePerTab
<1>4. /\ \A q \in DOMAIN panes : tabs[q] = {} => shown[q] = NoTab /\ DOMAIN panes = {q}
      /\ \A q \in DOMAIN panes : tabs[q] # {} => shown[q] \in tabs[q]
  BY DEF Pg!PaneShowsItsTab
<1>5. \A q \in DOMAIN panes : tabs[q] \subseteq Tabs /\ shown[q] \in Tabs \cup {NoTab}
  BY PanesTyped
<1>6. focused' \in DOMAIN panes
  BY DEF Pg!Open
<1> HIDE DEF tabs, shown
<1>7. QED
  BY <1>1, <1>3, <1>4, <1>5, <1>6, PanesFit, PanesTyped

LEMMA CloseInv ==
  ASSUME PanesInv, NEW t \in Tabs, Pg!Close(t)
  PROVE  PanesInv'
<1> USE DEF PanesInv
<1>1. PICK p \in DOMAIN panes :
        /\ t \in panes[p].tabs
        /\ LET live == IF Pg!Rest(p, t) = {} /\ DOMAIN panes # {p}
                       THEN DOMAIN panes \ {p} ELSE DOMAIN panes
           IN /\ \E a \in Pg!Shown(p, t) :
                   panes' = [q \in live |->
                               IF q = p THEN [tabs |-> Pg!Rest(p, t), active |-> a]
                                        ELSE panes[q]]
              /\ focused' \in live
              /\ focused \in live => focused' = focused
  BY DEF Pg!Close
<1> DEFINE L == IF Pg!Rest(p, t) = {} /\ DOMAIN panes # {p}
                THEN DOMAIN panes \ {p} ELSE DOMAIN panes
<1>2. PICK a \in Pg!Shown(p, t) :
        panes' = [q \in L |-> IF q = p THEN [tabs |-> Pg!Rest(p, t), active |-> a]
                                          ELSE panes[q]]
  BY <1>1
<1> DEFINE tabs == [q \in L |-> IF q = p THEN Pg!Rest(p, t) ELSE panes[q].tabs]
           shown == [q \in L |-> IF q = p THEN a ELSE panes[q].active]
<1>3. L \subseteq DOMAIN panes
  OBVIOUS
<1>4. panes' = [q \in L |-> [tabs |-> tabs[q], active |-> shown[q]]]
  <2>1. \A q \in DOMAIN panes : panes[q] = [tabs |-> panes[q].tabs, active |-> panes[q].active]
    BY PanesTyped DEF Pg!Group
  <2>2. QED
    BY <1>2, <1>3, <2>1
<1>5. \A q \in L : tabs[q] \subseteq panes[q].tabs
  BY <1>3 DEF Pg!Rest
<1>6. \A q, r \in L : tabs[q] \cap tabs[r] # {} => q = r
  BY <1>3, <1>5 DEF Pg!OnePanePerTab
<1>7. IF Pg!Rest(p, t) = {} THEN a = NoTab ELSE a \in Pg!Rest(p, t)
  BY <1>1, ShownFacts
<1>8. \A q \in L : IF tabs[q] = {} THEN shown[q] = NoTab /\ L = {q}
                                      ELSE shown[q] \in tabs[q]
  <2>1. ASSUME NEW q \in L, q = p
        PROVE  IF tabs[q] = {} THEN shown[q] = NoTab /\ L = {q}
                               ELSE shown[q] \in tabs[q]
    <3>1. tabs[q] = Pg!Rest(p, t) /\ shown[q] = a
      BY <2>1
    <3>2. Pg!Rest(p, t) = {} => L = {p}
      BY <2>1
    <3>3. QED
      BY <1>7, <2>1, <3>1, <3>2
  <2>2. ASSUME NEW q \in L, q # p
        PROVE  IF tabs[q] = {} THEN shown[q] = NoTab /\ L = {q}
                               ELSE shown[q] \in tabs[q]
    <3>1. tabs[q] = panes[q].tabs /\ shown[q] = panes[q].active
      BY <2>2
    <3>2. panes[q].tabs # {}
      BY <1>3, <2>2 DEF Pg!PaneShowsItsTab
    <3>3. QED
      BY <1>3, <3>1, <3>2 DEF Pg!PaneShowsItsTab
  <2>3. QED
    BY <2>1, <2>2
<1>9. \A q \in L : tabs[q] \subseteq Tabs /\ shown[q] \in Tabs \cup {NoTab}
  BY <1>3, <1>5, <1>7, PanesTyped DEF Pg!Rest
<1>10. focused' \in L /\ L \in SUBSET PaneIds
  <2>1. focused' \in L
    BY <1>1
  <2>2. QED
    BY <1>3, <2>1, PanesTyped
<1>11. /\ \A q \in L : tabs[q] = {} => shown[q] = NoTab /\ L = {q}
       /\ \A q \in L : tabs[q] # {} => shown[q] \in tabs[q]
  BY <1>8
<1> HIDE DEF tabs, shown, L
<1>12. QED
  BY <1>4, <1>6, <1>9, <1>10, <1>11, PanesFit

LEMMA MoveInv ==
  ASSUME PanesInv, NEW t \in Tabs, NEW dst \in PaneIds, Pg!Move(t, dst)
  PROVE  PanesInv'
<1> USE DEF PanesInv
<1> DEFINE there == IF dst \in DOMAIN panes THEN panes[dst].tabs ELSE {}
           live(p) == (DOMAIN panes \cup {dst}) \ (IF Pg!Rest(p, t) = {} THEN {p} ELSE {})
<1>0. PICK p \in DOMAIN panes :
        /\ t \in panes[p].tabs
        /\ dst # p
        /\ \E a \in Pg!Shown(p, t) :
             panes' = [q \in live(p) |->
                         CASE q = dst -> [tabs |-> there \cup {t}, active |-> t]
                           [] q = p   -> [tabs |-> Pg!Rest(p, t), active |-> a]
                           [] OTHER   -> panes[q]]
        /\ focused' = dst
  BY DEF Pg!Move
<1>1. PICK a \in Pg!Shown(p, t) :
        /\ t \in panes[p].tabs
        /\ dst # p
        /\ panes' = [q \in live(p) |->
                       CASE q = dst -> [tabs |-> there \cup {t}, active |-> t]
                         [] q = p   -> [tabs |-> Pg!Rest(p, t), active |-> a]
                         [] OTHER   -> panes[q]]
        /\ focused' = dst
  BY <1>0
<1> DEFINE L == live(p)
           tabs == [q \in L |-> IF q = dst THEN there \cup {t}
                                ELSE IF q = p THEN Pg!Rest(p, t) ELSE panes[q].tabs]
           shown == [q \in L |-> IF q = dst THEN t
                                 ELSE IF q = p THEN a ELSE panes[q].active]
<1>2. dst \in L /\ L \subseteq DOMAIN panes \cup {dst}
  BY <1>1
<1>3. panes' = [q \in L |-> [tabs |-> tabs[q], active |-> shown[q]]]
  <2>1. \A q \in DOMAIN panes : panes[q] = [tabs |-> panes[q].tabs, active |-> panes[q].active]
    BY PanesTyped DEF Pg!Group
  <2>2. QED
    BY <1>1, <1>2, <2>1
<1>4. \A q \in L : q # dst => /\ q \in DOMAIN panes
                              /\ tabs[q] \subseteq panes[q].tabs
                              /\ t \notin tabs[q]
  BY <1>1, <1>2 DEF Pg!Rest, Pg!OnePanePerTab
<1>5. /\ tabs[dst] = there \cup {t}
      /\ dst \in DOMAIN panes => tabs[dst] = panes[dst].tabs \cup {t}
      /\ dst \notin DOMAIN panes => tabs[dst] = {t}
  BY <1>2
<1>6. \A q, r \in L : tabs[q] \cap tabs[r] # {} => q = r
  <2>1. ASSUME NEW q \in L, NEW r \in L, q # dst, r # dst, tabs[q] \cap tabs[r] # {}
        PROVE  q = r
    BY <1>4, <2>1 DEF Pg!OnePanePerTab
  <2>2. ASSUME NEW q \in L, q # dst, tabs[q] \cap tabs[dst] # {}
        PROVE  FALSE
    <3>1. q \in DOMAIN panes /\ tabs[q] \subseteq panes[q].tabs /\ t \notin tabs[q]
      BY <1>4, <2>2
    <3>2. tabs[q] \cap there # {}
      BY <1>5, <2>2, <3>1
    <3>3. dst \in DOMAIN panes /\ panes[q].tabs \cap panes[dst].tabs # {}
      BY <3>1, <3>2
    <3>4. QED
      BY <2>2, <3>1, <3>3 DEF Pg!OnePanePerTab
  <2>3. QED
    BY <2>1, <2>2
<1>7. IF Pg!Rest(p, t) = {} THEN a = NoTab ELSE a \in Pg!Rest(p, t)
  BY <1>1, ShownFacts
<1>8. \A q \in L : tabs[q] # {} /\ shown[q] \in tabs[q]
  <2>1. tabs[dst] # {} /\ shown[dst] \in tabs[dst]
    BY <1>2, <1>5
  <2>2. ASSUME NEW q \in L, q # dst, q = p
        PROVE  tabs[q] # {} /\ shown[q] \in tabs[q]
    <3>1. Pg!Rest(p, t) # {}
      BY <2>2
    <3>2. tabs[q] = Pg!Rest(p, t) /\ shown[q] = a
      BY <2>2
    <3>3. QED
      BY <1>7, <3>1, <3>2
  <2>3. ASSUME NEW q \in L, q # dst, q # p
        PROVE  tabs[q] # {} /\ shown[q] \in tabs[q]
    <3>1. q \in DOMAIN panes /\ tabs[q] = panes[q].tabs /\ shown[q] = panes[q].active
      BY <1>2, <2>3
    <3>2. panes[q].tabs # {}
      BY <2>3, <3>1 DEF Pg!PaneShowsItsTab
    <3>3. QED
      BY <3>1, <3>2 DEF Pg!PaneShowsItsTab
  <2>4. QED
    BY <2>1, <2>2, <2>3
<1>9. \A q \in L : tabs[q] \subseteq Tabs /\ shown[q] \in Tabs \cup {NoTab}
  <2>1. tabs[dst] \subseteq Tabs
    BY <1>5, PanesTyped
  <2>2. \A q \in L : tabs[q] \subseteq Tabs
    BY <1>4, <2>1, PanesTyped
  <2>3. QED
    BY <1>8, <2>2
<1>10. focused' \in L /\ L \in SUBSET PaneIds
  BY <1>1, <1>2, PanesTyped
<1> HIDE DEF tabs, shown, L
<1>11. /\ \A q \in L : tabs[q] = {} => shown[q] = NoTab /\ L = {q}
       /\ \A q \in L : tabs[q] # {} => shown[q] \in tabs[q]
  BY <1>8
<1>12. QED
  BY <1>3, <1>6, <1>9, <1>10, <1>11, PanesFit

LEMMA SelectInv ==
  ASSUME PanesInv, NEW t \in Tabs, NEW p \in DOMAIN panes, Pg!Select(t, p)
  PROVE  PanesInv'
<1> DEFINE tabs == [q \in DOMAIN panes |-> panes[q].tabs]
           shown == [q \in DOMAIN panes |-> IF q = p THEN t ELSE panes[q].active]
<1> USE DEF PanesInv
<1>1. panes' = [q \in DOMAIN panes |-> [tabs |-> tabs[q], active |-> shown[q]]]
  <2>1. \A q \in DOMAIN panes : panes[q] = [tabs |-> panes[q].tabs, active |-> panes[q].active]
    BY PanesTyped DEF Pg!Group
  <2>2. panes' = [q \in DOMAIN panes |->
                    IF q = p THEN [tabs |-> panes[p].tabs, active |-> t] ELSE panes[q]]
    <3>1. [panes[p] EXCEPT !.active = t] = [tabs |-> panes[p].tabs, active |-> t]
      BY PanesTyped DEF Pg!Group
    <3>2. panes' = [panes EXCEPT ![p] = [panes[p] EXCEPT !.active = t]]
      BY PanesTyped DEF Pg!Select
    <3>3. QED
      BY <3>1, <3>2, PanesTyped
  <2>3. QED
    BY <2>1, <2>2
<1>2. \A q, r \in DOMAIN panes : tabs[q] \cap tabs[r] # {} => q = r
  BY DEF Pg!OnePanePerTab
<1>3. /\ \A q \in DOMAIN panes : tabs[q] = {} => shown[q] = NoTab /\ DOMAIN panes = {q}
      /\ \A q \in DOMAIN panes : tabs[q] # {} => shown[q] \in tabs[q]
  BY DEF Pg!PaneShowsItsTab, Pg!Select
<1>4. \A q \in DOMAIN panes : tabs[q] \subseteq Tabs /\ shown[q] \in Tabs \cup {NoTab}
  BY PanesTyped
<1>5. focused' \in DOMAIN panes
  BY DEF Pg!Select
<1> HIDE DEF tabs, shown
<1>6. QED
  BY <1>1, <1>2, <1>3, <1>4, <1>5, PanesFit, PanesTyped

LEMMA PanesStep == PanesInv /\ [Pg!Next]_(Pg!vars) => PanesInv'
<1> SUFFICES ASSUME PanesInv, [Pg!Next]_(Pg!vars) PROVE PanesInv'
  OBVIOUS
<1>1. ASSUME NEW t \in Tabs, NEW p \in DOMAIN panes, Pg!Open(t, p) \/ Pg!Select(t, p)
      PROVE  PanesInv'
  BY <1>1, OpenInv, SelectInv
<1>2. ASSUME NEW t \in Tabs, Pg!Close(t) PROVE PanesInv'
  BY <1>2, CloseInv
<1>3. ASSUME NEW t \in Tabs, NEW dst \in PaneIds, Pg!Move(t, dst) PROVE PanesInv'
  BY <1>3, MoveInv
<1>4. ASSUME NEW p \in DOMAIN panes, Pg!Focus(p) PROVE PanesInv'
  <2>1. panes' = panes /\ focused' = p /\ p \in PaneIds
    BY <1>4, PanesTyped DEF Pg!Focus, PanesInv
  <2>2. QED
    BY <2>1, <1>4 DEF PanesInv, Pg!TypeOK, Pg!OnePanePerTab, Pg!PaneShowsItsTab, Pg!FocusIsLive
<1>5. CASE UNCHANGED Pg!vars
  BY <1>5 DEF Pg!vars, PanesInv, Pg!TypeOK, Pg!OnePanePerTab, Pg!PaneShowsItsTab, Pg!FocusIsLive
<1>6. QED
  BY <1>1, <1>2, <1>3, <1>4, <1>5 DEF Pg!Next

(* The panes partition the open tabs, none is empty beside others, each    *)
(* shows a tab of its own, and the pane with the focus exists.             *)
THEOREM PanesAreSound ==
  Pg!Spec => [](Pg!OnePanePerTab /\ Pg!PaneShowsItsTab /\ Pg!FocusIsLive)
<1>1. PanesInv => Pg!OnePanePerTab /\ Pg!PaneShowsItsTab /\ Pg!FocusIsLive
  BY DEF PanesInv
<1>2. QED
  BY <1>1, PanesInit, PanesStep, PTL DEF Pg!Spec

(* Type correctness.                                                       *)
THEOREM PanesTypeCorrect == Pg!Spec => []Pg!TypeOK
<1>1. PanesInv => Pg!TypeOK
  BY DEF PanesInv
<1>2. QED
  BY <1>1, PanesInit, PanesStep, PTL DEF Pg!Spec
=============================================================================
