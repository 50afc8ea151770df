-------------------------- MODULE SshSession_proofs --------------------------
(***************************************************************************)
(* What an SSH session does besides its shell: its port forwards, then the *)
(* host keys it trusts.  A connection through a forward leads where the    *)
(* forward says, for every list of forwards whose remote ones have         *)
(* different ports; host keys are kept and asked about in order, for every *)
(* number of connections, hosts and keys.                                  *)
(***************************************************************************)
EXTENDS Forwards, HostKeys, TLAPS

-----------------------------------------------------------------------------
(* Port forwards *)

(* The handler's map gives a remote forward its own target. *)
LEMMA MapHoldsTarget ==
  ASSUME NEW f \in F, Kind(f) = "remote"
  PROVE  RemoteTarget(Forward[f].port) = Forward[f].target
<1> DEFINE R == Remote(Forward[f].port)
<1>1. f \in R BY DEF Remote, Kind
<1>2. ASSUME NEW g \in R PROVE g = f
  <2>1. Forward[f].kind = "remote" BY DEF Kind
  <2>2. g \in F BY DEF Remote
  <2> QED BY <2>1, <2>2, ForwardAssumption
<1>3. f \in Nat BY ForwardAssumption
<1>4. \A g \in R : g <= f
  <2>1. f <= f BY <1>3
  <2> QED BY <1>2, <2>1
<1>5. (CHOOSE g \in R : \A h \in R : h <= g) \in R BY <1>1, <1>4
<1>6. (CHOOSE g \in R : \A h \in R : h <= g) = f BY <1>2, <1>5
<1>7. R # {} BY <1>1
<1> QED BY <1>6, <1>7 DEF RemoteTarget

(* A remote forward has no listener here, a local one is not asked for. *)
ListenerKinds ==
  \A f \in F :
    /\ listen[f] \in {"binding", "listening"} => Kind(f) # "remote"
    /\ listen[f] = "asked" => Kind(f) = "remote"

(* With it the types and RightTarget are inductive: the target of a connection is
   set when it comes in, by a listener or by the server. *)
FwdInv == Types /\ ListenerKinds /\ RightTarget

(* What comes in is a connection. *)
LEMMA CameIsConnection ==
  ASSUME NEW f \in F, NEW target \in Targets, NEW state \in {"greeting", "opening", "done"}
  PROVE  Came(f, state, target) \in Connection
BY DEF Came, Connection

LEMMA FwdInitHolds == FwdInit => FwdInv
<1> SUFFICES ASSUME FwdInit PROVE FwdInv OBVIOUS
<1>1. \A c \in Conn : conn[c] = Idle BY DEF FwdInit
<1>2. NoTarget \in Targets BY DEF Targets
<1>3. Idle \in Connection BY <1>2 DEF Idle, Connection
<1>4. Types BY <1>3 DEF FwdInit, Types
<1>5. RightTarget BY <1>1 DEF RightTarget, Idle
<1>6. ListenerKinds BY DEF FwdInit, ListenerKinds
<1> QED BY <1>4, <1>5, <1>6 DEF FwdInv

LEMMA FwdStepHolds ==
  ASSUME FwdInv, [FwdNext]_fwdVars
  PROVE  FwdInv'
<1> USE DEF FwdInv
<1>1. ASSUME AskRemote \/ SpawnListeners \/ LeavePump \/ DisconnectServer \/ LoseLink
      PROVE FwdInv'
  <2>1. Types'
    <3>1. CASE AskRemote BY <3>1, ForwardAssumption DEF Types, AskRemote
    <3>2. CASE SpawnListeners BY <3>2 DEF Types, SpawnListeners
    <3>3. CASE LeavePump BY <3>3 DEF Types, LeavePump, AbortListeners
    <3>4. CASE DisconnectServer BY <3>4 DEF Types, DisconnectServer
    <3>5. CASE LoseLink BY <3>5 DEF Types, LoseLink
    <3> QED BY <1>1, <3>1, <3>2, <3>3, <3>4, <3>5
  <2>2. UNCHANGED conn
    BY <1>1 DEF AskRemote, SpawnListeners, LeavePump, DisconnectServer, LoseLink
  <2>3. ListenerKinds'
    BY <1>1 DEF Types, ListenerKinds, AskRemote, SpawnListeners, LeavePump,
                DisconnectServer, LoseLink, Kind
  <2> QED BY <2>1, <2>2, <2>3 DEF RightTarget
<1>2. ASSUME NEW f \in F, Bind(f) \/ AcceptFails(f) \/ ListenerEnds(f)
      PROVE FwdInv'
  <2>1. Types' BY <1>2 DEF Types, Bind, AcceptFails, ListenerEnds
  <2>2. UNCHANGED conn BY <1>2 DEF Bind, AcceptFails, ListenerEnds
  <2>3. ListenerKinds'
    BY <1>2 DEF Types, ListenerKinds, Bind, AcceptFails, ListenerEnds, Kind
  <2> QED BY <2>1, <2>2, <2>3 DEF RightTarget
<1>3. ASSUME NEW f \in F, NEW c \in Conn, Accept(f, c)
      PROVE FwdInv'
  <2>1. Kind(f) # "remote"
    <3>1. listen[f] = "listening" BY <1>3 DEF Accept
    <3> QED BY <3>1 DEF ListenerKinds
  <2>2. Kind(f) \in {"local", "dynamic"} BY <2>1, ForwardAssumption DEF Kind
  <2>3. Forward[f].target \in Targets /\ NoTarget \in Targets BY DEF Targets
  <2>4. PICK new : /\ conn' = [conn EXCEPT ![c] = new]
                   /\ new = Came(f, "greeting", NoTarget) \/ new = Came(f, "opening", Forward[f].target)
                   /\ Kind(f) = "local" => new = Came(f, "opening", Forward[f].target)
    <3>1. CASE Kind(f) = "local" BY <1>3, <3>1 DEF Accept
    <3>2. CASE Kind(f) # "local" BY <1>3, <3>2 DEF Accept
    <3> QED BY <3>1, <3>2
  <2>5. new \in Connection BY <2>3, <2>4, CameIsConnection
  <2>6. new.fwd = f /\ (Kind(f) = "local" => new.target = Forward[f].target)
    <3>1. \A state, target : Came(f, state, target).fwd = f
                             /\ Came(f, state, target).target = target
      BY DEF Came
    <3> QED BY <2>4, <3>1
  <2>7. UNCHANGED <<pump, next, link, listen, aborted>> BY <1>3 DEF Accept
  <2>8. Types' BY <2>4, <2>5, <2>7 DEF Types
  <2>9. RightTarget' BY <2>2, <2>4, <2>6 DEF RightTarget, Types
  <2> QED BY <2>7, <2>8, <2>9 DEF ListenerKinds
<1>4. ASSUME NEW f \in F, NEW c \in Conn, RemoteChannel(f, c)
      PROVE FwdInv'
  <2>1. Kind(f) = "remote" BY <1>4 DEF RemoteChannel, ListenerKinds
  <2>2. RemoteTarget(Forward[f].port) = Forward[f].target BY <2>1, MapHoldsTarget
  <2>3. Forward[f].target \in Targets BY DEF Targets
  <2>4. PICK state \in {"done", "opening"} :
          conn' = [conn EXCEPT ![c] = Came(f, state, Forward[f].target)]
    BY <1>4, <2>2 DEF RemoteChannel
  <2> DEFINE new == Came(f, state, Forward[f].target)
  <2>5. new \in Connection BY <2>3 DEF Came, Connection
  <2>6. new.fwd = f /\ new.target = Forward[f].target BY DEF Came
  <2>7. UNCHANGED <<pump, next, link, listen, aborted>> BY <1>4 DEF RemoteChannel
  <2>8. Types' BY <2>4, <2>5, <2>7 DEF Types
  <2>9. RightTarget' BY <2>4, <2>6 DEF RightTarget, Types
  <2> QED BY <2>7, <2>8, <2>9 DEF ListenerKinds
<1>5. ASSUME NEW c \in Conn,
             ClientAsks(c) \/ TargetAnswers(c) \/ NearEnds(c) \/ FarEnds(c)
               \/ SpliceBreaks(c) \/ SpliceEnds(c)
      PROVE FwdInv'
  <2>1. UNCHANGED <<pump, next, link, listen, aborted>>
    BY <1>5 DEF ClientAsks, TargetAnswers, NearEnds, FarEnds, SpliceBreaks, SpliceEnds
  <2>2. conn[c].state # "none"
    BY <1>5 DEF ClientAsks, TargetAnswers, NearEnds, FarEnds, SpliceBreaks, SpliceEnds
  <2>3. PICK new \in Connection :
          /\ conn' = [conn EXCEPT ![c] = new]
          /\ new.fwd = conn[c].fwd /\ new.target = conn[c].target
    <3> DEFINE old == conn[c]
               As(state) == [old EXCEPT !.state = state]
    <3>1. old \in Connection BY DEF Types
    <3>2. \A state \in {"opening", "spliced", "done"} :
            As(state) \in Connection /\ As(state).fwd = old.fwd /\ As(state).target = old.target
      BY <3>1 DEF Connection
    <3>3. CASE \E state \in {"opening", "spliced", "done"} : conn' = [conn EXCEPT ![c] = As(state)]
      BY <3>2, <3>3
    <3>4. CASE NearEnds(c) \/ FarEnds(c)
      <4> DEFINE Ended(s) == /\ s \in Connection
                             /\ s.fwd = old.fwd /\ s.target = old.target
      <4>1. Ended([old EXCEPT !.near = FALSE]) /\ Ended([old EXCEPT !.far = FALSE])
        BY <3>1 DEF Connection
      <4> QED BY <3>4, <4>1 DEF NearEnds, FarEnds
    <3> QED BY <1>5, <3>3, <3>4 DEF State, ClientAsks, TargetAnswers, SpliceBreaks, SpliceEnds
  <2>4. Types' BY <2>1, <2>3 DEF Types
  <2>5. RightTarget' BY <2>2, <2>3 DEF RightTarget, Types
  <2> QED BY <2>1, <2>4, <2>5 DEF ListenerKinds
<1>6. CASE UNCHANGED fwdVars
  BY <1>6 DEF fwdVars, Types, ListenerKinds, RightTarget
<1> QED BY <1>1, <1>2, <1>3, <1>4, <1>5, <1>6 DEF FwdNext

(* In every behaviour, connections lead where the forward they came in by says. *)
THEOREM TargetsAreRight == FwdSpec => []RightTarget
<1>1. FwdInv => RightTarget BY DEF FwdInv
<1>2. FwdInv /\ [FwdNext]_fwdVars => FwdInv' BY FwdStepHolds
<1> QED BY FwdInitHolds, <1>1, <1>2, PTL DEF FwdSpec

-----------------------------------------------------------------------------
(* Host keys *)

USE AbortableAssumption, HostOfAssumption, KeysOfAssumption, NoKeyAssumption

Answers == {"accepted", "refused"}

(* What answering does to the phases, and what Forgets leaves typed.       *)
LEMMA RespondKeepsTypes ==
  ASSUME TypeOK, NEW cs, NEW answer \in Answers, Respond(cs, answer)
  PROVE  phase' \in [Connections -> Phases]
BY DEF TypeOK, Respond, Answers, Phases

LEMMA StoreFacts ==
  /\ EmptyStore \in Store
  /\ \A s \in Store, h \in Hosts, k \in Keys : [s EXCEPT ![h] = k] \in Store
  /\ Undecided \in [Hosts -> {"undecided", "accepted", "refused"}]
BY DEF EmptyStore, Store, Undecided

LEMMA ForgetsKeepsTypes ==
  ASSUME TypeOK, NEW c \in Connections, Forgets(c)
  PROVE  /\ key' \in [Connections -> Keys \cup {NoKey}]
         /\ seenChanged' \in [Connections -> BOOLEAN]
         /\ snap' \in [Connections -> Store]
BY StoreFacts DEF TypeOK, Forgets

LEMMA LoadedType == TypeOK => Loaded \in Store
BY StoreFacts DEF TypeOK, Loaded

(* A connection has its key from its question to the end of remember(), or *)
(* for good once aborted.                                                  *)
HasKey ==
  \A c \in Connections :
    phase[c] \in {"asking", "accepted", "loaded", "writing", "aborted"}
    => key[c] \in Keys

(* An entry of the queue for a connection in flight is typed.              *)
LEMMA PromptType ==
  ASSUME TypeOK, NEW c \in Connections, key[c] \in Keys
  PROVE  PromptOf(c) \in Prompt
BY DEF TypeOK, PromptOf, Prompt

LEMMA ShowFrontType ==
  ASSUME NEW q \in Seq(Pending), ShowFront(q)
  PROVE  dialog' \in Seq(Prompt)
<1>1. CASE q = <<>>
  BY <1>1 DEF ShowFront
<1>2. CASE q # <<>>
  <2>1. Head(q) \in Pending
    BY <1>2
  <2>2. Head(q).prompt \in Prompt
    BY <2>1 DEF Pending
  <2>3. QED
    BY <1>2, <2>2 DEF ShowFront
<1>3. QED
  BY <1>1, <1>2

(* A responder is on its way to the UI or in one entry, that of its host,  *)
(* and its connection is asking or was aborted since; and whoever is       *)
(* asking has one.                                                         *)
OwedInv ==
  \A c \in Connections :
    /\ c \in inFlight \/ Holders(c) # {} => phase[c] \in {"asking", "aborted"}
    /\ phase[c] = "asking" => c \in inFlight \/ Holders(c) # {}
    /\ ~(c \in inFlight /\ Holders(c) # {})
    /\ \A i, j \in Holders(c) : i = j
    /\ \A i \in Holders(c) : queue[i].prompt.host = HostOf[c]

(* No reject is ever remembered.                                           *)
NeverRefused == \A h \in Hosts : decided[h] # "refused"

TInv == TypeOK /\ HasKey /\ OwedInv /\ NeverRefused

LEMMA TInvInit == Init => TInv
<1> SUFFICES ASSUME Init PROVE TInv
  OBVIOUS
<1>1. TypeOK
  <2>1. snap \in [Connections -> Store] /\ decided \in [Hosts -> {"undecided", "accepted", "refused"}]
    BY StoreFacts DEF Init
  <2>2. queue \in Seq(Pending) /\ dialog \in Seq(Prompt)
    BY DEF Init
  <2>3. QED
    BY <2>1, <2>2 DEF Init, TypeOK, Phases
<1>2. HasKey
  BY DEF Init, HasKey
<1> USE DEF Undecided
<1>5. NeverRefused
  BY DEF Init, NeverRefused
<1>3. OwedInv
  <2>1. \A c \in Connections : Holders(c) = {}
    BY DEF Init, Holders
  <2>2. QED
    BY <2>1 DEF Init, OwedInv
<1>4. QED
  BY <1>1, <1>2, <1>3, <1>5 DEF TInv

(* Steps that touch neither the prompts in flight nor the queue, and only  *)
(* move connections nobody owes an answer, or abort one.                   *)
Quiet ==
  /\ UNCHANGED <<inFlight, queue, dialog, decided>>
  /\ \A d \in Connections :
       \/ phase'[d] = phase[d]
       \/ phase[d] \notin {"asking", "aborted"} /\ phase'[d] # "asking"
       \/ phase[d] = "asking" /\ phase'[d] = "aborted"

LEMMA QuietKeepsOwed ==
  ASSUME TInv, Quiet
  PROVE  OwedInv' /\ NeverRefused'
<1>1. \A d \in Connections : Holders(d)' = Holders(d)
  BY DEF Quiet, Holders
<1>2. OwedInv'
  BY <1>1 DEF TInv, Quiet, OwedInv
<1>3. QED
  BY <1>2 DEF TInv, Quiet, NeverRefused

(* The connection's own steps but the one that asks.                       *)
LEMMA TInvOwnStep ==
  ASSUME TInv, NEW c \in Connections,
         \/ \E k \in Keys : VerifyHostKey(c, k) /\ TrustsSilently(c, k)
         \/ RememberLoads(c) \/ RememberTruncates(c)
         \/ RememberWrites(c) \/ RememberFails(c)
         \/ ConnectsAgain(c) \/ Aborts(c)
  PROVE  TInv'
<1> USE DEF TInv, fileVars, uiVars
<1>1. ASSUME NEW k \in Keys, VerifyHostKey(c, k), TrustsSilently(c, k)
      PROVE  TypeOK' /\ HasKey' /\ Quiet
  BY <1>1 DEF VerifyHostKey, TrustsSilently, TypeOK, Phases, HasKey, Quiet
<1>2. CASE RememberLoads(c)
  <2>1. TypeOK'
    BY <1>2, LoadedType DEF RememberLoads, TypeOK, Phases
  <2>2. HasKey' /\ Quiet
    BY <1>2 DEF RememberLoads, TypeOK, HasKey, Quiet
  <2>3. QED
    BY <2>1, <2>2, QuietKeepsOwed
<1>3. CASE RememberTruncates(c)
  <2>1. TypeOK' /\ HasKey' /\ Quiet
    BY <1>3 DEF RememberTruncates, TypeOK, Phases, HasKey, Quiet
  <2>2. QED
    BY <2>1, QuietKeepsOwed
<1>4. CASE RememberWrites(c)
  <2>1. key[c] \in Keys
    BY <1>4 DEF RememberWrites, HasKey
  <2>2. file' \in Store
    BY <1>4, <2>1, StoreFacts DEF RememberWrites, TypeOK
  <2>3. TypeOK'
    BY <1>4, <2>2, ForgetsKeepsTypes DEF RememberWrites, TypeOK, Phases
  <2>4. HasKey' /\ Quiet
    BY <1>4 DEF RememberWrites, Forgets, TypeOK, HasKey, Quiet
  <2>5. QED
    BY <2>3, <2>4, QuietKeepsOwed
<1>5. CASE RememberFails(c)
  <2>4. file' \in Store /\ torn' \in BOOLEAN
    <3>1. snap[c] \in Store /\ file \in Store
      BY DEF TypeOK
    <3>2. \A kept \in SUBSET Hosts : CutOff(snap[c], kept) \in Store
      BY <3>1 DEF CutOff, Store
    <3>3. QED
      BY <1>5, <3>1, <3>2 DEF RememberFails, TypeOK
  <2>1. TypeOK'
    BY <1>5, <2>4, ForgetsKeepsTypes DEF RememberFails, TypeOK, Phases
  <2>2. HasKey' /\ Quiet
    BY <1>5 DEF RememberFails, Forgets, TypeOK, HasKey, Quiet
  <2>3. QED
    BY <2>1, <2>2, QuietKeepsOwed
<1>6. CASE ConnectsAgain(c)
  <2>1. TypeOK'
    BY <1>6, ForgetsKeepsTypes DEF ConnectsAgain, TypeOK, Phases
  <2>2. HasKey' /\ Quiet
    BY <1>6 DEF ConnectsAgain, Forgets, TypeOK, HasKey, Quiet
  <2>3. QED
    BY <2>1, <2>2, QuietKeepsOwed
<1>7. CASE Aborts(c)
  <2>1. TypeOK'
    BY <1>7 DEF Aborts, TypeOK, Phases
  <2>2. HasKey' /\ Quiet
    BY <1>7 DEF Aborts, TypeOK, HasKey, Quiet
  <2>3. QED
    BY <2>1, <2>2, QuietKeepsOwed
<1>8. QED
  BY <1>1, <1>2, <1>3, <1>4, <1>5, <1>6, <1>7, QuietKeepsOwed

LEMMA TInvAsks ==
  ASSUME TInv, NEW c \in Connections, NEW k \in Keys, VerifyHostKey(c, k),
         AsksUser(c, k)
  PROVE  TInv'
<1> USE DEF TInv, fileVars, uiVars
<1>1. seenChanged' \in [Connections -> BOOLEAN]
  BY DEF AsksUser, TypeOK
<1>2. phase' \in [Connections -> Phases]
  BY DEF AsksUser, TypeOK, Phases
<1>3. TypeOK'
  BY <1>1, <1>2 DEF VerifyHostKey, AsksUser, TypeOK
<1>4. HasKey'
  BY DEF VerifyHostKey, AsksUser, TypeOK, HasKey
<1>5. \A d \in Connections : Holders(d)' = Holders(d)
  BY DEF VerifyHostKey, Holders
<1>6. c \notin inFlight /\ Holders(c) = {}
  BY DEF VerifyHostKey, OwedInv
<1>7. OwedInv'
  BY <1>5, <1>6 DEF VerifyHostKey, AsksUser, TypeOK, OwedInv
<1>8. NeverRefused'
  BY DEF VerifyHostKey, NeverRefused
<1>9. QED
  BY <1>3, <1>4, <1>7, <1>8

LEMMA TInvAnswers ==
  ASSUME TInv, NEW c \in Connections, EnqueueHostkeyPrompt(c),
         AnswersFromThisRun(c, HostOf[c])
  PROVE  TInv'
<1> USE DEF TInv
<1>1. decided[HostOf[c]] = "accepted"
  BY DEF AnswersFromThisRun, TypeOK, NeverRefused
<1>2. phase' \in [Connections -> Phases]
  BY <1>1, RespondKeepsTypes DEF AnswersFromThisRun, Answers
<1>3. \A d \in Connections :
        phase'[d] = IF d = c /\ phase[d] = "asking" THEN "accepted" ELSE phase[d]
  BY <1>1 DEF AnswersFromThisRun, Respond
<1>4. TypeOK'
  BY <1>2 DEF AnswersFromThisRun, EnqueueHostkeyPrompt, fileVars, TypeOK
<1>5. HasKey'
  BY <1>3 DEF EnqueueHostkeyPrompt, HasKey
<1>6. \A d \in Connections : Holders(d)' = Holders(d)
  BY DEF AnswersFromThisRun, Holders
<1>7. c \in inFlight /\ inFlight' = inFlight \ {c} /\ Holders(c) = {}
  BY DEF EnqueueHostkeyPrompt, OwedInv
<1>8. OwedInv'
  BY <1>3, <1>6, <1>7 DEF AnswersFromThisRun, OwedInv
<1>9. NeverRefused'
  BY DEF EnqueueHostkeyPrompt, NeverRefused
<1>10. QED
  BY <1>4, <1>5, <1>8, <1>9

LEMMA TInvMerges ==
  ASSUME TInv, NEW c \in Connections, EnqueueHostkeyPrompt(c),
         MergesInto(c, HostOf[c])
  PROVE  TInv'
<1> USE DEF TInv
<1>1. PICK i \in DOMAIN queue :
         /\ queue[i].prompt.host = HostOf[c]
         /\ queue' = [queue EXCEPT ![i].responders = @ \cup {c}]
  BY DEF MergesInto, QueuedFor
<1>2. queue[i] \in Pending
  BY DEF TypeOK
<1>3. [queue[i] EXCEPT !.responders = @ \cup {c}] \in Pending
  BY <1>2 DEF Pending
<1>4. queue' \in Seq(Pending)
  BY <1>1, <1>3 DEF TypeOK
<1>5. TypeOK'
  BY <1>4 DEF MergesInto, EnqueueHostkeyPrompt, fileVars, TypeOK
<1>6. HasKey' /\ NeverRefused'
  BY DEF MergesInto, EnqueueHostkeyPrompt, HasKey, NeverRefused
<1>7. /\ DOMAIN queue' = DOMAIN queue
      /\ \A j \in DOMAIN queue : queue'[j].prompt = queue[j].prompt
      /\ \A j \in DOMAIN queue :
           queue'[j].responders =
             IF j = i THEN queue[j].responders \cup {c} ELSE queue[j].responders
  BY <1>1, <1>2 DEF TypeOK, Pending
<1>8. \A d \in Connections : Holders(d)' = IF d = c THEN Holders(d) \cup {i} ELSE Holders(d)
  BY <1>7 DEF Holders
<1>9. c \in inFlight /\ inFlight' = inFlight \ {c} /\ Holders(c) = {}
  BY DEF EnqueueHostkeyPrompt, OwedInv
<1>10. Holders(c)' = {i} /\ queue'[i].prompt.host = HostOf[c]
  BY <1>1, <1>7, <1>8, <1>9
<1>11. \A d \in Connections : Holders(d) \subseteq DOMAIN queue
  BY DEF Holders
<1>12. OwedInv'
  BY <1>7, <1>8, <1>9, <1>10, <1>11 DEF MergesInto, OwedInv
<1>13. QED
  BY <1>5, <1>6, <1>12

LEMMA TInvQueues ==
  ASSUME TInv, NEW c \in Connections, EnqueueHostkeyPrompt(c),
         Queues(c, HostOf[c])
  PROVE  TInv'
<1> USE DEF TInv
<1> DEFINE e == [prompt |-> PromptOf(c), responders |-> {c}]
<1>1. key[c] \in Keys
  BY DEF EnqueueHostkeyPrompt, OwedInv, HasKey
<1>2. e \in Pending
  BY <1>1, PromptType DEF Pending
<1>3. queue' \in Seq(Pending)
  BY <1>2 DEF Queues, TypeOK
<1>4. dialog' \in Seq(Prompt)
  BY <1>3, ShowFrontType DEF Queues, TypeOK
<1>5. TypeOK'
  BY <1>3, <1>4 DEF Queues, EnqueueHostkeyPrompt, fileVars, TypeOK
<1>6. HasKey' /\ NeverRefused'
  BY DEF Queues, EnqueueHostkeyPrompt, HasKey, NeverRefused
<1> DEFINE n == Len(queue)
<1>7. /\ n \in Nat
      /\ DOMAIN queue = 1 .. n
      /\ DOMAIN queue' = 1 .. (n + 1)
      /\ \A j \in 1 .. n : queue'[j] = queue[j]
      /\ queue'[n + 1] = e
  BY <1>2 DEF Queues, TypeOK
<1>8. \A d \in Connections :
        Holders(d)' = IF d = c THEN Holders(d) \cup {n + 1} ELSE Holders(d)
  BY <1>7 DEF Holders
<1>9. c \in inFlight /\ inFlight' = inFlight \ {c} /\ Holders(c) = {}
  BY DEF EnqueueHostkeyPrompt, OwedInv
<1>10. Holders(c)' = {n + 1} /\ queue'[n + 1].prompt.host = HostOf[c]
  BY <1>7, <1>8, <1>9 DEF PromptOf
<1>11. \A d \in Connections : Holders(d) \subseteq 1 .. n
  BY <1>7 DEF Holders
<1>12. OwedInv'
  BY <1>7, <1>8, <1>9, <1>10, <1>11 DEF Queues, OwedInv
<1>13. QED
  BY <1>5, <1>6, <1>12
(* Answering the front prompt.  Every entry moves up by one.               *)
LEMMA TInvResolve ==
  ASSUME TInv, NEW answer \in Answers, ResolveFrontHostkey(answer),
         DialogShowsFront
  PROVE  TInv'
<1> USE DEF TInv
<1> DEFINE n == Len(queue)
<1>1. queue # <<>>
  BY DEF ResolveFrontHostkey, DialogShowsFront
<1>2. /\ n \in Nat \ {0}
      /\ DOMAIN queue = 1 .. n
      /\ Head(queue) = queue[1]
      /\ Head(queue) \in Pending
      /\ queue' \in Seq(Pending)
      /\ DOMAIN queue' = 1 .. (n - 1)
      /\ \A j \in 1 .. (n - 1) : queue'[j] = queue[j + 1]
  BY <1>1 DEF ResolveFrontHostkey, TypeOK
<1>3. phase' \in [Connections -> Phases]
  BY RespondKeepsTypes DEF ResolveFrontHostkey
<1>4. dialog' \in Seq(Prompt)
  BY <1>2, ShowFrontType DEF ResolveFrontHostkey
<1>5. /\ decided' \in [Hosts -> {"undecided", "accepted", "refused"}]
      /\ NeverRefused'
  BY DEF ResolveFrontHostkey, RemembersAnswer, TypeOK, NeverRefused
<1>6. TypeOK'
  BY <1>2, <1>3, <1>4, <1>5 DEF ResolveFrontHostkey, fileVars, TypeOK
<1>7. \A d \in Connections :
        phase'[d] = IF 1 \in Holders(d) /\ phase[d] = "asking" THEN answer
                                                               ELSE phase[d]
  BY <1>2 DEF ResolveFrontHostkey, Respond, Holders
<1>8. HasKey'
  BY <1>7 DEF ResolveFrontHostkey, HasKey, Answers
<1>9. \A d \in Connections :
        Holders(d)' = {j \in 1 .. (n - 1) : j + 1 \in Holders(d)}
  BY <1>2 DEF Holders
<1>10. \A d \in Connections : Holders(d) \subseteq 1 .. n
  BY <1>2 DEF Holders
<1>11. ASSUME NEW d \in Connections, 1 \in Holders(d)
       PROVE  Holders(d)' = {} /\ d \notin inFlight /\ phase'[d] # "asking"
  <2>1. \A i \in Holders(d) : i = 1
    BY <1>11 DEF OwedInv
  <2>2. QED
    BY <1>7, <1>9, <1>11, <2>1 DEF OwedInv, Answers
<1>12. ASSUME NEW d \in Connections, 1 \notin Holders(d)
       PROVE  /\ phase'[d] = phase[d]
              /\ Holders(d)' # {} <=> Holders(d) # {}
  <2>1. \A i \in Holders(d) : i - 1 \in Holders(d)'
    BY <1>9, <1>10, <1>12
  <2>2. QED
    BY <1>7, <1>9, <1>12, <2>1
<1>13. \A d \in Connections : \A i \in Holders(d)' :
         i + 1 \in Holders(d) /\ queue'[i].prompt = queue[i + 1].prompt
  BY <1>2, <1>9
<1>14. \A d \in Connections :
         /\ \A i, j \in Holders(d)' : i = j
         /\ \A i \in Holders(d)' : queue'[i].prompt.host = HostOf[d]
  <2>1. \A d \in Connections : \A i, j \in Holders(d)' : i + 1 = j + 1 /\ i \in Nat /\ j \in Nat
    BY <1>9, <1>13 DEF OwedInv
  <2>2. \A d \in Connections : \A i \in Holders(d)' : queue'[i].prompt.host = HostOf[d]
    BY <1>13 DEF OwedInv
  <2>3. QED
    BY <2>1, <2>2
<1>15. inFlight' = inFlight
  BY DEF ResolveFrontHostkey
<1>16. ASSUME NEW d \in Connections
       PROVE  /\ d \in inFlight' \/ Holders(d)' # {} => phase'[d] \in {"asking", "aborted"}
              /\ phase'[d] = "asking" => d \in inFlight' \/ Holders(d)' # {}
              /\ ~(d \in inFlight' /\ Holders(d)' # {})
  BY <1>11, <1>12, <1>15 DEF OwedInv
<1>17. OwedInv'
  BY <1>14, <1>16 DEF OwedInv
<1>18. QED
  BY <1>5, <1>6, <1>8, <1>17

LEMMA TInvRestart ==
  ASSUME TInv, Restart
  PROVE  TInv'
<1> USE DEF TInv
<1>1. TypeOK'
  <2>1. /\ file' \in Store
        /\ snap' \in [Connections -> Store]
        /\ decided' \in [Hosts -> {"undecided", "accepted", "refused"}]
    BY StoreFacts, LoadedType DEF Restart
  <2>2. queue' \in Seq(Pending) /\ dialog' \in Seq(Prompt)
    BY DEF Restart
  <2>3. QED
    BY <2>1, <2>2 DEF Restart, TypeOK, Phases
<1>2. HasKey' /\ NeverRefused'
  BY DEF Restart, HasKey, NeverRefused, Undecided
<1>3. \A c \in Connections : Holders(c)' = {}
  BY DEF Restart, Holders
<1>4. OwedInv'
  BY <1>3 DEF Restart, OwedInv
<1>5. QED
  BY <1>1, <1>2, <1>4

-----------------------------------------------------------------------------
(* The dialog and the queue.                                               *)

PromptInv == DialogShowsFront /\ OneDialogPerHost

LEMMA PromptInvEnqueue ==
  ASSUME TInv, TInv', PromptInv, NEW c \in Connections, EnqueueHostkeyPrompt(c)
  PROVE  PromptInv'
<1> USE DEF TInv, PromptInv
<1> DEFINE n == Len(queue)
<1>1. /\ n \in Nat
      /\ DOMAIN queue = 1 .. n
      /\ \A j \in 1 .. n : queue[j] \in Pending
      /\ queue # <<>> => n # 0 /\ Head(queue) = queue[1]
  BY DEF TypeOK
<1>2. decided' = decided
  BY DEF EnqueueHostkeyPrompt
<1>3. CASE AnswersFromThisRun(c, HostOf[c])
  BY <1>2, <1>3 DEF AnswersFromThisRun, DialogShowsFront, OneDialogPerHost
<1>4. CASE MergesInto(c, HostOf[c])
  <2>1. PICK i \in DOMAIN queue :
           queue' = [queue EXCEPT ![i].responders = @ \cup {c}]
    BY <1>4 DEF MergesInto, QueuedFor
  <2>2. /\ DOMAIN queue' = DOMAIN queue
        /\ \A j \in DOMAIN queue : queue'[j].prompt = queue[j].prompt
    BY <1>1, <2>1 DEF Pending
  <2>3. OneDialogPerHost'
    BY <1>2, <2>2 DEF OneDialogPerHost
  <2>4. /\ Len(queue') = n
        /\ queue' # <<>> /\ queue # <<>>
        /\ Head(queue') = queue'[1]
    BY <1>1, <2>1, <2>2 DEF TypeOK
  <2>5. DialogShowsFront'
    <3>1. Head(queue').prompt = Head(queue).prompt
      BY <1>1, <2>2, <2>4
    <3>2. QED
      BY <1>4, <2>4, <3>1 DEF MergesInto, DialogShowsFront
  <2>6. QED
    BY <2>3, <2>5
<1>5. CASE Queues(c, HostOf[c])
  <2> DEFINE e == [prompt |-> PromptOf(c), responders |-> {c}]
  <2>1. /\ DOMAIN queue' = 1 .. (n + 1)
        /\ \A j \in 1 .. n : queue'[j] = queue[j]
        /\ queue'[n + 1] = e
        /\ queue' # <<>>
        /\ Head(queue') = queue'[1]
    BY <1>1, <1>5 DEF Queues, TypeOK
  <2>2. \A j \in 1 .. n : queue[j].prompt.host # HostOf[c]
    BY <1>1, <1>5 DEF Queues, QueuedFor
  <2>3. e.prompt.host = HostOf[c]
    BY DEF PromptOf
  <2>4. OneDialogPerHost'
    BY <1>1, <1>2, <1>5, <2>1, <2>2, <2>3 DEF Queues, OneDialogPerHost
  <2>5. DialogShowsFront'
    <3>1. CASE queue = <<>>
      BY <1>5, <2>1, <3>1 DEF Queues, ShowFront, DialogShowsFront
    <3>2. CASE queue # <<>>
      BY <1>1, <1>5, <2>1, <3>2 DEF Queues, DialogShowsFront
    <3>3. QED
      BY <3>1, <3>2
  <2>6. QED
    BY <2>4, <2>5
<1>6. QED
  BY <1>3, <1>4, <1>5 DEF EnqueueHostkeyPrompt

LEMMA PromptInvResolve ==
  ASSUME TInv, PromptInv, NEW answer \in Answers, ResolveFrontHostkey(answer)
  PROVE  PromptInv'
<1> USE DEF TInv, PromptInv
<1> DEFINE n == Len(queue)
<1>1. queue # <<>>
  BY DEF ResolveFrontHostkey, DialogShowsFront
<1>2. /\ n \in Nat \ {0}
      /\ DOMAIN queue = 1 .. n
      /\ Head(queue) = queue[1]
      /\ \A j \in 1 .. n : queue[j] \in Pending
      /\ DOMAIN queue' = 1 .. (n - 1)
      /\ \A j \in 1 .. (n - 1) : queue'[j] = queue[j + 1]
  BY <1>1 DEF ResolveFrontHostkey, TypeOK
<1>3. DialogShowsFront'
  BY DEF ResolveFrontHostkey, ShowFront, DialogShowsFront
<1> DEFINE H(i) == queue[i].prompt.host
<1>4. \A i \in 1 .. n : H(i) \in Hosts
  BY <1>2 DEF Pending, Prompt
<1>5. \A h \in Hosts : decided'[h] = decided[h] \/ h = H(1)
  BY <1>2 DEF ResolveFrontHostkey, RemembersAnswer, TypeOK
<1>6. \A i \in 1 .. n : H(i) = H(1) => i = 1
  BY <1>2 DEF OneDialogPerHost
<1>7. \A j \in 1 .. (n - 1) :
        /\ j + 1 \in 1 .. n
        /\ queue'[j].prompt.host = H(j + 1)
        /\ decided'[H(j + 1)] = decided[H(j + 1)]
  BY <1>2, <1>4, <1>5, <1>6
<1>8. \A j \in 1 .. (n - 1) : decided[H(j + 1)] = "undecided"
  BY <1>2, <1>7 DEF OneDialogPerHost
<1>9. \A i, j \in 1 .. (n - 1) : H(i + 1) = H(j + 1) => i = j
  BY <1>2, <1>7 DEF OneDialogPerHost
<1>10. OneDialogPerHost'
  <2>1. \A i, j \in DOMAIN queue' :
           queue'[i].prompt.host = queue'[j].prompt.host => i = j
    <3>1. SUFFICES ASSUME NEW i \in 1 .. (n - 1), NEW j \in 1 .. (n - 1),
                          queue'[i].prompt.host = queue'[j].prompt.host
                   PROVE  i = j
      BY <1>2
    <3>2. H(i + 1) = H(j + 1)
      <4>1. queue'[i].prompt.host = H(i + 1) /\ queue'[j].prompt.host = H(j + 1)
        BY <1>7
      <4>2. QED
        BY <3>1, <4>1
    <3> HIDE DEF H, n
    <3>3. QED
      BY <3>2, <1>9
  <2>2. \A i \in DOMAIN queue' : decided'[queue'[i].prompt.host] = "undecided"
    <3>1. SUFFICES ASSUME NEW i \in 1 .. (n - 1)
                   PROVE  decided'[queue'[i].prompt.host] = "undecided"
      BY <1>2
    <3>2. QED
      BY <1>7, <1>8
  <2>3. QED
    BY <2>1, <2>2 DEF OneDialogPerHost
<1>11. QED
  BY <1>3, <1>10

(* The inductive invariant.                                                *)
IInv == TInv /\ PromptInv

LEMMA IInvStep == IInv /\ [Next]_vars => IInv'
<1> SUFFICES ASSUME IInv, [Next]_vars PROVE IInv'
  OBVIOUS
<1> USE DEF IInv
<1>1. ASSUME NEW c \in Connections, ConnectionStep(c) PROVE IInv'
  <2>0. KeysOf[HostOf[c]] \subseteq Keys
    OBVIOUS
  <2>1. TInv'
    BY <1>1, <2>0, TInvOwnStep, TInvAsks DEF ConnectionStep, VerifyHostKey
  <2>2. UNCHANGED <<queue, dialog, decided>>
    BY <1>1 DEF ConnectionStep, VerifyHostKey, RememberLoads, RememberTruncates,
       RememberWrites, RememberFails, ConnectsAgain, Aborts, uiVars
  <2>3. PromptInv'
    BY <2>2 DEF PromptInv, DialogShowsFront, OneDialogPerHost
  <2>4. QED
    BY <2>1, <2>3
<1>2. ASSUME NEW c \in Connections, EnqueueHostkeyPrompt(c) PROVE IInv'
  <2>1. TInv'
    BY <1>2, TInvAnswers, TInvMerges, TInvQueues DEF EnqueueHostkeyPrompt
  <2>2. QED
    BY <1>2, <2>1, PromptInvEnqueue
<1>3. CASE UserStep
  BY <1>3, TInvResolve, PromptInvResolve DEF UserStep, Answers, PromptInv
<1>4. CASE Restart
  <2>1. PromptInv'
    BY <1>4 DEF Restart, PromptInv, DialogShowsFront, OneDialogPerHost
  <2>2. QED
    BY <1>4, <2>1, TInvRestart
<1>5. CASE UNCHANGED vars
  <2>1. TypeOK'
    BY <1>5 DEF TInv, TypeOK, vars
  <2>2. HasKey' /\ NeverRefused'
    BY <1>5 DEF TInv, HasKey, NeverRefused, vars
  <2>3. OwedInv'
    <3>1. \A c \in Connections : Holders(c)' = Holders(c)
      BY <1>5 DEF Holders, vars
    <3>2. QED
      BY <1>5, <3>1 DEF TInv, OwedInv, vars
  <2>4. PromptInv'
    BY <1>5 DEF PromptInv, DialogShowsFront, OneDialogPerHost, vars
  <2>5. QED
    BY <2>1, <2>2, <2>3, <2>4 DEF TInv
<1>6. QED
  BY <1>1, <1>2, <1>3, <1>4, <1>5 DEF Next

THEOREM InductiveInvariant == Spec => []IInv
<1>1. Init => IInv
  BY TInvInit DEF Init, IInv, PromptInv, DialogShowsFront, OneDialogPerHost
<1>2. QED
  BY <1>1, IInvStep, PTL DEF Spec

-----------------------------------------------------------------------------
(* Every reachable state is well typed; the answer always goes to the      *)
(* prompt the user reads, nothing is queued behind a closed dialog, and a  *)
(* host has at most one dialog and none once it was accepted.              *)
THEOREM PromptsAreShown == Spec => []PromptsAreSound
<1>1. IInv => PromptsAreSound
  BY DEF IInv, TInv, PromptInv, PromptsAreSound
<1>2. QED
  BY <1>1, InductiveInvariant, PTL

(* Every waiting connection is owed exactly one answer: it is in flight or *)
(* in one entry, that of its host.                                         *)
THEOREM WaitersOwed == Spec => []WaitersAreOwedOne
<1>1. IInv => WaitersAreOwedOne
  BY DEF IInv, TInv, OwedInv, WaitersAreOwedOne
<1>2. QED
  BY <1>1, InductiveInvariant, PTL

(* A connection is refused only by the user's answer to the dialog it      *)
(* waits for; no reject is remembered (#152).                              *)
THEOREM RefusedByUser == Spec => RefusedOnlyByUser
<1> DEFINE R == \A c \in Connections :
       phase[c] = "asking" /\ phase'[c] = "refused" =>
         /\ queue # <<>> /\ dialog = <<Head(queue).prompt>>
         /\ c \in Head(queue).responders
         /\ queue' = Tail(queue)
<1>1. IInv /\ [Next]_vars => [R]_vars
  <2> SUFFICES ASSUME IInv, Next, NEW c \in Connections,
                      phase[c] = "asking", phase'[c] = "refused"
               PROVE  /\ queue # <<>> /\ dialog = <<Head(queue).prompt>>
                      /\ c \in Head(queue).responders
                      /\ queue' = Tail(queue)
    BY DEF vars
  <2>1. ASSUME NEW d \in Connections, ConnectionStep(d) PROVE FALSE
    BY <2>1 DEF ConnectionStep, VerifyHostKey, TrustsSilently, AsksUser, RememberLoads,
       RememberTruncates, RememberWrites, RememberFails, ConnectsAgain, Aborts,
       IInv, TInv, TypeOK
  <2>2. ASSUME NEW d \in Connections, EnqueueHostkeyPrompt(d) PROVE FALSE
    <3>1. decided[HostOf[d]] # "refused"
      BY DEF IInv, TInv, NeverRefused
    <3>2. QED
      BY <2>2, <3>1 DEF EnqueueHostkeyPrompt, AnswersFromThisRun, MergesInto, Queues, Respond
  <2>3. CASE UserStep
    <3>1. PICK answer \in Answers : ResolveFrontHostkey(answer)
      BY <2>3 DEF UserStep, Answers
    <3>2. queue # <<>>
      BY <3>1 DEF ResolveFrontHostkey, IInv, PromptInv, DialogShowsFront
    <3>3. c \in Head(queue).responders
      BY <3>1 DEF ResolveFrontHostkey, Respond
    <3>4. QED
      BY <3>1, <3>2, <3>3 DEF ResolveFrontHostkey, IInv, PromptInv, DialogShowsFront
  <2>4. CASE Restart
    BY <2>4 DEF Restart
  <2>5. QED
    BY <2>1, <2>2, <2>3, <2>4 DEF Next
<1>2. QED
  BY <1>1, InductiveInvariant, PTL DEF Spec, RefusedOnlyByUser

-----------------------------------------------------------------------------
(* Who may write.                                                          *)

(* A connection that was accepted is of a host the user accepted in this   *)
(* run: its own responder was in the entry of its own host.                *)
AcceptedHere ==
  \A c \in Connections :
    phase[c] \in {"accepted", "loaded", "writing"} => decided[HostOf[c]] = "accepted"

LEMMA AcceptedStep ==
  ASSUME IInv, AcceptedHere, [Next]_vars
  PROVE  AcceptedHere'
<1> USE DEF AcceptedHere
<1>1. ASSUME NEW c \in Connections, ConnectionStep(c) PROVE AcceptedHere'
  <2>1. decided' = decided
    BY <1>1 DEF ConnectionStep, VerifyHostKey, RememberLoads, RememberTruncates,
       RememberWrites, RememberFails, ConnectsAgain, Aborts, uiVars
  <2>2. ASSUME NEW d \in Connections, phase'[d] \in {"accepted", "loaded", "writing"}
        PROVE  phase[d] \in {"accepted", "loaded", "writing"}
    BY <1>1, <2>2 DEF ConnectionStep, VerifyHostKey, TrustsSilently, AsksUser, RememberLoads,
       RememberTruncates, RememberWrites, RememberFails, ConnectsAgain, Aborts,
       IInv, TInv, TypeOK
  <2>3. QED
    BY <2>1, <2>2
<1>2. ASSUME NEW c \in Connections, EnqueueHostkeyPrompt(c) PROVE AcceptedHere'
  <2>1. decided' = decided
    BY <1>2 DEF EnqueueHostkeyPrompt
  <2>2. CASE AnswersFromThisRun(c, HostOf[c])
    <3>1. decided[HostOf[c]] = "accepted"
      BY <2>2 DEF AnswersFromThisRun, IInv, TInv, TypeOK, NeverRefused
    <3>2. \A d \in Connections : phase'[d] = IF d = c /\ phase[d] = "asking" THEN "accepted"
                                                                             ELSE phase[d]
      BY <2>2, <3>1 DEF AnswersFromThisRun, Respond
    <3>3. QED
      BY <2>1, <3>1, <3>2
  <2>3. CASE MergesInto(c, HostOf[c]) \/ Queues(c, HostOf[c])
    BY <2>1, <2>3 DEF MergesInto, Queues
  <2>4. QED
    BY <1>2, <2>2, <2>3 DEF EnqueueHostkeyPrompt
<1>3. CASE UserStep
  <2>1. PICK answer \in Answers : ResolveFrontHostkey(answer)
    BY <1>3 DEF UserStep, Answers
  <2>2. queue # <<>>
    BY <2>1 DEF ResolveFrontHostkey, IInv, PromptInv, DialogShowsFront
  <2>3. Head(queue) = queue[1] /\ 1 \in DOMAIN queue /\ queue[1] \in Pending
    BY <2>2 DEF IInv, TInv, TypeOK
  <2>4. queue[1].prompt.host \in Hosts
    BY <2>3 DEF Pending, Prompt
  <2>5. /\ \A h \in Hosts : decided[h] = "accepted" => decided'[h] = "accepted"
        /\ answer = "accepted" => decided'[queue[1].prompt.host] = "accepted"
    BY <2>1, <2>3, <2>4 DEF ResolveFrontHostkey, RemembersAnswer, IInv, TInv, TypeOK
  <2>6. ASSUME NEW d \in Connections, phase'[d] \in {"accepted", "loaded", "writing"}
        PROVE  decided'[HostOf[d]] = "accepted"
    <3>1. CASE d \in Head(queue).responders /\ phase[d] = "asking"
      <4>1. 1 \in Holders(d)
        BY <2>3, <3>1 DEF Holders
      <4>2. queue[1].prompt.host = HostOf[d]
        BY <4>1 DEF IInv, TInv, OwedInv
      <4>3. answer = "accepted"
        BY <2>1, <2>6, <3>1 DEF ResolveFrontHostkey, Respond, Answers
      <4>4. QED
        BY <2>5, <4>2, <4>3
    <3>2. CASE ~(d \in Head(queue).responders /\ phase[d] = "asking")
      <4>1. phase'[d] = phase[d]
        BY <2>1, <3>2 DEF ResolveFrontHostkey, Respond
      <4>2. QED
        BY <2>5, <2>6, <4>1
    <3>3. QED
      BY <3>1, <3>2
  <2>7. QED
    BY <2>6
<1>4. CASE Restart
  BY <1>4 DEF Restart
<1>5. CASE UNCHANGED vars
  BY <1>5 DEF vars
<1>6. QED
  BY <1>1, <1>2, <1>3, <1>4, <1>5 DEF Next

(* A connection writes only the key its own server showed, of a host the   *)
(* user accepted in this run, however the unlocked rewrites of remember()  *)
(* interleave.                                                             *)
THEOREM OnlyAcceptedIsStored == Spec => StoredOnlyAccepted
<1> DEFINE S == \A c \in Connections :
       phase[c] = "writing" /\ phase'[c] = "trusted" =>
         decided[HostOf[c]] = "accepted" /\ file'[HostOf[c]] \in {key[c], NoKey}
<1>1. Init => AcceptedHere
  BY DEF Init, AcceptedHere
<1>2. IInv /\ AcceptedHere /\ [Next]_vars => AcceptedHere'
  BY AcceptedStep
<1>3. IInv /\ AcceptedHere /\ [Next]_vars => [S]_vars
  <2> SUFFICES ASSUME IInv, AcceptedHere, Next, NEW c \in Connections,
                      phase[c] = "writing", phase'[c] = "trusted"
               PROVE  decided[HostOf[c]] = "accepted" /\ file'[HostOf[c]] \in {key[c], NoKey}
    BY DEF vars
  <2>1. decided[HostOf[c]] = "accepted"
    BY DEF AcceptedHere
  <2>2. CASE RememberWrites(c)
    <3>1. file' = [snap[c] EXCEPT ![HostOf[c]] = key[c]] /\ snap[c] \in Store
      BY <2>2 DEF RememberWrites, IInv, TInv, TypeOK
    <3>2. QED
      BY <2>1, <3>1 DEF Store
  <2>8. CASE RememberFails(c)
    <3>1. PICK kept \in SUBSET (Hosts \ {HostOf[c]}) : file' = CutOff(snap[c], kept)
      BY <2>8 DEF RememberFails
    <3>2. HostOf[c] \in Hosts /\ HostOf[c] \notin kept
      OBVIOUS
    <3>3. file'[HostOf[c]] = NoKey
      BY <3>1, <3>2 DEF CutOff
    <3>4. QED
      BY <2>1, <3>3
  <2>3. ASSUME NEW d \in Connections, ConnectionStep(d), ~RememberWrites(c), ~RememberFails(c)
        PROVE FALSE
    BY <2>3 DEF ConnectionStep, VerifyHostKey, TrustsSilently, AsksUser, RememberLoads,
       RememberTruncates, RememberWrites, RememberFails, ConnectsAgain, Aborts,
       IInv, TInv, TypeOK
  <2>4. ASSUME NEW d \in Connections, EnqueueHostkeyPrompt(d) PROVE FALSE
    BY <2>4 DEF EnqueueHostkeyPrompt, AnswersFromThisRun, MergesInto, Queues, Respond
  <2>5. UserStep => FALSE
    BY DEF UserStep, ResolveFrontHostkey, Respond
  <2>6. Restart => FALSE
    BY DEF Restart
  <2>7. QED
    BY <2>2, <2>8, <2>3, <2>4, <2>5, <2>6 DEF Next
<1>4. QED
  BY <1>1, <1>2, <1>3, InductiveInvariant, PTL DEF Spec, StoredOnlyAccepted
-----------------------------------------------------------------------------
(* The refinement of PromptLine.                                           *)

Topics(q) == [i \in DOMAIN q |-> q[i].prompt.host]
Titles(d) == [i \in DOMAIN d |-> d[i].host]
Waits == {c \in Connections : phase[c] = "asking" /\ c \notin inFlight}
FrontOf(l) == IF l = <<>> THEN <<>> ELSE <<Head(l)>>

LEMMA TopicsType ==
  ASSUME NEW q \in Seq(Pending)
  PROVE  Topics(q) \in Seq(Hosts) /\ Len(Topics(q)) = Len(q)
<1>1. \A i \in 1 .. Len(q) : q[i].prompt.host \in Hosts
  <2>1. \A i \in 1 .. Len(q) : q[i] \in Pending
    OBVIOUS
  <2>2. QED
    BY <2>1 DEF Pending, Prompt
<1>2. DOMAIN q = 1 .. Len(q) /\ Len(q) \in Nat
  OBVIOUS
<1>3. Topics(q) \in [1 .. Len(q) -> Hosts]
  BY <1>1, <1>2 DEF Topics
<1>4. QED
  BY <1>2, <1>3

(* The hosts of a longer queue, of one without its head, and of one that   *)
(* only changed responders.                                                *)
LEMMA TopicsAppend ==
  ASSUME NEW q \in Seq(Pending), NEW e \in Pending
  PROVE  Topics(Append(q, e)) = Append(Topics(q), e.prompt.host)
<1>1. Topics(q) \in Seq(Hosts) /\ e.prompt.host \in Hosts /\ Len(Topics(q)) = Len(q)
  BY TopicsType DEF Pending, Prompt
<1>2. \A i \in 1 .. Len(q) + 1 :
        Topics(Append(q, e))[i] = Append(Topics(q), e.prompt.host)[i]
  BY <1>1 DEF Topics
<1>3. DOMAIN Topics(Append(q, e)) = 1 .. Len(q) + 1
  BY DEF Topics
<1>4. QED
  BY <1>1, <1>2, <1>3 DEF Topics

LEMMA TopicsTail ==
  ASSUME NEW q \in Seq(Pending), q # <<>>
  PROVE  /\ Topics(q) # <<>>
         /\ Topics(Tail(q)) = Tail(Topics(q))
         /\ Head(Topics(q)) = Head(q).prompt.host
<1>1. Topics(q) \in Seq(Hosts) /\ Len(Topics(q)) = Len(q) /\ Len(q) > 0
  BY TopicsType
<1>2. Topics(q) # <<>> /\ Head(Topics(q)) = Head(q).prompt.host
  BY <1>1 DEF Topics
<1>3. \A i \in 1 .. Len(q) - 1 : Topics(Tail(q))[i] = Tail(Topics(q))[i]
  BY <1>1 DEF Topics
<1>4. DOMAIN Topics(Tail(q)) = 1 .. Len(q) - 1
  BY DEF Topics
<1>5. QED
  BY <1>1, <1>2, <1>3, <1>4 DEF Topics

LEMMA TopicsSame ==
  ASSUME NEW q \in Seq(Pending), NEW r, DOMAIN r = DOMAIN q,
         \A i \in DOMAIN q : r[i].prompt = q[i].prompt
  PROVE  Topics(r) = Topics(q)
BY DEF Topics

LEMMA TitlesFront ==
  ASSUME NEW q \in Seq(Pending), NEW d,
         d = IF q = <<>> THEN <<>> ELSE <<Head(q).prompt>>
  PROVE  Titles(d) = FrontOf(Topics(q))
<1>1. CASE q = <<>>
  BY <1>1 DEF Titles, Topics, FrontOf
<1>2. CASE q # <<>>
  <2>1. Topics(q) # <<>> /\ Head(Topics(q)) = Head(q).prompt.host
    BY <1>2, TopicsTail
  <2>2. d = <<Head(q).prompt>>
    BY <1>2
  <2>3. Titles(d) = <<Head(q).prompt.host>>
    BY <2>2 DEF Titles
  <2>4. QED
    BY <2>1, <2>3 DEF FrontOf
<1>3. QED
  BY <1>1, <1>2
(* What a step does to the line, to those who wait and to the dialog.      *)
LEMMA LineOfConnection ==
  ASSUME IInv, NEW c \in Connections, ConnectionStep(c)
  PROVE  /\ UNCHANGED <<queue, dialog>>
         /\ \/ Waits' = Waits
            \/ c \in Waits /\ Waits' = Waits \ {c}
<1>1. phase \in [Connections -> Phases] /\ OwedInv
  BY DEF IInv, TInv, TypeOK
<1>2. ASSUME NEW k \in KeysOf[HostOf[c]], VerifyHostKey(c, k)
      PROVE  UNCHANGED <<queue, dialog>> /\ Waits' = Waits
  <2>1. \A d \in Connections \ {c} :
          phase'[d] = phase[d] /\ (d \in inFlight' <=> d \in inFlight)
    BY <1>1, <1>2 DEF VerifyHostKey, TrustsSilently, AsksUser
  <2>2. phase[c] # "asking" /\ (phase'[c] = "asking" => c \in inFlight')
    BY <1>1, <1>2 DEF VerifyHostKey, TrustsSilently, AsksUser
  <2>3. UNCHANGED <<queue, dialog>>
    BY <1>2 DEF VerifyHostKey, uiVars
  <2>4. QED
    BY <2>1, <2>2, <2>3 DEF Waits
<1>3. CASE \/ RememberLoads(c) \/ RememberTruncates(c) \/ RememberWrites(c)
           \/ RememberFails(c) \/ ConnectsAgain(c)
  <2>1. \A d \in Connections : phase[d] = "asking" <=> phase'[d] = "asking"
    BY <1>1, <1>3 DEF RememberLoads, RememberTruncates, RememberWrites, RememberFails,
                      ConnectsAgain
  <2>2. UNCHANGED <<queue, dialog, inFlight>>
    BY <1>3 DEF RememberLoads, RememberTruncates, RememberWrites, RememberFails,
                ConnectsAgain, uiVars
  <2>3. QED
    BY <2>1, <2>2 DEF Waits
<1>4. CASE Aborts(c)
  <2>1. /\ \A d \in Connections \ {c} : phase'[d] = phase[d]
        /\ phase'[c] = "aborted" /\ UNCHANGED <<queue, dialog, inFlight>>
    BY <1>1, <1>4 DEF Aborts, uiVars
  <2>2. Waits' = Waits \ {c}
    BY <2>1 DEF Waits
  <2>3. QED
    BY <2>1, <2>2
<1>5. QED
  BY <1>2, <1>3, <1>4 DEF ConnectionStep

LEMMA LineOfPrompt ==
  ASSUME IInv, IInv', NEW c \in Connections, EnqueueHostkeyPrompt(c)
  PROVE  \/ UNCHANGED <<queue, dialog>> /\ Waits' = Waits
         \/ /\ c \notin Waits /\ Waits' \in {Waits, Waits \cup {c}}
            /\ Topics(queue') = IF \E i \in DOMAIN Topics(queue) : Topics(queue)[i] = HostOf[c]
                                THEN Topics(queue) ELSE Append(Topics(queue), HostOf[c])
<1>1. /\ phase \in [Connections -> Phases] /\ queue \in Seq(Pending) /\ OwedInv /\ HasKey
      /\ decided \in [Hosts -> {"undecided", "accepted", "refused"}]
  BY DEF IInv, TInv, TypeOK
<1>2. c \in inFlight /\ inFlight' = inFlight \ {c} /\ phase[c] \in {"asking", "aborted"}
  BY <1>1 DEF EnqueueHostkeyPrompt, OwedInv
<1>3. CASE AnswersFromThisRun(c, HostOf[c])
  <2>1. /\ \A d \in Connections \ {c} : phase'[d] = phase[d]
        /\ phase'[c] # "asking" /\ UNCHANGED <<queue, dialog>>
    BY <1>1, <1>2, <1>3 DEF AnswersFromThisRun, Respond
  <2>2. QED
    BY <1>2, <2>1 DEF Waits
<1>4. ASSUME phase' = phase
      PROVE  c \notin Waits /\ Waits' \in {Waits, Waits \cup {c}}
  <2>1. CASE phase[c] = "asking"
    <3>1. Waits' = Waits \cup {c}
      BY <1>2, <1>4, <2>1 DEF Waits
    <3>2. QED
      BY <1>2, <3>1 DEF Waits
  <2>2. CASE phase[c] # "asking"
    <3>1. Waits' = Waits
      BY <1>2, <1>4, <2>2 DEF Waits
    <3>2. QED
      BY <1>2, <3>1 DEF Waits
  <2>3. QED
    BY <2>1, <2>2
<1>5. CASE MergesInto(c, HostOf[c])
  <2>1. PICK i \in DOMAIN queue :
          queue[i].prompt.host = HostOf[c] /\ queue' = [queue EXCEPT ![i].responders = @ \cup {c}]
    BY <1>5 DEF MergesInto, QueuedFor
  <2>2. \A j \in DOMAIN queue : queue[j] \in Pending
    BY <1>1
  <2>3. DOMAIN queue' = DOMAIN queue /\ \A j \in DOMAIN queue : queue'[j].prompt = queue[j].prompt
    BY <2>1, <2>2 DEF Pending
  <2>4. Topics(queue') = Topics(queue)
    BY <1>1, <2>3, TopicsSame
  <2>5. i \in DOMAIN Topics(queue) /\ Topics(queue)[i] = HostOf[c]
    BY <2>1 DEF Topics
  <2>6. QED
    BY <1>4, <1>5, <2>4, <2>5 DEF MergesInto
<1>6. CASE Queues(c, HostOf[c])
  <2> DEFINE e == [prompt |-> PromptOf(c), responders |-> {c}]
  <2>1. e \in Pending /\ e.prompt.host = HostOf[c]
    <3>1. PromptOf(c) \in Prompt
      BY <1>1, <1>2, PromptType DEF HasKey, IInv, TInv
    <3>2. QED
      BY <3>1 DEF Pending, PromptOf
  <2>2. queue' = Append(queue, e)
    BY <1>6 DEF Queues
  <2> HIDE DEF e
  <2>3. Topics(queue') = Append(Topics(queue), HostOf[c])
    BY <1>1, <2>1, <2>2, TopicsAppend
  <2>4. \A i \in DOMAIN Topics(queue) : Topics(queue)[i] # HostOf[c]
    BY <1>6 DEF Queues, QueuedFor, Topics
  <2>5. QED
    BY <1>4, <1>6, <2>3, <2>4 DEF Queues
<1>7. QED
  BY <1>3, <1>5, <1>6 DEF EnqueueHostkeyPrompt

LEMMA LineOfAnswer ==
  ASSUME IInv, NEW answer \in Answers, ResolveFrontHostkey(answer)
  PROVE  /\ Topics(queue) # <<>> /\ Topics(queue') = Tail(Topics(queue))
         /\ Waits' = {c \in Waits : HostOf[c] # Head(Topics(queue))}
<1>1. /\ phase \in [Connections -> Phases] /\ queue \in Seq(Pending) /\ OwedInv
      /\ DialogShowsFront /\ OneDialogPerHost
  BY DEF IInv, TInv, TypeOK, PromptInv
<1>2. queue # <<>> /\ queue' = Tail(queue) /\ inFlight' = inFlight
  BY <1>1 DEF ResolveFrontHostkey, DialogShowsFront
<1>3. /\ Topics(queue) # <<>> /\ Topics(queue') = Tail(Topics(queue))
      /\ Head(Topics(queue)) = Head(queue).prompt.host
  BY <1>1, <1>2, TopicsTail
<1>4. 1 \in DOMAIN queue /\ Head(queue) = queue[1]
  BY <1>1, <1>2
<1>5. ASSUME NEW c \in Waits
      PROVE  c \in Head(queue).responders <=> HostOf[c] = Head(queue).prompt.host
  <2>1. c \in Connections /\ Holders(c) # {}
    BY <1>1, <1>5 DEF Waits, OwedInv
  <2>2. PICK i \in Holders(c) : queue[i].prompt.host = HostOf[c]
    BY <1>1, <2>1 DEF OwedInv
  <2>3. i \in DOMAIN queue /\ c \in queue[i].responders
    BY <2>2 DEF Holders
  <2>4. c \in queue[1].responders => i = 1
    <3>1. c \in queue[1].responders => 1 \in Holders(c)
      BY <1>4 DEF Holders
    <3>2. QED
      BY <1>1, <2>1, <2>2, <3>1 DEF OwedInv
  <2>5. queue[1].prompt.host = HostOf[c] => i = 1
    BY <1>1, <1>4, <2>2, <2>3 DEF OneDialogPerHost
  <2>6. QED
    BY <1>4, <2>2, <2>3, <2>4, <2>5
<1>6. answer # "asking"
  BY DEF Answers
<1>7. \A c \in Connections :
        phase'[c] = "asking" <=> phase[c] = "asking" /\ c \notin Head(queue).responders
  BY <1>6 DEF ResolveFrontHostkey, Respond
<1>8. Waits' = {c \in Waits : c \notin Head(queue).responders}
  BY <1>2, <1>7 DEF Waits
<1>9. QED
  BY <1>3, <1>5, <1>8

LEMMA LineInit == Init => Line!Init
BY DEF Init, Line!Init

LEMMA LineStep == IInv /\ IInv' /\ [Next]_vars => [Line!Next]_Line!vars
<1> SUFFICES ASSUME IInv, IInv', [Next]_vars
             PROVE  Line!Next \/ UNCHANGED Line!vars
  OBVIOUS
<1> DEFINE l == Topics(queue)
           m == Topics(queue')
           d == Titles(dialog)
           e == Titles(dialog')
<1>1. e = FrontOf(m)
  <2>1. queue' \in Seq(Pending)
        /\ dialog' = IF queue' = <<>> THEN <<>> ELSE <<Head(queue').prompt>>
    BY DEF IInv, TInv, TypeOK, PromptInv, DialogShowsFront
  <2>2. QED
    BY <2>1, TitlesFront
<1>2. ASSUME UNCHANGED <<queue, dialog>>
      PROVE  m = l /\ e = d
  BY <1>2
<1>3. ASSUME m = l, e = d, Waits' = Waits
      PROVE  UNCHANGED Line!vars
  BY <1>3 DEF Line!vars, Topics, Titles, Waits
<1>4. ASSUME NEW c \in Connections, ConnectionStep(c)
      PROVE  Line!Next \/ UNCHANGED Line!vars
  <2>1. UNCHANGED <<queue, dialog>> /\ (Waits' = Waits \/ (c \in Waits /\ Waits' = Waits \ {c}))
    BY <1>4, LineOfConnection
  <2>2. CASE Waits' = Waits
    BY <1>2, <1>3, <2>1, <2>2
  <2>3. CASE c \in Waits /\ Waits' = Waits \ {c}
    <3>1. Line!Leaves(c)
      BY <1>2, <2>1, <2>3 DEF Line!Leaves, Topics, Titles, Waits
    <3>2. QED
      BY <3>1 DEF Line!Next
  <2>4. QED
    BY <2>1, <2>2, <2>3
<1>5. ASSUME NEW c \in Connections, EnqueueHostkeyPrompt(c)
      PROVE  Line!Next \/ UNCHANGED Line!vars
  <2>1. CASE UNCHANGED <<queue, dialog>> /\ Waits' = Waits
    BY <1>2, <1>3, <2>1
  <2>2. CASE /\ c \notin Waits /\ Waits' \in {Waits, Waits \cup {c}}
             /\ m = IF \E i \in DOMAIN l : l[i] = HostOf[c] THEN l ELSE Append(l, HostOf[c])
    <3>1. Line!Asks(c)
      BY <1>1, <2>2 DEF Line!Asks, Line!InLine, Line!ShowsFront, Topics, Titles, Waits, FrontOf
    <3>2. QED
      BY <3>1 DEF Line!Next
  <2>3. QED
    BY <1>5, <2>1, <2>2, LineOfPrompt
<1>6. CASE UserStep
  <2>1. PICK answer \in Answers : ResolveFrontHostkey(answer)
    BY <1>6 DEF UserStep, Answers
  <2>2. l # <<>> /\ m = Tail(l) /\ Waits' = {c \in Waits : HostOf[c] # Head(l)}
    BY <2>1, LineOfAnswer
  <2>3. Line!Answer
    BY <1>1, <2>2 DEF Line!Answer, Line!ShowsFront, Topics, Titles, Waits, FrontOf
  <2>4. QED
    BY <2>3 DEF Line!Next
<1>7. CASE Restart
  <2>1. Line!Restart
    BY <1>7 DEF Restart, Line!Restart
  <2>2. QED
    BY <2>1 DEF Line!Next
<1>8. CASE UNCHANGED vars
  <2>1. UNCHANGED <<queue, dialog>> /\ Waits' = Waits
    BY <1>8 DEF vars, Waits
  <2>2. QED
    BY <1>2, <1>3, <2>1
<1>9. QED
  BY <1>4, <1>5, <1>6, <1>7, <1>8 DEF Next

(* The queue of host-key prompts implements PromptLine: for any number of  *)
(* connections and hosts, prompts are answered in the order of asking and  *)
(* an answer reaches all who wait about its host and nobody else.          *)
THEOREM LineIsKept == Spec => KeepsLine
<1>1. Spec => Line!Spec
  BY LineInit, LineStep, InductiveInvariant, PTL DEF Spec, Line!Spec
<1>2. QED
  BY <1>1 DEF KeepsLine
=============================================================================
