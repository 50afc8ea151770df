------------------------- MODULE LoginPrompts_proofs -------------------------
(***************************************************************************)
(* Proofs about LoginPrompts for every number of sessions, connections,    *)
(* starts and requests: who waits is in a queue that reaches the screen,   *)
(* credentials stay with their session, the password is offered twice at   *)
(* most.                                                                   *)
(***************************************************************************)
EXTENDS LoginPrompts, TLAPS

(* Two queues, seen as sequences of entries.                               *)

(* r is q with the responders of e added, to the entry of its session or in
   an entry of its own; who was in the queue still is, the front stays.    *)
Added(q, r, e) ==
  /\ OnePerSession(q) => OnePerSession(r)
  /\ \A i \in DOMAIN q : /\ i \in DOMAIN r /\ r[i].session = q[i].session
                         /\ q[i].responders \subseteq r[i].responders
  /\ \E i \in DOMAIN r : r[i].session = e.session /\ e.responders \subseteq r[i].responders
  /\ \A i \in DOMAIN r :
       \/ r[i].session = e.session /\ r[i].responders = e.responders
       \/ /\ i \in DOMAIN q /\ r[i].session = q[i].session
          /\ \/ r[i].responders = q[i].responders
             \/ /\ q[i].session = e.session
                /\ r[i].responders = q[i].responders \cup e.responders

LEMMA FunctionIsSeq ==
  ASSUME NEW S, NEW n \in Nat, NEW f \in [1..n -> S]
  PROVE  f \in Seq(S) /\ Len(f) = n
OBVIOUS

LEMMA Appended ==
  ASSUME NEW E, NEW q \in Seq(E), NEW e \in E,
         \A i \in DOMAIN q : q[i].session # e.session
  PROVE  /\ Append(q, e) \in Seq(E) /\ Append(q, e) # <<>>
         /\ Added(q, Append(q, e), e)
         /\ q # <<>> => Head(Append(q, e)) = Head(q)
         /\ q = <<>> => Head(Append(q, e)) = e
<1> DEFINE r == Append(q, e)
<1>1. /\ r \in Seq(E) /\ r[Len(q) + 1] = e /\ r # <<>>
      /\ \A i \in 1..Len(q) : r[i] = q[i]
      /\ DOMAIN r = 1..(Len(q) + 1) /\ DOMAIN q = 1..Len(q) /\ Len(q) \in Nat
  OBVIOUS
<1>2. q # <<>> => Head(r) = Head(q)
  OBVIOUS
<1>3. q = <<>> => Head(r) = e
  OBVIOUS
<1> HIDE DEF r
<1>4. OnePerSession(q) => OnePerSession(r)
  BY <1>1 DEF OnePerSession
<1>5. \A i \in DOMAIN q : /\ i \in DOMAIN r /\ r[i].session = q[i].session
                          /\ q[i].responders \subseteq r[i].responders
  BY <1>1
<1>6. \E i \in DOMAIN r : r[i].session = e.session /\ e.responders \subseteq r[i].responders
  <2>1. Len(q) + 1 \in DOMAIN r
    BY <1>1
  <2>2. QED
    BY <1>1, <2>1
<1>7. \A i \in DOMAIN r : r[i] = e \/ (i \in DOMAIN q /\ r[i] = q[i])
  BY <1>1
<1>8. Added(q, r, e)
  BY <1>4, <1>5, <1>6, <1>7 DEF Added
<1>9. QED
  BY <1>1, <1>2, <1>3, <1>8 DEF r

LEMMA Joined ==
  ASSUME NEW E, NEW q \in Seq(E), NEW r \in Seq(E), NEW e, NEW k \in DOMAIN q,
         DOMAIN r = DOMAIN q, q[k].session = e.session,
         \A i \in DOMAIN q : r[i].session = q[i].session,
         \A i \in DOMAIN q : q[i].session = e.session =>
           r[i].responders = q[i].responders \cup e.responders,
         \A i \in DOMAIN q : q[i].session # e.session => r[i].responders = q[i].responders
  PROVE  Added(q, r, e)
<1>1. OnePerSession(q) => OnePerSession(r)
  BY DEF OnePerSession
<1>2. \A i \in DOMAIN q : q[i].responders \subseteq r[i].responders
  OBVIOUS
<1>3. r[k].session = e.session /\ e.responders \subseteq r[k].responders
  OBVIOUS
<1>4. QED
  BY <1>1, <1>2, <1>3 DEF Added

LEMMA EnqueuedCred ==
  ASSUME NEW q \in Seq(CredEntry), NEW e \in CredEntry
  PROVE  /\ Enqueued(q, e) \in Seq(CredEntry) /\ Added(q, Enqueued(q, e), e)
         /\ Enqueued(q, e) # <<>>
         /\ q # <<>> => ShowFront(Enqueued(q, e)) = ShowFront(q)
<1>1. CASE Entries(q, e.session) = {}
  <2>1. \A i \in DOMAIN q : q[i].session # e.session
    BY <1>1 DEF Entries
  <2>2. Enqueued(q, e) = Append(q, e)
    BY <1>1 DEF Enqueued
  <2> DEFINE r == Append(q, e)
  <2>3. /\ r \in Seq(CredEntry) /\ r # <<>> /\ Added(q, r, e)
        /\ q # <<>> => Head(r) = Head(q)
    BY <2>1, Appended
  <2> HIDE DEF r
  <2>4. q # <<>> => ShowFront(r) = ShowFront(q)
    BY <2>3 DEF ShowFront
  <2>5. QED
    BY <2>2, <2>3, <2>4 DEF r
<1>2. CASE Entries(q, e.session) # {}
  <2> DEFINE r == Enqueued(q, e)
             Y(x) == [x EXCEPT !.responders = @ \cup e.responders]
  <2>1. r = [i \in DOMAIN q |-> IF i \in Entries(q, e.session) THEN Y(q[i]) ELSE q[i]]
    BY <1>2 DEF Enqueued
  <2>2. PICK k \in DOMAIN q : q[k].session = e.session
    BY <1>2 DEF Entries
  <2>3. \A x \in CredEntry : /\ Y(x) \in CredEntry /\ Y(x).session = x.session
                             /\ Y(x).responders = x.responders \cup e.responders
                             /\ [Y(x) EXCEPT !.responders = {}] = [x EXCEPT !.responders = {}]
    BY DEF CredEntry
  <2>4. DOMAIN q = 1..Len(q) /\ Len(q) \in Nat /\ \A i \in DOMAIN q : q[i] \in CredEntry
    OBVIOUS
  <2> HIDE DEF r, Y
  <2>5. DOMAIN r = DOMAIN q /\ \A i \in DOMAIN q :
          r[i] = IF q[i].session = e.session THEN Y(q[i]) ELSE q[i]
    BY <2>1 DEF Entries
  <2>6. \A i \in DOMAIN q : r[i] \in CredEntry /\ r[i].session = q[i].session
    BY <2>3, <2>4, <2>5
  <2>7. r \in Seq(CredEntry)
    <3>1. r \in [1..Len(q) -> CredEntry]
      BY <2>1, <2>4, <2>5, <2>6
    <3>2. QED
      BY <3>1, <2>4
  <2>8. Added(q, r, e)
    <3>1. \A i \in DOMAIN q : q[i].session = e.session =>
            r[i].responders = q[i].responders \cup e.responders
      BY <2>3, <2>4, <2>5
    <3>2. \A i \in DOMAIN q : q[i].session # e.session => r[i].responders = q[i].responders
      BY <2>5
    <3>3. QED
      BY <2>2, <2>5, <2>6, <2>7, <3>1, <3>2, Joined
  <2>9. q # <<>> /\ r # <<>>
    BY <2>2, <2>5
  <2>10. 1 \in DOMAIN q /\ Head(q) = q[1] /\ Head(r) = r[1]
    BY <2>4, <2>5, <2>7, <2>9
  <2>11. [r[1] EXCEPT !.responders = {}] = [q[1] EXCEPT !.responders = {}]
    BY <2>3, <2>4, <2>5, <2>10
  <2>12. ShowFront(r) = ShowFront(q)
    BY <2>9, <2>10, <2>11 DEF ShowFront
  <2>13. QED
    BY <2>7, <2>8, <2>9, <2>12 DEF r
<1>3. QED
  BY <1>1, <1>2

LEMMA EnqueuedMfa ==
  ASSUME NEW q \in Seq(MfaEntry), NEW e \in MfaEntry
  PROVE  /\ Enqueued(q, e) \in Seq(MfaEntry) /\ Added(q, Enqueued(q, e), e)
         /\ Enqueued(q, e) # <<>>
         /\ q # <<>> => ShowFront(Enqueued(q, e)) = ShowFront(q)
<1>1. CASE Entries(q, e.session) = {}
  <2>1. \A i \in DOMAIN q : q[i].session # e.session
    BY <1>1 DEF Entries
  <2>2. Enqueued(q, e) = Append(q, e)
    BY <1>1 DEF Enqueued
  <2> DEFINE r == Append(q, e)
  <2>3. /\ r \in Seq(MfaEntry) /\ r # <<>> /\ Added(q, r, e)
        /\ q # <<>> => Head(r) = Head(q)
    BY <2>1, Appended
  <2> HIDE DEF r
  <2>4. q # <<>> => ShowFront(r) = ShowFront(q)
    BY <2>3 DEF ShowFront
  <2>5. QED
    BY <2>2, <2>3, <2>4 DEF r
<1>2. CASE Entries(q, e.session) # {}
  <2> DEFINE r == Enqueued(q, e)
             Y(x) == [x EXCEPT !.responders = @ \cup e.responders]
  <2>1. r = [i \in DOMAIN q |-> IF i \in Entries(q, e.session) THEN Y(q[i]) ELSE q[i]]
    BY <1>2 DEF Enqueued
  <2>2. PICK k \in DOMAIN q : q[k].session = e.session
    BY <1>2 DEF Entries
  <2>3. \A x \in MfaEntry : /\ Y(x) \in MfaEntry /\ Y(x).session = x.session
                             /\ Y(x).responders = x.responders \cup e.responders
                             /\ [Y(x) EXCEPT !.responders = {}] = [x EXCEPT !.responders = {}]
    BY DEF MfaEntry
  <2>4. DOMAIN q = 1..Len(q) /\ Len(q) \in Nat /\ \A i \in DOMAIN q : q[i] \in MfaEntry
    OBVIOUS
  <2> HIDE DEF r, Y
  <2>5. DOMAIN r = DOMAIN q /\ \A i \in DOMAIN q :
          r[i] = IF q[i].session = e.session THEN Y(q[i]) ELSE q[i]
    BY <2>1 DEF Entries
  <2>6. \A i \in DOMAIN q : r[i] \in MfaEntry /\ r[i].session = q[i].session
    BY <2>3, <2>4, <2>5
  <2>7. r \in Seq(MfaEntry)
    <3>1. r \in [1..Len(q) -> MfaEntry]
      BY <2>1, <2>4, <2>5, <2>6
    <3>2. QED
      BY <3>1, <2>4
  <2>8. Added(q, r, e)
    <3>1. \A i \in DOMAIN q : q[i].session = e.session =>
            r[i].responders = q[i].responders \cup e.responders
      BY <2>3, <2>4, <2>5
    <3>2. \A i \in DOMAIN q : q[i].session # e.session => r[i].responders = q[i].responders
      BY <2>5
    <3>3. QED
      BY <2>2, <2>5, <2>6, <2>7, <3>1, <3>2, Joined
  <2>9. q # <<>> /\ r # <<>>
    BY <2>2, <2>5
  <2>10. 1 \in DOMAIN q /\ Head(q) = q[1] /\ Head(r) = r[1]
    BY <2>4, <2>5, <2>7, <2>9
  <2>11. [r[1] EXCEPT !.responders = {}] = [q[1] EXCEPT !.responders = {}]
    BY <2>3, <2>4, <2>5, <2>10
  <2>12. ShowFront(r) = ShowFront(q)
    BY <2>9, <2>10, <2>11 DEF ShowFront
  <2>13. QED
    BY <2>7, <2>8, <2>9, <2>12 DEF r
<1>3. QED
  BY <1>1, <1>2

(* What is left of a queue when its front entry is answered.               *)
LEMMA Popped ==
  ASSUME NEW E, NEW q \in Seq(E), q # <<>>
  PROVE  /\ Head(q) = q[1] /\ 1 \in DOMAIN q /\ Head(q) \in E
         /\ Tail(q) \in Seq(E)
         /\ OnePerSession(q) => OnePerSession(Tail(q))
         /\ \A i \in DOMAIN Tail(q) : i + 1 \in DOMAIN q /\ i # 0 /\ Tail(q)[i] = q[i + 1]
         /\ \A i \in DOMAIN q \ {1} : i - 1 \in DOMAIN Tail(q) /\ Tail(q)[i - 1] = q[i]
<1>1. /\ DOMAIN q = 1..Len(q) /\ Len(q) \in Nat /\ Len(q) > 0 /\ Tail(q) \in Seq(E)
      /\ Len(Tail(q)) = Len(q) - 1 /\ DOMAIN Tail(q) = 1..(Len(q) - 1)
  OBVIOUS
<1>2. \A i \in 1..(Len(q) - 1) : Tail(q)[i] = q[i + 1]
  BY <1>1
<1>3. \A i \in DOMAIN Tail(q) : i + 1 \in DOMAIN q /\ i # 0 /\ Tail(q)[i] = q[i + 1]
  BY <1>1, <1>2
<1>4. \A i \in DOMAIN q \ {1} : i - 1 \in DOMAIN Tail(q) /\ Tail(q)[i - 1] = q[i]
  <2>1. TAKE i \in DOMAIN q \ {1}
  <2>2. i - 1 \in 1..(Len(q) - 1) /\ (i - 1) + 1 = i
    BY <1>1
  <2>3. QED
    BY <2>2, <1>1, <1>2
<1>5. OnePerSession(q) => OnePerSession(Tail(q))
  <2>1. ASSUME OnePerSession(q), NEW i \in DOMAIN Tail(q), NEW j \in DOMAIN Tail(q),
               Tail(q)[i].session = Tail(q)[j].session
        PROVE  i = j
    <3>1. i + 1 = j + 1
      BY <2>1, <1>3 DEF OnePerSession
    <3>2. i \in Nat /\ j \in Nat
      BY <1>1
    <3>3. QED
      BY <3>1, <3>2
  <2>2. QED
    BY <2>1 DEF OnePerSession
<1>6. Head(q) = q[1] /\ 1 \in DOMAIN q /\ Head(q) \in E
  BY <1>1
<1>7. QED
  BY <1>1, <1>3, <1>4, <1>5, <1>6
USE LoginAssumption

(* The login waits, or waited, for an answer of the credential dialog.     *)
Asked(c) == NeedUser(copy[c]) \/ NeedPassword(SessionOf[c], copy[c])

(* What holds of one login wherever it is.                                 *)
Waits(c) ==
  /\ phase[c] = "waitCred" => HasEntry(credQueue, c)
  /\ phase[c] = "waitMfa" => HasEntry(mfaQueue, c)

Own(c) ==
  phase[c] \in {"auth", "kbd", "reply", "askMfa", "waitMfa", "in"} =>
    /\ Asked(c) => decided[SessionOf[c]] \in Login
    /\ cred[c].user = (IF NeedUser(copy[c]) THEN decided[SessionOf[c]].user ELSE copy[c].user)
    /\ cred[c].password = (IF NeedPassword(SessionOf[c], copy[c])
                            THEN decided[SessionOf[c]].password ELSE copy[c].password)

BeforeAuth(c) ==
  /\ phase[c] \in {"connecting", "askCred", "waitCred"} => cred[c] = copy[c]
  /\ phase[c] \in {"askCred", "waitCred"} => Asked(c)
  /\ phase[c] \in {"connecting", "askCred", "waitCred", "auth"} =>
       offered[c] = 0 /\ ~passwordUsed[c]

InExchange(c) ==
  /\ phase[c] \in {"kbd", "reply", "askMfa", "waitMfa"} =>
       /\ c \in Shell /\ SessionOf[c] \notin KeyAuth
       /\ offered[c] = IF passwordUsed[c] THEN 2 ELSE 1
  /\ phase[c] \in {"askMfa", "waitMfa"} => todo[c] # <<>>
  /\ offered[c] <= (IF c \in Shell /\ SessionOf[c] \notin KeyAuth THEN 2 ELSE 1)

ConnInv(c) == Waits(c) /\ Own(c) /\ BeforeAuth(c) /\ InExchange(c)

(* A responder is in the entry of its own session.                         *)
AtHome ==
  /\ \A i \in DOMAIN credQueue : \A r \in credQueue[i].responders :
       SessionOf[r.conn] = credQueue[i].session
  /\ \A i \in DOMAIN mfaQueue : \A r \in mfaQueue[i].responders :
       SessionOf[r.conn] = mfaQueue[i].session

QueueInv ==
  /\ OnePerSession(credQueue) /\ OnePerSession(mfaQueue)
  /\ credDialog = ShowFront(credQueue) /\ mfaDialog = ShowFront(mfaQueue)
  /\ AtHome /\ AskedOncePerRun

IInv == TypeOK /\ QueueInv /\ \A c \in Conn : ConnInv(c)

-----------------------------------------------------------------------------
(* The start.                                                              *)

LEMMA InitInv == Init => IInv
<1> SUFFICES ASSUME Init PROVE IInv
  OBVIOUS
<1>1. store \in [Session -> Login]
  BY DEF Init
<1>2. copy \in [Conn -> Login] /\ cred = copy
  BY <1>1 DEF Init
<1>3. credQueue = <<>> /\ mfaQueue = <<>>
  BY DEF Init
<1>4. TypeOK
  <2>1. credQueue \in Seq(CredEntry) /\ mfaQueue \in Seq(MfaEntry)
    BY <1>3
  <2>2. decided \in [Session -> Login \cup {Cancel, Undecided}]
    BY DEF Init
  <2>3. todo \in [Conn -> Seq({"password", "code"})] /\ rounds \in [Conn -> 0..MaxRounds]
    BY DEF Init
  <2>4. QED
    BY <1>1, <1>2, <2>1, <2>2, <2>3 DEF Init, TypeOK, Phase, Over, CredEntry, MfaEntry
<1>5. QueueInv
  BY <1>3 DEF Init, QueueInv, OnePerSession, ShowFront, AtHome, AskedOncePerRun
<1>6. \A c \in Conn : ConnInv(c)
  BY DEF Init, ConnInv, Waits, Own, BeforeAuth, InExchange
<1>7. QED
  BY <1>4, <1>5, <1>6 DEF IInv

-----------------------------------------------------------------------------
(* The steps of one connection.                                            *)

(* Nothing that matters to the login of d changed.                         *)
Still(d) ==
  /\ phase'[d] = phase[d] /\ starts'[d] = starts[d] /\ copy'[d] = copy[d] /\ cred'[d] = cred[d]
  /\ todo'[d] = todo[d] /\ passwordUsed'[d] = passwordUsed[d] /\ offered'[d] = offered[d]

LEMMA StillInv ==
  ASSUME NEW d \in Conn, ConnInv(d), Still(d),
         phase[d] = "waitCred" => HasEntry(credQueue, d)',
         phase[d] = "waitMfa" => HasEntry(mfaQueue, d)',
         Asked(d) /\ decided[SessionOf[d]] \in Login => decided'[SessionOf[d]] = decided[SessionOf[d]]
  PROVE  ConnInv(d)'
<1>1. Waits(d)'
  BY DEF ConnInv, Waits, Still
<1>2. Own(d)'
  BY DEF ConnInv, Own, Still, Asked
<1>3. BeforeAuth(d)' /\ InExchange(d)'
  BY DEF ConnInv, BeforeAuth, InExchange, Still, Asked
<1>4. QED
  BY <1>1, <1>2, <1>3 DEF ConnInv

(* A connection's own step keeps the invariant if it keeps it for itself.  *)
LEMMA OwnStep ==
  ASSUME IInv, NEW c \in Conn, TypeOK', UNCHANGED <<credVars, mfaVars>>,
         \A d \in Conn \ {c} : Still(d), ConnInv(c)'
  PROVE  IInv'
<1>1. QueueInv'
  BY DEF IInv, QueueInv, OnePerSession, ShowFront, AtHome, AskedOncePerRun, credVars, mfaVars
<1>2. ASSUME NEW d \in Conn PROVE ConnInv(d)'
  <2>1. CASE d = c
    BY <2>1
  <2>2. CASE d # c
    <3>1. ConnInv(d) /\ Still(d)
      BY <2>2 DEF IInv
    <3>2. /\ phase[d] = "waitCred" => HasEntry(credQueue, d)'
          /\ phase[d] = "waitMfa" => HasEntry(mfaQueue, d)'
      BY <3>1 DEF ConnInv, Waits, HasEntry, Me, Still, credVars, mfaVars
    <3>3. decided' = decided
      BY DEF credVars
    <3>4. QED
      BY <3>1, <3>2, <3>3, StillInv
  <2>3. QED
    BY <2>1, <2>2
<1>3. QED
  BY <1>1, <1>2 DEF IInv

LEMMA StartInv == ASSUME IInv, NEW c \in Conn, Start(c) PROVE IInv'
<1>1. TypeOK'
  <2>1. store[SessionOf[c]] \in Login /\ starts[c] + 1 \in Nat /\ 0 \in 0..MaxRounds
    BY DEF IInv, TypeOK
  <2>2. <<>> \in Seq({"password", "code"})
    OBVIOUS
  <2>3. QED
    BY <2>1, <2>2 DEF IInv, TypeOK, Start, Phase, credVars, mfaVars
<1>2. \A d \in Conn \ {c} : Still(d)
  BY DEF IInv, TypeOK, Start, Still
<1>3. ConnInv(c)'
  BY DEF IInv, TypeOK, Start, ConnInv, Waits, Own, BeforeAuth, InExchange
<1>4. QED
  BY <1>1, <1>2, <1>3, OwnStep DEF Start

LEMMA WorkerInv == ASSUME IInv, NEW c \in Conn, Worker(c) PROVE IInv'
<1> USE DEF IInv, TypeOK, ConnInv, Waits, Own, BeforeAuth, InExchange
<1>1. ConnInv(c)
  OBVIOUS
<1>2. CASE ResolveCredentials(c)
  <2>1. TypeOK' /\ \A d \in Conn \ {c} : Still(d)
    <3>1. phase' \in [Conn -> Phase]
      BY <1>2 DEF ResolveCredentials, Phase, Over, Asking
    <3>2. TypeOK'
      BY <1>2, <3>1 DEF ResolveCredentials, credVars, mfaVars
    <3>3. \A d \in Conn \ {c} : Still(d)
      BY <1>2 DEF ResolveCredentials, Still
    <3>4. QED
      BY <3>2, <3>3
  <2>2. ConnInv(c)'
    BY <1>1, <1>2 DEF ResolveCredentials, Asked, NeedUser, NeedPassword
  <2>3. QED
    BY <1>2, <2>1, <2>2, OwnStep DEF ResolveCredentials
<1>3. CASE Authenticate(c)
  <2>1. TypeOK' /\ \A d \in Conn \ {c} : Still(d)
    <3>0. PICK p \in {"in", "refused", "kbd"} : phase' = [phase EXCEPT ![c] = p]
      BY <1>3 DEF Authenticate
    <3>1. phase' \in [Conn -> Phase]
      <4>1. phase \in [Conn -> Phase] /\ p \in Phase
        BY DEF Phase, Over
      <4>2. QED
        BY <3>0, <4>1
    <3>2. TypeOK'
      BY <1>3, <3>1 DEF Authenticate, credVars, mfaVars
    <3>3. \A d \in Conn \ {c} : Still(d)
      BY <1>3 DEF Authenticate, Still
    <3>4. QED
      BY <3>2, <3>3
  <2>2. ConnInv(c)'
    BY <1>1, <1>3 DEF Authenticate, Asked, credVars
  <2>3. QED
    BY <1>3, <2>1, <2>2, OwnStep DEF Authenticate
<1>4. CASE FileAuthenticate(c)
  <2>1. TypeOK' /\ \A d \in Conn \ {c} : Still(d)
    <3>1. phase' \in [Conn -> Phase]
      BY <1>4 DEF FileAuthenticate, Phase, Over, Asking
    <3>2. TypeOK'
      BY <1>4, <3>1 DEF FileAuthenticate, credVars, mfaVars
    <3>3. \A d \in Conn \ {c} : Still(d)
      BY <1>4 DEF FileAuthenticate, Still
    <3>4. QED
      BY <3>2, <3>3
  <2>2. ConnInv(c)'
    BY <1>1, <1>4 DEF FileAuthenticate, Asked, credVars
  <2>3. QED
    BY <1>4, <2>1, <2>2, OwnStep DEF FileAuthenticate
<1>5. CASE AnswerPrompt(c)
  <2>1. TypeOK' /\ \A d \in Conn \ {c} : Still(d)
    <3>1. phase' \in [Conn -> Phase]
      BY <1>5 DEF AnswerPrompt, Phase, Over, Asking
    <3>2. TypeOK'
      BY <1>5, <3>1 DEF AnswerPrompt, credVars, mfaVars
    <3>3. \A d \in Conn \ {c} : Still(d)
      BY <1>5 DEF AnswerPrompt, Still
    <3>4. QED
      BY <3>2, <3>3
  <2>2. ConnInv(c)'
    BY <1>1, <1>5 DEF AnswerPrompt, StoredPasswordFits, Asked, credVars
  <2>3. QED
    BY <1>5, <2>1, <2>2, OwnStep DEF AnswerPrompt
<1>6. CASE AskMfaPrompt(c)
  <2>1. TypeOK' /\ \A d \in Conn \ {c} : Still(d)
    <3>1. phase' \in [Conn -> Phase]
      BY <1>6 DEF AskMfaPrompt, Phase, Over, Asking
    <3>2. TypeOK'
      BY <1>6, <3>1 DEF AskMfaPrompt, credVars, mfaVars
    <3>3. \A d \in Conn \ {c} : Still(d)
      BY <1>6 DEF AskMfaPrompt, Still
    <3>4. QED
      BY <3>2, <3>3
  <2>2. ConnInv(c)'
    BY <1>1, <1>6 DEF AskMfaPrompt, Asked, credVars
  <2>3. QED
    BY <1>6, <2>1, <2>2, OwnStep DEF AskMfaPrompt
<1>7. CASE RespondToRequest(c)
  <2>1. TypeOK' /\ \A d \in Conn \ {c} : Still(d)
    <3>1. phase' \in [Conn -> Phase]
      BY <1>7 DEF RespondToRequest, Phase, Over, Asking
    <3>2. TypeOK'
      BY <1>7, <3>1 DEF RespondToRequest, credVars, mfaVars
    <3>3. \A d \in Conn \ {c} : Still(d)
      BY <1>7 DEF RespondToRequest, Still
    <3>4. QED
      BY <3>2, <3>3
  <2>2. ConnInv(c)'
    BY <1>1, <1>7 DEF RespondToRequest, Asked, credVars
  <2>3. QED
    BY <1>7, <2>1, <2>2, OwnStep DEF RespondToRequest
<1>8. QED
  BY <1>2, <1>3, <1>4, <1>5, <1>6, <1>7 DEF Worker

LEMMA ServerInv == ASSUME IInv, NEW c \in Conn, Server(c) PROVE IInv'
<1> USE DEF IInv, TypeOK, ConnInv, Waits, Own, BeforeAuth, InExchange
<1>1. ConnInv(c)
  OBVIOUS
<1>2. CASE ServerResult(c)
  <2>1. TypeOK' /\ \A d \in Conn \ {c} : Still(d)
    <3>0. PICK p \in {"in", "refused"} : phase' = [phase EXCEPT ![c] = p]
      BY <1>2 DEF ServerResult
    <3>1. phase' \in [Conn -> Phase]
      <4>1. phase \in [Conn -> Phase] /\ p \in Phase
        BY DEF Phase, Over
      <4>2. QED
        BY <3>0, <4>1
    <3>2. TypeOK'
      BY <1>2, <3>1 DEF ServerResult, credVars, mfaVars
    <3>3. \A d \in Conn \ {c} : Still(d)
      BY <1>2 DEF ServerResult, Still
    <3>4. QED
      BY <3>2, <3>3
  <2>2. ConnInv(c)'
    BY <1>1, <1>2 DEF ServerResult, Asked, credVars
  <2>3. QED
    BY <1>2, <2>1, <2>2, OwnStep DEF ServerResult
<1>3. CASE ServerRequest(c)
  <2>1. TypeOK' /\ \A d \in Conn \ {c} : Still(d)
    <3>1. phase' \in [Conn -> Phase]
      BY <1>3 DEF ServerRequest, Phase, Over, Asking
    <3>2. TypeOK'
      BY <1>3, <3>1 DEF ServerRequest, credVars, mfaVars
    <3>3. \A d \in Conn \ {c} : Still(d)
      BY <1>3 DEF ServerRequest, Still
    <3>4. QED
      BY <3>2, <3>3
  <2>2. ConnInv(c)'
    BY <1>1, <1>3 DEF ServerRequest, Asked, credVars
  <2>3. QED
    BY <1>3, <2>1, <2>2, OwnStep DEF ServerRequest
<1>4. QED
  BY <1>2, <1>3 DEF Server

LEMMA EnvironmentInv == ASSUME IInv, NEW c \in Conn, Environment(c) PROVE IInv'
<1> USE DEF IInv, TypeOK, ConnInv, Waits, Own, BeforeAuth, InExchange
<1>1. ConnInv(c)
  OBVIOUS
<1>2. CASE ConnectionLost(c) \/ AbortFileWorker(c)
  <2>1. TypeOK' /\ \A d \in Conn \ {c} : Still(d)
    <3>0. phase' = [phase EXCEPT ![c] = "idle"]
      BY <1>2 DEF ConnectionLost, AbortFileWorker
    <3>1. phase' \in [Conn -> Phase]
      <4>1. phase \in [Conn -> Phase] /\ "idle" \in Phase
        BY DEF Phase, Over
      <4>2. QED
        BY <3>0, <4>1
    <3>2. TypeOK'
      BY <1>2, <3>1 DEF ConnectionLost, AbortFileWorker, credVars, mfaVars
    <3>3. \A d \in Conn \ {c} : Still(d)
      BY <1>2 DEF ConnectionLost, AbortFileWorker, Still
    <3>4. QED
      BY <3>2, <3>3
  <2>2. ConnInv(c)'
    BY <1>1, <1>2 DEF ConnectionLost, AbortFileWorker
  <2>3. QED
    BY <1>2, <2>1, <2>2, OwnStep DEF ConnectionLost, AbortFileWorker
<1>3. QED
  BY <1>2, StartInv DEF Environment

-----------------------------------------------------------------------------
(* The steps that change a queue.                                          *)

LEMMA MergedType ==
  ASSUME NEW c \in Conn, NEW r \in Login, TypeOK
  PROVE  Merged(c, r) \in Login
BY DEF Merged, TypeOK, Login

LEMMA CredPromptInv == ASSUME IInv, NEW c \in Conn, EnqueueCredPrompt(c) PROVE IInv'
<1> DEFINE s == SessionOf[c]
           entry == [session |-> s, user |-> copy[c].user, needUser |-> NeedUser(copy[c]),
                     needPassword |-> NeedPassword(s, copy[c]), responders |-> {Me(c)}]
<1>1. /\ phase[c] = "askCred" /\ ConnInv(c) /\ TypeOK /\ QueueInv
      /\ s \in Session /\ entry \in CredEntry
      /\ UNCHANGED <<store, starts, copy, todo, rounds, passwordUsed, offered, decided, mfaVars>>
  <2>1. /\ phase[c] = "askCred" /\ ConnInv(c) /\ TypeOK /\ QueueInv /\ s \in Session
        /\ UNCHANGED <<store, starts, copy, todo, rounds, passwordUsed, offered, decided, mfaVars>>
    BY DEF EnqueueCredPrompt, IInv
  <2>2. copy[c] \in Login /\ Me(c) \in Responder
    BY <2>1 DEF TypeOK, Me, Responder
  <2>3. NeedUser(copy[c]) \in BOOLEAN /\ NeedPassword(s, copy[c]) \in BOOLEAN
    BY DEF NeedUser, NeedPassword
  <2>4. QED
    BY <2>1, <2>2, <2>3 DEF CredEntry, Login
<1>2. CASE decided[s] # Undecided /\ Credit({c}, decided[s]) /\ UNCHANGED <<credQueue, credDialog>>
  <2>1. decided[s] \in Login \cup {Cancel}
    BY <1>1, <1>2 DEF TypeOK
  <2>2. PICK p \in {"auth", "cancelled", "refused"} :
          /\ phase' = [phase EXCEPT ![c] = p]
          /\ decided[s] # Cancel => p = "auth"
          /\ decided[s] = Cancel => p # "auth"
    BY <1>1, <1>2 DEF Credit, TypeOK
  <2>3. /\ decided[s] # Cancel => cred' = [cred EXCEPT ![c] = Merged(c, decided[s])]
        /\ decided[s] = Cancel => cred' = cred
    BY <1>1, <1>2 DEF Credit, TypeOK
  <2>4. phase' \in [Conn -> Phase] /\ cred' \in [Conn -> Login]
    <3>1. p \in Phase
      BY DEF Phase, Over
    <3>2. phase' \in [Conn -> Phase]
      BY <1>1, <2>2, <3>1 DEF TypeOK
    <3>3. decided[s] # Cancel => Merged(c, decided[s]) \in Login
      BY <1>1, <2>1, MergedType
    <3>4. QED
      BY <1>1, <2>3, <3>2, <3>3 DEF TypeOK
  <2>5. TypeOK'
    BY <1>1, <1>2, <2>4 DEF TypeOK, mfaVars
  <2>6. \A d \in Conn \ {c} : Still(d)
    BY <1>1, <2>2, <2>3 DEF Still, TypeOK
  <2>7. ConnInv(c)'
    <3>1. phase'[c] = p /\ offered'[c] = 0 /\ ~passwordUsed'[c] /\ copy' = copy /\ decided' = decided
      BY <1>1, <2>2 DEF TypeOK, ConnInv, BeforeAuth
    <3>2. Waits(c)' /\ BeforeAuth(c)' /\ InExchange(c)'
      BY <3>1 DEF Waits, BeforeAuth, InExchange
    <3>3. Own(c)'
      <4>1. CASE decided[s] = Cancel
        BY <2>2, <3>1, <4>1 DEF Own
      <4>2. CASE decided[s] # Cancel
        <5>1. decided[s] \in Login /\ cred'[c] = Merged(c, decided[s])
          BY <1>1, <2>1, <2>3, <4>2 DEF TypeOK
        <5>2. QED
          BY <3>1, <5>1 DEF Own, Merged
      <4>3. QED
        BY <4>1, <4>2
    <3>4. QED
      BY <3>2, <3>3 DEF ConnInv
  <2>8. QED
    BY <1>1, <1>2, <2>5, <2>6, <2>7, OwnStep DEF credVars, mfaVars
<1>3. CASE /\ decided[s] = Undecided
           /\ credQueue' = Enqueued(credQueue, entry)
           /\ credDialog' = IF credQueue = <<>> THEN ShowFront(credQueue') ELSE credDialog
           /\ phase' = [phase EXCEPT ![c] = "waitCred"]
           /\ UNCHANGED cred
  <2> HIDE DEF entry
  <2>1. credQueue \in Seq(CredEntry)
    BY <1>1 DEF TypeOK, CredEntry
  <2>2. /\ credQueue' \in Seq(CredEntry) /\ Added(credQueue, credQueue', entry)
        /\ credQueue' # <<>>
        /\ credQueue # <<>> => ShowFront(credQueue') = ShowFront(credQueue)
    BY <1>1, <1>3, <2>1, EnqueuedCred
  <2>3. entry.session = s /\ entry.responders = {Me(c)} /\ Me(c).conn = c
    BY DEF entry, Me
  <2>4. TypeOK'
    <3>1. "waitCred" \in Phase
      BY DEF Phase, Asking
    <3>2. phase' \in [Conn -> Phase]
      BY <1>1, <1>3, <3>1 DEF TypeOK
    <3>3. QED
      BY <1>1, <1>3, <2>2, <3>2 DEF TypeOK, mfaVars, CredEntry
  <2>5. QueueInv'
    <3>1. OnePerSession(credQueue)'
      BY <1>1, <2>2 DEF QueueInv, Added
    <3>2. credDialog' = ShowFront(credQueue')
      BY <1>1, <1>3, <2>2 DEF QueueInv
    <3>3. ASSUME NEW i \in DOMAIN credQueue', NEW r \in credQueue'[i].responders
          PROVE  SessionOf[r.conn] = credQueue'[i].session
      BY <1>1, <2>2, <2>3 DEF QueueInv, AtHome, Added
    <3>4. ASSUME NEW i \in DOMAIN credQueue'
          PROVE  decided'[credQueue'[i].session] = Undecided
      BY <1>1, <1>3, <2>2, <2>3 DEF QueueInv, AskedOncePerRun, Added
    <3>5. OnePerSession(mfaQueue)' /\ mfaDialog' = ShowFront(mfaQueue')
      BY <1>1 DEF QueueInv, mfaVars, OnePerSession, ShowFront
    <3>6. AtHome'
      BY <1>1, <3>3 DEF QueueInv, AtHome, mfaVars
    <3>7. QED
      BY <3>1, <3>2, <3>4, <3>5, <3>6 DEF QueueInv, AskedOncePerRun
  <2>6. ASSUME NEW d \in Conn PROVE ConnInv(d)'
    <3>1. CASE d # c
      <4>1. ConnInv(d) /\ Still(d)
        BY <1>1, <1>3, <3>1 DEF IInv, TypeOK, Still
      <4>2. phase[d] = "waitCred" => HasEntry(credQueue, d)'
        <5>1. ASSUME NEW i \in DOMAIN credQueue, credQueue[i].session = SessionOf[d],
                     Me(d) \in credQueue[i].responders
              PROVE  HasEntry(credQueue, d)'
          BY <1>1, <2>2, <5>1 DEF HasEntry, Added, Me
        <5>2. QED
          BY <4>1, <5>1 DEF ConnInv, Waits, HasEntry
      <4>3. phase[d] = "waitMfa" => HasEntry(mfaQueue, d)'
        BY <1>1, <4>1 DEF ConnInv, Waits, HasEntry, Me, mfaVars
      <4>4. QED
        BY <1>1, <4>1, <4>2, <4>3, StillInv
    <3>2. CASE d = c
      <4>1. phase'[c] = "waitCred" /\ copy' = copy /\ cred' = cred /\ offered' = offered
            /\ passwordUsed' = passwordUsed
        BY <1>1, <1>3 DEF TypeOK
      <4>2. HasEntry(credQueue, c)'
        BY <1>1, <2>2, <2>3 DEF HasEntry, Added, Me
      <4>3. Waits(c)' /\ Own(c)'
        BY <4>1, <4>2 DEF Waits, Own
      <4>4. BeforeAuth(c)' /\ InExchange(c)'
        BY <1>1, <4>1 DEF ConnInv, BeforeAuth, InExchange, Asked
      <4>5. QED
        BY <3>2, <4>3, <4>4 DEF ConnInv
    <3>3. QED
      BY <3>1, <3>2
  <2>7. QED
    BY <2>4, <2>5, <2>6 DEF IInv
<1>4. QED
  BY <1>2, <1>3 DEF EnqueueCredPrompt

LEMMA MfaPromptInv == ASSUME IInv, NEW c \in Conn, EnqueueMfaPrompt(c) PROVE IInv'
<1> DEFINE entry == [session |-> SessionOf[c], prompt |-> Head(todo[c]), responders |-> {Me(c)}]
<1>1. /\ phase[c] = "askMfa" /\ ConnInv(c) /\ TypeOK /\ QueueInv
      /\ mfaQueue' = Enqueued(mfaQueue, entry)
      /\ mfaDialog' = IF mfaQueue = <<>> THEN ShowFront(mfaQueue') ELSE mfaDialog
      /\ phase' = [phase EXCEPT ![c] = "waitMfa"]
      /\ UNCHANGED <<store, starts, copy, cred, todo, rounds, passwordUsed, offered, credVars>>
  BY DEF EnqueueMfaPrompt, IInv
<1>2. entry \in MfaEntry
  <2>1. todo[c] # <<>> /\ todo[c] \in Seq({"password", "code"})
    BY <1>1 DEF TypeOK, ConnInv, InExchange
  <2>2. Head(todo[c]) \in {"password", "code"}
    BY <2>1
  <2>3. Me(c) \in Responder /\ SessionOf[c] \in Session
    BY <1>1 DEF TypeOK, Me, Responder
  <2>4. QED
    BY <2>2, <2>3 DEF MfaEntry
<1>3. entry.session = SessionOf[c] /\ entry.responders = {Me(c)}
  OBVIOUS
<1> HIDE DEF entry
<1>4. mfaQueue \in Seq(MfaEntry)
  BY <1>1 DEF TypeOK, MfaEntry
<1>5. /\ mfaQueue' \in Seq(MfaEntry) /\ Added(mfaQueue, mfaQueue', entry)
      /\ mfaQueue' # <<>>
      /\ mfaQueue # <<>> => ShowFront(mfaQueue') = ShowFront(mfaQueue)
  BY <1>1, <1>2, <1>4, EnqueuedMfa
<1>6. TypeOK'
  <2>1. "waitMfa" \in Phase
    BY DEF Phase, Asking
  <2>2. phase' \in [Conn -> Phase]
    BY <1>1, <2>1 DEF TypeOK
  <2>3. QED
    BY <1>1, <1>5, <2>2 DEF TypeOK, credVars, MfaEntry
<1>7. QueueInv'
  <2>1. OnePerSession(mfaQueue)'
    BY <1>1, <1>5 DEF QueueInv, Added
  <2>2. mfaDialog' = ShowFront(mfaQueue')
    BY <1>1, <1>5 DEF QueueInv
  <2>3. OnePerSession(credQueue)' /\ credDialog' = ShowFront(credQueue') /\ AskedOncePerRun'
    BY <1>1 DEF QueueInv, credVars, OnePerSession, ShowFront, AskedOncePerRun
  <2>4. AtHome'
    <3>1. Me(c).conn = c
      BY DEF Me
    <3>2. ASSUME NEW i \in DOMAIN mfaQueue', NEW r \in mfaQueue'[i].responders
          PROVE  SessionOf[r.conn] = mfaQueue'[i].session
      BY <1>1, <1>3, <1>5, <3>1 DEF QueueInv, AtHome, Added
    <3>3. QED
      BY <1>1, <3>2 DEF QueueInv, AtHome, credVars
  <2>5. QED
    BY <2>1, <2>2, <2>3, <2>4 DEF QueueInv
<1>8. ASSUME NEW d \in Conn PROVE ConnInv(d)'
  <2>1. CASE d # c
    <3>1. ConnInv(d) /\ Still(d)
      BY <1>1, <2>1 DEF IInv, TypeOK, Still
    <3>2. phase[d] = "waitMfa" => HasEntry(mfaQueue, d)'
      <4>1. ASSUME NEW i \in DOMAIN mfaQueue, mfaQueue[i].session = SessionOf[d],
                   Me(d) \in mfaQueue[i].responders
            PROVE  HasEntry(mfaQueue, d)'
        BY <1>1, <1>5, <4>1 DEF HasEntry, Added, Me
      <4>2. QED
        BY <3>1, <4>1 DEF ConnInv, Waits, HasEntry
    <3>3. phase[d] = "waitCred" => HasEntry(credQueue, d)'
      BY <1>1, <3>1 DEF ConnInv, Waits, HasEntry, Me, credVars
    <3>4. decided' = decided
      BY <1>1 DEF credVars
    <3>5. QED
      BY <3>1, <3>2, <3>3, <3>4, StillInv
  <2>2. CASE d = c
    <3>1. phase'[c] = "waitMfa" /\ copy' = copy /\ cred' = cred /\ offered' = offered
          /\ passwordUsed' = passwordUsed /\ todo' = todo /\ decided' = decided
      BY <1>1 DEF TypeOK, credVars
    <3>2. HasEntry(mfaQueue, c)'
      BY <1>1, <1>3, <1>5 DEF HasEntry, Added, Me
    <3>3. Waits(c)' /\ BeforeAuth(c)'
      BY <3>1, <3>2 DEF Waits, BeforeAuth
    <3>4. Own(c)' /\ InExchange(c)'
      BY <1>1, <3>1 DEF ConnInv, Own, InExchange, Asked
    <3>5. QED
      BY <2>2, <3>3, <3>4 DEF ConnInv
  <2>3. QED
    BY <2>1, <2>2
<1>9. QED
  BY <1>6, <1>7, <1>8 DEF IInv

LEMMA MfaAnswerInv == ASSUME IInv, ResolveFrontMfa PROVE IInv'
<1> DEFINE C == Waiting(Head(mfaQueue).responders, "waitMfa")
<1>1. PICK accept \in BOOLEAN :
        /\ phase' = [c \in Conn |-> IF c \notin C THEN phase[c]
                                    ELSE IF accept THEN "reply" ELSE "refused"]
        /\ todo' = [c \in Conn |-> IF c \in C /\ accept THEN Tail(todo[c]) ELSE todo[c]]
  BY DEF ResolveFrontMfa
<1>2. /\ mfaQueue # <<>> /\ TypeOK /\ QueueInv /\ mfaQueue' = Tail(mfaQueue)
      /\ mfaDialog' = ShowFront(mfaQueue')
      /\ UNCHANGED <<store, starts, copy, cred, rounds, passwordUsed, offered, credVars>>
      /\ \A c \in Conn : ConnInv(c)
  BY DEF ResolveFrontMfa, IInv
<1>3. mfaQueue \in Seq(MfaEntry)
  BY <1>2 DEF TypeOK, MfaEntry
<1>4. /\ Head(mfaQueue) = mfaQueue[1] /\ 1 \in DOMAIN mfaQueue
      /\ mfaQueue' \in Seq(MfaEntry)
      /\ OnePerSession(mfaQueue) => OnePerSession(mfaQueue')
      /\ \A i \in DOMAIN mfaQueue' :
           i + 1 \in DOMAIN mfaQueue /\ mfaQueue'[i] = mfaQueue[i + 1]
      /\ \A i \in DOMAIN mfaQueue \ {1} :
           i - 1 \in DOMAIN mfaQueue' /\ mfaQueue'[i - 1] = mfaQueue[i]
  BY <1>2, <1>3, Popped
<1>5. \A c \in C : phase[c] = "waitMfa" /\ c \in Conn /\ todo[c] # <<>>
  BY <1>2 DEF Waiting, ConnInv, InExchange
<1> HIDE DEF C
<1>6. TypeOK'
  <2>1. phase' \in [Conn -> Phase]
    BY <1>1, <1>2 DEF TypeOK, Phase, Over
  <2>2. todo' \in [Conn -> Seq({"password", "code"})]
    <3>1. ASSUME NEW c \in Conn PROVE todo'[c] \in Seq({"password", "code"})
      <4>1. todo[c] \in Seq({"password", "code"})
        BY <1>2 DEF TypeOK
      <4>2. CASE c \in C /\ accept
        <5>1. Tail(todo[c]) \in Seq({"password", "code"})
          BY <4>1, <4>2, <1>5
        <5>2. QED
          BY <4>2, <5>1, <1>1
      <4>3. CASE ~(c \in C /\ accept)
        BY <4>1, <4>3, <1>1
      <4>4. QED
        BY <4>2, <4>3
    <3>2. QED
      BY <3>1, <1>1
  <2>3. QED
    BY <1>2, <1>4, <2>1, <2>2 DEF TypeOK, credVars, MfaEntry
<1>7. QueueInv'
  <2>1. OnePerSession(credQueue)' /\ credDialog' = ShowFront(credQueue') /\ AtHome' /\ AskedOncePerRun'
    BY <1>2 DEF QueueInv, credVars, OnePerSession, ShowFront, AtHome, AskedOncePerRun
  <2>2. OnePerSession(mfaQueue)'
    BY <1>2, <1>4 DEF QueueInv
  <2>3. QED
    BY <1>2, <2>1, <2>2 DEF QueueInv
<1>8. ASSUME NEW d \in Conn PROVE ConnInv(d)'
  <2>0. ConnInv(d) /\ starts' = starts /\ copy' = copy /\ cred' = cred /\ offered' = offered
        /\ passwordUsed' = passwordUsed /\ decided' = decided /\ credQueue' = credQueue
    BY <1>2 DEF credVars
  <2>1. CASE d \notin C
    <3>1. Still(d)
      BY <1>1, <2>0, <2>1 DEF Still
    <3>2. phase[d] = "waitCred" => HasEntry(credQueue, d)'
      BY <2>0 DEF ConnInv, Waits, HasEntry, Me
    <3>3. phase[d] = "waitMfa" => HasEntry(mfaQueue, d)'
      <4>1. ASSUME phase[d] = "waitMfa" PROVE HasEntry(mfaQueue, d)'
        <5>1. PICK i \in DOMAIN mfaQueue : mfaQueue[i].session = SessionOf[d]
                                           /\ Me(d) \in mfaQueue[i].responders
          BY <2>0, <4>1 DEF ConnInv, Waits, HasEntry
        <5>2. i # 1
          BY <1>4, <2>1, <4>1, <5>1 DEF C, Waiting
        <5>3. i - 1 \in DOMAIN mfaQueue' /\ mfaQueue'[i - 1] = mfaQueue[i]
          BY <1>4, <5>2
        <5>4. QED
          BY <2>0, <5>1, <5>3 DEF HasEntry, Me
      <4>2. QED
        BY <4>1
    <3>4. QED
      BY <2>0, <3>1, <3>2, <3>3, StillInv
  <2>2. CASE d \in C
    <3>1. phase[d] = "waitMfa" /\ phase'[d] \in {"reply", "refused"}
      BY <1>1, <1>5, <2>2
    <3>2. Waits(d)' /\ BeforeAuth(d)'
      BY <3>1 DEF Waits, BeforeAuth
    <3>3. Own(d)' /\ InExchange(d)'
      BY <2>0, <3>1 DEF ConnInv, Own, InExchange, Asked
    <3>4. QED
      BY <3>2, <3>3 DEF ConnInv
  <2>3. QED
    BY <2>1, <2>2
<1>9. QED
  BY <1>6, <1>7, <1>8 DEF IInv

LEMMA CredAnswerInv == ASSUME IInv, ResolveFrontCred PROVE IInv'
<1> DEFINE entry == Head(credQueue)
           C == Waiting(entry.responders, "waitCred")
<1>1. PICK reply \in Answers(credDialog) \cup {Cancel}, remember \in BOOLEAN :
        /\ decided' = [decided EXCEPT ![entry.session] = reply]
        /\ IF reply # Cancel /\ remember THEN PersistCredentials(entry, reply) ELSE UNCHANGED store
        /\ Credit(C, reply)
  BY DEF ResolveFrontCred
<1>2. /\ credQueue # <<>> /\ TypeOK /\ QueueInv /\ credQueue' = Tail(credQueue)
      /\ credDialog' = ShowFront(credQueue')
      /\ UNCHANGED <<starts, copy, todo, rounds, passwordUsed, offered, mfaVars>>
      /\ \A c \in Conn : ConnInv(c)
  BY DEF ResolveFrontCred, IInv
<1>3. credQueue \in Seq(CredEntry)
  BY <1>2 DEF TypeOK, CredEntry
<1>4. /\ entry = credQueue[1] /\ 1 \in DOMAIN credQueue /\ entry \in CredEntry
      /\ credQueue' \in Seq(CredEntry)
      /\ OnePerSession(credQueue) => OnePerSession(credQueue')
      /\ \A i \in DOMAIN credQueue' :
           i + 1 \in DOMAIN credQueue /\ i # 0 /\ credQueue'[i] = credQueue[i + 1]
      /\ \A i \in DOMAIN credQueue \ {1} :
           i - 1 \in DOMAIN credQueue' /\ credQueue'[i - 1] = credQueue[i]
  BY <1>2, <1>3, Popped
<1>5. reply \in Login \cup {Cancel}
  <2>1. credDialog = [entry EXCEPT !.responders = {}]
    BY <1>2 DEF QueueInv, ShowFront
  <2>2. credDialog.user \in Name \cup {Blank}
    BY <1>4, <2>1 DEF CredEntry
  <2>3. QED
    BY <2>2 DEF Answers, Login
<1>6. \A c \in C : phase[c] = "waitCred" /\ c \in Conn /\ SessionOf[c] = entry.session
  <2>1. ASSUME NEW c \in C PROVE phase[c] = "waitCred" /\ c \in Conn /\ SessionOf[c] = entry.session
    <3>1. phase[c] = "waitCred" /\ c \in Conn /\ Me(c) \in entry.responders /\ Me(c).conn = c
      BY DEF Waiting, Me
    <3>2. SessionOf[Me(c).conn] = credQueue[1].session
      BY <1>2, <1>4, <3>1 DEF QueueInv, AtHome
    <3>3. QED
      BY <1>4, <3>1, <3>2
  <2>2. QED
    BY <2>1
<1>7. entry.session \in Session /\ decided[entry.session] = Undecided
  BY <1>2, <1>4 DEF QueueInv, AskedOncePerRun, CredEntry
<1> HIDE DEF C, entry
<1>8. TypeOK'
  <2>1. phase' \in [Conn -> Phase]
    BY <1>1, <1>2 DEF Credit, TypeOK, Phase, Over
  <2>2. cred' \in [Conn -> Login]
    <3>1. ASSUME NEW c \in Conn PROVE cred'[c] \in Login
      <4>1. CASE c \in C /\ reply # Cancel
        <5>1. Merged(c, reply) \in Login
          BY <1>2, <1>5, <4>1, MergedType
        <5>2. QED
          BY <1>1, <4>1, <5>1 DEF Credit
      <4>2. CASE ~(c \in C /\ reply # Cancel)
        BY <1>1, <1>2, <4>2 DEF Credit, TypeOK
      <4>3. QED
        BY <4>1, <4>2
    <3>2. QED
      BY <1>1, <3>1 DEF Credit
  <2>3. decided' \in [Session -> Login \cup {Cancel, Undecided}]
    BY <1>1, <1>2, <1>5, <1>7 DEF TypeOK
  <2>4. store' \in [Session -> Login]
    <3>1. CASE reply # Cancel /\ remember
      <4>1. reply \in Login /\ store[entry.session] \in Login
        BY <1>2, <1>5, <1>7, <3>1 DEF TypeOK
      <4> DEFINE kept == [user |-> IF entry.needUser /\ reply.user # Blank
                                   THEN reply.user ELSE store[entry.session].user,
                          password |-> IF entry.needPassword THEN reply.password
                                       ELSE store[entry.session].password]
      <4>2. kept \in Login
        BY <4>1 DEF Login
      <4>3. store' = [store EXCEPT ![entry.session] = kept]
        BY <1>1, <3>1 DEF PersistCredentials
      <4> HIDE DEF kept
      <4>4. store \in [Session -> Login]
        BY <1>2 DEF TypeOK
      <4>5. QED
        BY <4>2, <4>3, <4>4
    <3>2. CASE ~(reply # Cancel /\ remember)
      BY <1>1, <1>2, <3>2 DEF TypeOK
    <3>3. QED
      BY <3>1, <3>2
  <2>5. QED
    BY <1>2, <1>4, <2>1, <2>2, <2>3, <2>4 DEF TypeOK, mfaVars, CredEntry
<1>9. QueueInv'
  <2>1. OnePerSession(mfaQueue)' /\ mfaDialog' = ShowFront(mfaQueue')
    BY <1>2 DEF QueueInv, mfaVars, OnePerSession, ShowFront
  <2>2. OnePerSession(credQueue)'
    BY <1>2, <1>4 DEF QueueInv
  <2>3. AtHome'
    <3>1. ASSUME NEW i \in DOMAIN credQueue', NEW r \in credQueue'[i].responders
          PROVE  SessionOf[r.conn] = credQueue'[i].session
      BY <1>2, <1>4 DEF QueueInv, AtHome
    <3>2. QED
      BY <1>2, <3>1 DEF QueueInv, AtHome, mfaVars
  <2>4. AskedOncePerRun'
    <3>1. ASSUME NEW i \in DOMAIN credQueue' PROVE decided'[credQueue'[i].session] = Undecided
      <4>1. i + 1 \in DOMAIN credQueue /\ i + 1 # 1 /\ credQueue'[i] = credQueue[i + 1]
        BY <1>3, <1>4
      <4>2. credQueue[i + 1].session # entry.session
        BY <1>2, <1>4, <4>1 DEF QueueInv, OnePerSession
      <4>3. decided[credQueue[i + 1].session] = Undecided
        BY <1>2, <4>1 DEF QueueInv, AskedOncePerRun
      <4>4. QED
        BY <1>1, <1>2, <4>1, <4>2, <4>3 DEF TypeOK
    <3>2. QED
      BY <3>1 DEF AskedOncePerRun
  <2>5. QED
    BY <1>2, <2>1, <2>2, <2>3, <2>4 DEF QueueInv
<1>10. ASSUME NEW d \in Conn PROVE ConnInv(d)'
  <2>0. ConnInv(d) /\ starts' = starts /\ copy' = copy /\ todo' = todo /\ offered' = offered
        /\ passwordUsed' = passwordUsed /\ mfaQueue' = mfaQueue /\ SessionOf[d] \in Session
    BY <1>2 DEF mfaVars
  <2>1. CASE d \notin C
    <3>1. Still(d)
      BY <1>1, <2>0, <2>1 DEF Still, Credit
    <3>2. phase[d] = "waitMfa" => HasEntry(mfaQueue, d)'
      BY <2>0 DEF ConnInv, Waits, HasEntry, Me
    <3>3. phase[d] = "waitCred" => HasEntry(credQueue, d)'
      <4>1. ASSUME phase[d] = "waitCred" PROVE HasEntry(credQueue, d)'
        <5>1. PICK i \in DOMAIN credQueue : credQueue[i].session = SessionOf[d]
                                            /\ Me(d) \in credQueue[i].responders
          BY <2>0, <4>1 DEF ConnInv, Waits, HasEntry
        <5>2. i # 1
          BY <1>4, <2>1, <4>1, <5>1 DEF C, Waiting
        <5>3. i - 1 \in DOMAIN credQueue' /\ credQueue'[i - 1] = credQueue[i]
          BY <1>4, <5>2
        <5>4. QED
          BY <2>0, <5>1, <5>3 DEF HasEntry, Me
      <4>2. QED
        BY <4>1
    <3>4. Asked(d) /\ decided[SessionOf[d]] \in Login
            => decided'[SessionOf[d]] = decided[SessionOf[d]]
      BY <1>1, <1>2, <1>7, <2>0 DEF TypeOK
    <3>5. QED
      BY <2>0, <3>1, <3>2, <3>3, <3>4, StillInv
  <2>2. CASE d \in C
    <3>1. phase[d] = "waitCred" /\ SessionOf[d] = entry.session
      BY <1>6, <2>2
    <3>2. decided'[SessionOf[d]] = reply
      BY <1>1, <1>2, <1>7, <3>1 DEF TypeOK
    <3>3. /\ reply # Cancel => phase'[d] = "auth" /\ cred'[d] = Merged(d, reply)
          /\ reply = Cancel => phase'[d] \in {"cancelled", "refused"}
      BY <1>1, <2>2 DEF Credit
    <3>4. Waits(d)' /\ BeforeAuth(d)'
      BY <2>0, <3>1, <3>3 DEF ConnInv, Waits, BeforeAuth
    <3>5. InExchange(d)'
      BY <2>0, <3>1, <3>3 DEF ConnInv, BeforeAuth, InExchange
    <3>6. Own(d)'
      <4>1. CASE reply = Cancel
        BY <3>3, <4>1 DEF Own
      <4>2. CASE reply # Cancel
        <5>1. copy[d] \in Login /\ copy' = copy /\ reply \in Login
          BY <1>2, <1>5, <2>0, <4>2 DEF TypeOK
        <5>2. QED
          BY <3>2, <3>3, <4>2, <5>1 DEF Own, Merged
      <4>3. QED
        BY <4>1, <4>2
    <3>7. QED
      BY <3>4, <3>5, <3>6 DEF ConnInv
  <2>3. QED
    BY <2>1, <2>2
<1>11. QED
  BY <1>8, <1>9, <1>10 DEF IInv

-----------------------------------------------------------------------------
(* Every step, and what follows.                                           *)

LEMMA Inductive == IInv /\ [Next]_vars => IInv'
<1> SUFFICES ASSUME IInv, [Next]_vars PROVE IInv'
  OBVIOUS
<1>1. ASSUME NEW c \in Conn, Worker(c) \/ Server(c) \/ EventLoop(c) \/ Environment(c) PROVE IInv'
  BY <1>1, WorkerInv, ServerInv, CredPromptInv, MfaPromptInv, EnvironmentInv DEF EventLoop
<1>2. CASE ResolveFrontCred
  BY <1>2, CredAnswerInv
<1>3. CASE ResolveFrontMfa
  BY <1>3, MfaAnswerInv
<1>4. CASE UNCHANGED vars
  <2>1. TypeOK' /\ QueueInv'
    BY <1>4 DEF IInv, vars, loginVars, credVars, mfaVars, TypeOK, QueueInv, OnePerSession,
                ShowFront, AtHome, AskedOncePerRun
  <2>2. ASSUME NEW d \in Conn PROVE ConnInv(d)'
    BY <1>4 DEF IInv, vars, loginVars, credVars, mfaVars, ConnInv, Waits, Own, BeforeAuth,
                InExchange, HasEntry, Me, Asked
  <2>3. QED
    BY <2>1, <2>2 DEF IInv
<1>5. QED
  BY <1>1, <1>2, <1>3, <1>4 DEF Next

LEMMA InvHolds == Spec => []IInv
BY InitInv, Inductive, PTL DEF Spec

(* Who waits for the user is in the queue of the dialog on screen, in the  *)
(* one entry of its session: EnqueueCredPrompt, EnqueueMfaPrompt and the   *)
(* two resolve_front functions of src/app.rs lose nobody.                  *)
THEOREM NobodyIsForgotten == Spec => []QueuesAreSound
<1>1. IInv => QueuesAreSound
  BY DEF IInv, QueuesAreSound, NoWaitForgotten, QueueInv, ConnInv, Waits
<1>2. QED
  BY <1>1, InvHolds, PTL

(* The user is asked once per session and run, and a login uses what its   *)
(* own session has or was answered (CRED_DECIDED of src/app.rs).           *)
THEOREM CredentialsStayOwn == Spec => []CredentialsAreOwn
<1>1. IInv => CredentialsAreOwn
  BY DEF IInv, CredentialsAreOwn, OwnCredentials, QueueInv, ConnInv, Own, Asked
<1>2. QED
  BY <1>1, InvHolds, PTL

(* However many requests the server makes, one login sends the password    *)
(* at most twice (password_used of keyboard_interactive_auth).             *)
THEOREM OfferedAtMostTwice == Spec => []PasswordOfferedTwice
<1>1. IInv => PasswordOfferedTwice
  BY DEF IInv, PasswordOfferedTwice, ConnInv, InExchange
<1>2. QED
  BY <1>1, InvHolds, PTL
-----------------------------------------------------------------------------
(* The refinement of PromptLine by each of the queues.                     *)

Sessions(q) == [i \in DOMAIN q |-> q[i].session]
WaitsIn(p) == {c \in Conn : phase[c] = p}
Title(d) == IF d = NoDialog THEN <<>> ELSE <<d.session>>
FrontOf(l) == IF l = <<>> THEN <<>> ELSE <<Head(l)>>

(* What a queue of entries shows of the sessions it asks about.            *)
LEMMA SessionsType ==
  ASSUME NEW E, \A x \in E : x.session \in Session, NEW q \in Seq(E)
  PROVE  Sessions(q) \in Seq(Session) /\ Len(Sessions(q)) = Len(q)
<1>1. \A i \in 1..Len(q) : q[i] \in E
  OBVIOUS
<1>2. DOMAIN q = 1..Len(q) /\ Len(q) \in Nat
  OBVIOUS
<1>3. Sessions(q) \in [1..Len(q) -> Session]
  BY <1>1, <1>2 DEF Sessions
<1>4. QED
  BY <1>2, <1>3, FunctionIsSeq

LEMMA SessionsAppend ==
  ASSUME NEW E, \A x \in E : x.session \in Session, NEW q \in Seq(E), NEW e \in E
  PROVE  Sessions(Append(q, e)) = Append(Sessions(q), e.session)
<1>1. Sessions(q) \in Seq(Session) /\ Len(Sessions(q)) = Len(q) /\ e.session \in Session
  BY SessionsType
<1>2. \A i \in 1..Len(q) + 1 : Sessions(Append(q, e))[i] = Append(Sessions(q), e.session)[i]
  BY <1>1 DEF Sessions
<1>3. DOMAIN Sessions(Append(q, e)) = 1..Len(q) + 1
  BY DEF Sessions
<1>4. QED
  BY <1>1, <1>2, <1>3 DEF Sessions

LEMMA SessionsTail ==
  ASSUME NEW E, \A x \in E : x.session \in Session, NEW q \in Seq(E), q # <<>>
  PROVE  /\ Sessions(q) # <<>>
         /\ Sessions(Tail(q)) = Tail(Sessions(q))
         /\ Head(Sessions(q)) = Head(q).session
<1>1. Sessions(q) \in Seq(Session) /\ Len(Sessions(q)) = Len(q) /\ Len(q) > 0
  BY SessionsType
<1>2. Sessions(q) # <<>> /\ Head(Sessions(q)) = Head(q).session
  BY <1>1 DEF Sessions
<1>3. \A i \in 1..Len(q) - 1 : Sessions(Tail(q))[i] = Tail(Sessions(q))[i]
  BY <1>1 DEF Sessions
<1>4. DOMAIN Sessions(Tail(q)) = 1..Len(q) - 1
  BY DEF Sessions
<1>5. QED
  BY <1>1, <1>2, <1>3, <1>4 DEF Sessions

(* A prompt takes a place in line only if its session has none.            *)
LEMMA SessionsEnqueued ==
  ASSUME NEW E, \A x \in E : x.session \in Session, NEW q \in Seq(E), NEW e \in E,
         Added(q, Enqueued(q, e), e)
  PROVE  Sessions(Enqueued(q, e)) =
           IF \E i \in DOMAIN Sessions(q) : Sessions(q)[i] = e.session
           THEN Sessions(q) ELSE Append(Sessions(q), e.session)
<1>1. Entries(q, e.session) = {} <=>
        ~ \E i \in DOMAIN Sessions(q) : Sessions(q)[i] = e.session
  BY DEF Entries, Sessions
<1>2. CASE Entries(q, e.session) = {}
  <2>1. Enqueued(q, e) = Append(q, e)
    BY <1>2 DEF Enqueued
  <2>2. Sessions(Append(q, e)) = Append(Sessions(q), e.session)
    BY SessionsAppend
  <2>3. QED
    BY <1>1, <1>2, <2>1, <2>2
<1>3. CASE Entries(q, e.session) # {}
  <2>1. DOMAIN Enqueued(q, e) = DOMAIN q
    BY <1>3 DEF Enqueued
  <2>2. \A i \in DOMAIN q : Enqueued(q, e)[i].session = q[i].session
    BY DEF Added
  <2>3. Sessions(Enqueued(q, e)) = Sessions(q)
    BY <2>1, <2>2 DEF Sessions
  <2>4. QED
    BY <1>1, <1>3, <2>3
<1>4. QED
  BY <1>2, <1>3

(* The dialog names the first of them.                                     *)
LEMMA TitleFront ==
  ASSUME NEW E, NoDialog \notin E,
         \A x \in E : x.session \in Session /\ [x EXCEPT !.responders = {}] \in E
                      /\ [x EXCEPT !.responders = {}].session = x.session,
         NEW q \in Seq(E)
  PROVE  Title(ShowFront(q)) = FrontOf(Sessions(q))
<1>1. CASE q = <<>>
  BY <1>1 DEF Title, ShowFront, Sessions, FrontOf
<1>2. CASE q # <<>>
  <2>1. Sessions(q) # <<>> /\ Head(Sessions(q)) = Head(q).session
    BY <1>2, SessionsTail
  <2>2. Head(q) \in E
    BY <1>2
  <2>3. /\ ShowFront(q) = [Head(q) EXCEPT !.responders = {}]
        /\ ShowFront(q) # NoDialog /\ ShowFront(q).session = Head(q).session
    BY <1>2, <2>2 DEF ShowFront
  <2>4. Title(ShowFront(q)) = <<Head(q).session>>
    BY <2>3 DEF Title
  <2>5. QED
    BY <2>1, <2>4 DEF FrontOf
<1>3. QED
  BY <1>1, <1>2

LEMMA EntryTypes ==
  /\ NoDialog \notin CredEntry /\ NoDialog \notin MfaEntry
  /\ \A x \in CredEntry : /\ x.session \in Session /\ [x EXCEPT !.responders = {}] \in CredEntry
                          /\ [x EXCEPT !.responders = {}].session = x.session
  /\ \A x \in MfaEntry : /\ x.session \in Session /\ [x EXCEPT !.responders = {}] \in MfaEntry
                         /\ [x EXCEPT !.responders = {}].session = x.session
<1>1. NoDialog \notin CredEntry /\ NoDialog \notin MfaEntry
  BY DialogAssumption
<1>2. \A x \in CredEntry : /\ x.session \in Session /\ [x EXCEPT !.responders = {}] \in CredEntry
                           /\ [x EXCEPT !.responders = {}].session = x.session
  BY DEF CredEntry
<1>3. \A x \in MfaEntry : /\ x.session \in Session /\ [x EXCEPT !.responders = {}] \in MfaEntry
                          /\ [x EXCEPT !.responders = {}].session = x.session
  BY DEF MfaEntry
<1>4. QED
  BY <1>1, <1>2, <1>3

(* An answer reaches those who wait about the session of the front entry.  *)
LEMMA ReachedByAnswer ==
  ASSUME NEW E, NEW q \in Seq(E), q # <<>>, OnePerSession(q), NEW p,
         \A c \in Conn : phase[c] = p => HasEntry(q, c),
         \A i \in DOMAIN q : \A r \in q[i].responders : SessionOf[r.conn] = q[i].session
  PROVE  \A c \in Conn : phase[c] = p =>
           (Me(c) \in Head(q).responders <=> SessionOf[c] = Head(q).session)
<1>1. Head(q) = q[1] /\ 1 \in DOMAIN q
  BY Popped
<1>2. ASSUME NEW c \in Conn, phase[c] = p
      PROVE  Me(c) \in Head(q).responders <=> SessionOf[c] = Head(q).session
  <2>1. PICK i \in DOMAIN q : q[i].session = SessionOf[c] /\ Me(c) \in q[i].responders
    BY <1>2 DEF HasEntry
  <2>2. Me(c).conn = c
    BY DEF Me
  <2>3. Me(c) \in q[1].responders => SessionOf[c] = q[1].session
    BY <1>1, <2>2
  <2>4. SessionOf[c] = q[1].session => i = 1
    BY <1>1, <2>1 DEF OnePerSession
  <2>5. QED
    BY <1>1, <2>1, <2>3, <2>4
<1>3. QED
  BY <1>2
(* What the steps do to the lines and to those who wait in them.           *)
LEMMA LinesOfConnection ==
  ASSUME IInv, NEW c \in Conn, Worker(c) \/ Server(c) \/ Environment(c),
         NEW p \in {"waitCred", "waitMfa"}
  PROVE  /\ UNCHANGED <<credQueue, credDialog, mfaQueue, mfaDialog>>
         /\ \/ WaitsIn(p)' = WaitsIn(p)
            \/ c \in WaitsIn(p) /\ WaitsIn(p)' = WaitsIn(p) \ {c}
<1>1. phase \in [Conn -> Phase]
  BY DEF IInv, TypeOK
<1>2. UNCHANGED <<credQueue, credDialog, mfaQueue, mfaDialog>>
  BY DEF Worker, Server, Environment, ResolveCredentials, Authenticate, FileAuthenticate,
         AnswerPrompt, AskMfaPrompt, RespondToRequest, ServerResult, ServerRequest, Start,
         ConnectionLost, AbortFileWorker, credVars, mfaVars
<1>3. /\ \A d \in Conn \ {c} : phase'[d] = phase[d]
      /\ phase'[c] = phase[c] \/ phase'[c] \notin {"waitCred", "waitMfa"}
  <2>1. CASE Worker(c)
    BY <1>1, <2>1 DEF Worker, ResolveCredentials, Authenticate, FileAuthenticate, AnswerPrompt,
                      AskMfaPrompt, RespondToRequest
  <2>2. CASE Server(c)
    BY <1>1, <2>2 DEF Server, ServerResult, ServerRequest
  <2>3. CASE Environment(c)
    BY <1>1, <2>3 DEF Environment, Start, ConnectionLost, AbortFileWorker
  <2>4. QED
    BY <2>1, <2>2, <2>3
<1>4. CASE phase'[c] = phase[c] \/ phase[c] # p
  <2>1. WaitsIn(p)' = WaitsIn(p)
    BY <1>3, <1>4 DEF WaitsIn
  <2>2. QED
    BY <1>2, <2>1
<1>5. CASE phase'[c] # p /\ phase[c] = p
  <2>1. c \in WaitsIn(p) /\ WaitsIn(p)' = WaitsIn(p) \ {c}
    BY <1>3, <1>5 DEF WaitsIn
  <2>2. QED
    BY <1>2, <2>1
<1>6. QED
  BY <1>3, <1>4, <1>5

LEMMA LinesOfCredPrompt ==
  ASSUME IInv, NEW c \in Conn, EnqueueCredPrompt(c)
  PROVE  /\ UNCHANGED <<mfaQueue, mfaDialog>> /\ WaitsIn("waitMfa")' = WaitsIn("waitMfa")
         /\ \/ /\ UNCHANGED <<credQueue, credDialog>>
               /\ WaitsIn("waitCred")' = WaitsIn("waitCred")
            \/ /\ c \notin WaitsIn("waitCred")
               /\ WaitsIn("waitCred")' = WaitsIn("waitCred") \cup {c}
               /\ Sessions(credQueue') =
                    IF \E i \in DOMAIN Sessions(credQueue) : Sessions(credQueue)[i] = SessionOf[c]
                    THEN Sessions(credQueue) ELSE Append(Sessions(credQueue), SessionOf[c])
<1> DEFINE s == SessionOf[c]
           entry == [session |-> s, user |-> copy[c].user, needUser |-> NeedUser(copy[c]),
                     needPassword |-> NeedPassword(s, copy[c]), responders |-> {Me(c)}]
<1>1. /\ phase[c] = "askCred" /\ phase \in [Conn -> Phase] /\ credQueue \in Seq(CredEntry)
      /\ UNCHANGED <<mfaQueue, mfaDialog>>
  BY DEF EnqueueCredPrompt, IInv, TypeOK, mfaVars
<1>2. CASE Credit({c}, decided[s]) /\ UNCHANGED <<credQueue, credDialog>>
  <2>1. /\ \A d \in Conn \ {c} : phase'[d] = phase[d]
        /\ phase'[c] \in {"auth", "cancelled", "refused"}
    BY <1>2 DEF Credit
  <2>2. ASSUME NEW p \in {"waitCred", "waitMfa"} PROVE WaitsIn(p)' = WaitsIn(p)
    BY <1>1, <2>1, <2>2 DEF WaitsIn
  <2>3. QED
    BY <1>1, <1>2, <2>2
<1>3. CASE credQueue' = Enqueued(credQueue, entry) /\ phase' = [phase EXCEPT ![c] = "waitCred"]
  <2>1. entry \in CredEntry
    <3>1. copy[c] \in Login /\ Me(c) \in Responder /\ s \in Session
      BY DEF IInv, TypeOK, Me, Responder
    <3>2. NeedUser(copy[c]) \in BOOLEAN /\ NeedPassword(s, copy[c]) \in BOOLEAN
      BY DEF NeedUser, NeedPassword
    <3>3. QED
      BY <3>1, <3>2 DEF CredEntry, Login
  <2>2. entry.session = s
    OBVIOUS
  <2> HIDE DEF entry
  <2>3. Sessions(credQueue') = IF \E i \in DOMAIN Sessions(credQueue) : Sessions(credQueue)[i] = s
                               THEN Sessions(credQueue) ELSE Append(Sessions(credQueue), s)
    <3>1. Added(credQueue, Enqueued(credQueue, entry), entry)
      BY <1>1, <2>1, EnqueuedCred
    <3>2. \A x \in CredEntry : x.session \in Session
      BY EntryTypes
    <3>3. QED
      BY <1>1, <1>3, <2>1, <2>2, <3>1, <3>2, SessionsEnqueued
  <2>4. /\ WaitsIn("waitCred")' = WaitsIn("waitCred") \cup {c} /\ c \notin WaitsIn("waitCred")
        /\ WaitsIn("waitMfa")' = WaitsIn("waitMfa")
    BY <1>1, <1>3 DEF WaitsIn
  <2>5. QED
    BY <1>1, <2>3, <2>4
<1>4. QED
  BY <1>2, <1>3 DEF EnqueueCredPrompt

LEMMA LinesOfMfaPrompt ==
  ASSUME IInv, NEW c \in Conn, EnqueueMfaPrompt(c)
  PROVE  /\ UNCHANGED <<credQueue, credDialog>> /\ WaitsIn("waitCred")' = WaitsIn("waitCred")
         /\ c \notin WaitsIn("waitMfa") /\ WaitsIn("waitMfa")' = WaitsIn("waitMfa") \cup {c}
         /\ Sessions(mfaQueue') =
              IF \E i \in DOMAIN Sessions(mfaQueue) : Sessions(mfaQueue)[i] = SessionOf[c]
              THEN Sessions(mfaQueue) ELSE Append(Sessions(mfaQueue), SessionOf[c])
<1> DEFINE entry == [session |-> SessionOf[c], prompt |-> Head(todo[c]), responders |-> {Me(c)}]
<1>1. /\ phase[c] = "askMfa" /\ phase \in [Conn -> Phase] /\ mfaQueue \in Seq(MfaEntry)
      /\ UNCHANGED <<credQueue, credDialog>>
      /\ mfaQueue' = Enqueued(mfaQueue, entry) /\ phase' = [phase EXCEPT ![c] = "waitMfa"]
  BY DEF EnqueueMfaPrompt, IInv, TypeOK, credVars
<1>2. entry \in MfaEntry
  <2>1. todo[c] # <<>> /\ todo[c] \in Seq({"password", "code"})
    BY <1>1 DEF IInv, TypeOK, ConnInv, InExchange
  <2>2. Head(todo[c]) \in {"password", "code"}
    BY <2>1
  <2>3. Me(c) \in Responder /\ SessionOf[c] \in Session
    BY DEF IInv, TypeOK, Me, Responder
  <2>4. QED
    BY <2>2, <2>3 DEF MfaEntry
<1>3. entry.session = SessionOf[c]
  OBVIOUS
<1> HIDE DEF entry
<1>4. Added(mfaQueue, Enqueued(mfaQueue, entry), entry)
  BY <1>1, <1>2, EnqueuedMfa
<1>5. \A x \in MfaEntry : x.session \in Session
  BY EntryTypes
<1>6. Sessions(mfaQueue') =
        IF \E i \in DOMAIN Sessions(mfaQueue) : Sessions(mfaQueue)[i] = SessionOf[c]
        THEN Sessions(mfaQueue) ELSE Append(Sessions(mfaQueue), SessionOf[c])
  BY <1>1, <1>2, <1>3, <1>4, <1>5, SessionsEnqueued
<1>7. /\ WaitsIn("waitMfa")' = WaitsIn("waitMfa") \cup {c} /\ c \notin WaitsIn("waitMfa")
      /\ WaitsIn("waitCred")' = WaitsIn("waitCred")
  BY <1>1 DEF WaitsIn
<1>8. QED
  BY <1>1, <1>6, <1>7

LEMMA LinesOfCredAnswer ==
  ASSUME IInv, ResolveFrontCred
  PROVE  /\ UNCHANGED <<mfaQueue, mfaDialog>> /\ WaitsIn("waitMfa")' = WaitsIn("waitMfa")
         /\ Sessions(credQueue) # <<>> /\ Sessions(credQueue') = Tail(Sessions(credQueue))
         /\ WaitsIn("waitCred")' =
              {c \in WaitsIn("waitCred") : SessionOf[c] # Head(Sessions(credQueue))}
<1> DEFINE C == Waiting(Head(credQueue).responders, "waitCred")
<1>1. /\ credQueue # <<>> /\ credQueue' = Tail(credQueue) /\ credQueue \in Seq(CredEntry)
      /\ QueueInv /\ UNCHANGED <<mfaQueue, mfaDialog>>
      /\ \A c \in Conn : phase[c] = "waitCred" => HasEntry(credQueue, c)
  BY DEF ResolveFrontCred, IInv, TypeOK, ConnInv, Waits, mfaVars
<1>2. \A x \in CredEntry : x.session \in Session
  BY EntryTypes
<1>3. /\ Sessions(credQueue) # <<>> /\ Sessions(credQueue') = Tail(Sessions(credQueue))
      /\ Head(Sessions(credQueue)) = Head(credQueue).session
  BY <1>1, <1>2, SessionsTail
<1>4. C = {c \in WaitsIn("waitCred") : SessionOf[c] = Head(credQueue).session}
  <2>1. /\ OnePerSession(credQueue)
        /\ \A i \in DOMAIN credQueue : \A r \in credQueue[i].responders :
             SessionOf[r.conn] = credQueue[i].session
    BY <1>1 DEF QueueInv, AtHome
  <2> HIDE DEF C
  <2>2. \A c \in Conn : phase[c] = "waitCred" =>
          (Me(c) \in Head(credQueue).responders <=> SessionOf[c] = Head(credQueue).session)
    BY <1>1, <2>1, ReachedByAnswer
  <2>3. QED
    BY <2>2 DEF C, Waiting, WaitsIn
<1>5. C \subseteq WaitsIn("waitCred")
  BY DEF Waiting, WaitsIn
<1>6. PICK reply \in Answers(credDialog) \cup {Cancel} : Credit(C, reply)
  BY DEF ResolveFrontCred
<1> HIDE DEF C
<1>7. /\ \A c \in Conn \ C : phase'[c] = phase[c]
      /\ \A c \in C : phase'[c] \in {"auth", "cancelled", "refused"} /\ phase[c] = "waitCred"
  BY <1>5, <1>6 DEF Credit, WaitsIn
<1>8. WaitsIn("waitCred")' = WaitsIn("waitCred") \ C /\ WaitsIn("waitMfa")' = WaitsIn("waitMfa")
  BY <1>7 DEF WaitsIn
<1>9. QED
  BY <1>1, <1>3, <1>4, <1>8

LEMMA LinesOfMfaAnswer ==
  ASSUME IInv, ResolveFrontMfa
  PROVE  /\ UNCHANGED <<credQueue, credDialog>> /\ WaitsIn("waitCred")' = WaitsIn("waitCred")
         /\ Sessions(mfaQueue) # <<>> /\ Sessions(mfaQueue') = Tail(Sessions(mfaQueue))
         /\ WaitsIn("waitMfa")' =
              {c \in WaitsIn("waitMfa") : SessionOf[c] # Head(Sessions(mfaQueue))}
<1> DEFINE C == Waiting(Head(mfaQueue).responders, "waitMfa")
<1>1. /\ mfaQueue # <<>> /\ mfaQueue' = Tail(mfaQueue) /\ mfaQueue \in Seq(MfaEntry)
      /\ QueueInv /\ UNCHANGED <<credQueue, credDialog>>
      /\ \A c \in Conn : phase[c] = "waitMfa" => HasEntry(mfaQueue, c)
  BY DEF ResolveFrontMfa, IInv, TypeOK, ConnInv, Waits, credVars
<1>2. \A x \in MfaEntry : x.session \in Session
  BY EntryTypes
<1>3. /\ Sessions(mfaQueue) # <<>> /\ Sessions(mfaQueue') = Tail(Sessions(mfaQueue))
      /\ Head(Sessions(mfaQueue)) = Head(mfaQueue).session
  BY <1>1, <1>2, SessionsTail
<1>4. C = {c \in WaitsIn("waitMfa") : SessionOf[c] = Head(mfaQueue).session}
  <2>1. /\ OnePerSession(mfaQueue)
        /\ \A i \in DOMAIN mfaQueue : \A r \in mfaQueue[i].responders :
             SessionOf[r.conn] = mfaQueue[i].session
    BY <1>1 DEF QueueInv, AtHome
  <2> HIDE DEF C
  <2>2. \A c \in Conn : phase[c] = "waitMfa" =>
          (Me(c) \in Head(mfaQueue).responders <=> SessionOf[c] = Head(mfaQueue).session)
    BY <1>1, <2>1, ReachedByAnswer
  <2>3. QED
    BY <2>2 DEF C, Waiting, WaitsIn
<1>5. C \subseteq WaitsIn("waitMfa")
  BY DEF Waiting, WaitsIn
<1>6. PICK accept \in BOOLEAN :
        phase' = [c \in Conn |-> IF c \notin C THEN phase[c]
                                 ELSE IF accept THEN "reply" ELSE "refused"]
  BY DEF ResolveFrontMfa
<1> HIDE DEF C
<1>7. /\ \A c \in Conn \ C : phase'[c] = phase[c]
      /\ \A c \in C : phase'[c] \in {"reply", "refused"} /\ phase[c] = "waitMfa"
  BY <1>5, <1>6 DEF WaitsIn
<1>8. WaitsIn("waitMfa")' = WaitsIn("waitMfa") \ C /\ WaitsIn("waitCred")' = WaitsIn("waitCred")
  BY <1>7 DEF WaitsIn
<1>9. QED
  BY <1>1, <1>3, <1>4, <1>8
-----------------------------------------------------------------------------

LEMMA CredLineInit == Init => CredLine!Init
BY DEF Init, CredLine!Init

LEMMA MfaLineInit == Init => MfaLine!Init
BY DEF Init, MfaLine!Init

LEMMA CredLineStep == IInv /\ IInv' /\ [Next]_vars => [CredLine!Next]_CredLine!vars
<1> SUFFICES ASSUME IInv, IInv', [Next]_vars
             PROVE  CredLine!Next \/ UNCHANGED CredLine!vars
  OBVIOUS
<1> DEFINE l == Sessions(credQueue)
           m == Sessions(credQueue')
           W == WaitsIn("waitCred")
<1>1. Title(credDialog') = FrontOf(m)
  <2>1. credQueue' \in Seq(CredEntry) /\ credDialog' = ShowFront(credQueue')
    BY DEF IInv, TypeOK, QueueInv
  <2>2. QED
    BY <2>1, EntryTypes, TitleFront
<1>2. ASSUME UNCHANGED <<credQueue, credDialog>>, W' = W
      PROVE  UNCHANGED CredLine!vars
  BY <1>2 DEF CredLine!vars, WaitsIn
<1>3. ASSUME NEW c \in Conn, Worker(c) \/ Server(c) \/ Environment(c)
      PROVE  CredLine!Next \/ UNCHANGED CredLine!vars
  <2>1. UNCHANGED <<credQueue, credDialog>> /\ (W' = W \/ (c \in W /\ W' = W \ {c}))
    BY <1>3, LinesOfConnection
  <2>2. CASE W' = W
    BY <1>2, <2>1, <2>2
  <2>3. CASE c \in W /\ W' = W \ {c}
    <3>1. CredLine!Leaves(c)
      BY <2>1, <2>3 DEF CredLine!Leaves, WaitsIn
    <3>2. QED
      BY <3>1 DEF CredLine!Next
  <2>4. QED
    BY <2>1, <2>2, <2>3
<1>4. ASSUME NEW c \in Conn, EnqueueCredPrompt(c)
      PROVE  CredLine!Next \/ UNCHANGED CredLine!vars
  <2>1. CASE UNCHANGED <<credQueue, credDialog>> /\ W' = W
    BY <1>2, <2>1
  <2>2. CASE /\ c \notin W /\ W' = W \cup {c}
             /\ m = IF \E i \in DOMAIN l : l[i] = SessionOf[c] THEN l ELSE Append(l, SessionOf[c])
    <3>1. CredLine!Asks(c)
      BY <1>1, <2>2 DEF CredLine!Asks, CredLine!InLine, CredLine!ShowsFront, Sessions, Title,
                        WaitsIn, FrontOf
    <3>2. QED
      BY <3>1 DEF CredLine!Next
  <2>3. QED
    BY <1>4, <2>1, <2>2, LinesOfCredPrompt
<1>5. ASSUME NEW c \in Conn, EnqueueMfaPrompt(c)
      PROVE  UNCHANGED CredLine!vars
  BY <1>2, <1>5, LinesOfMfaPrompt
<1>6. CASE ResolveFrontCred
  <2>1. l # <<>> /\ m = Tail(l) /\ W' = {c \in W : SessionOf[c] # Head(l)}
    BY <1>6, LinesOfCredAnswer
  <2>2. CredLine!Answer
    BY <1>1, <2>1 DEF CredLine!Answer, CredLine!ShowsFront, Sessions, Title, WaitsIn, FrontOf
  <2>3. QED
    BY <2>2 DEF CredLine!Next
<1>7. CASE ResolveFrontMfa
  BY <1>2, <1>7, LinesOfMfaAnswer
<1>8. CASE UNCHANGED vars
  <2>1. UNCHANGED <<credQueue, credDialog>> /\ W' = W
    BY <1>8 DEF vars, loginVars, credVars, WaitsIn
  <2>2. QED
    BY <1>2, <2>1
<1>9. QED
  BY <1>3, <1>4, <1>5, <1>6, <1>7, <1>8 DEF Next, EventLoop

LEMMA MfaLineStep == IInv /\ IInv' /\ [Next]_vars => [MfaLine!Next]_MfaLine!vars
<1> SUFFICES ASSUME IInv, IInv', [Next]_vars
             PROVE  MfaLine!Next \/ UNCHANGED MfaLine!vars
  OBVIOUS
<1> DEFINE l == Sessions(mfaQueue)
           m == Sessions(mfaQueue')
           W == WaitsIn("waitMfa")
<1>1. Title(mfaDialog') = FrontOf(m)
  <2>1. mfaQueue' \in Seq(MfaEntry) /\ mfaDialog' = ShowFront(mfaQueue')
    BY DEF IInv, TypeOK, QueueInv
  <2>2. QED
    BY <2>1, EntryTypes, TitleFront
<1>2. ASSUME UNCHANGED <<mfaQueue, mfaDialog>>, W' = W
      PROVE  UNCHANGED MfaLine!vars
  BY <1>2 DEF MfaLine!vars, WaitsIn
<1>3. ASSUME NEW c \in Conn, Worker(c) \/ Server(c) \/ Environment(c)
      PROVE  MfaLine!Next \/ UNCHANGED MfaLine!vars
  <2>1. UNCHANGED <<mfaQueue, mfaDialog>> /\ (W' = W \/ (c \in W /\ W' = W \ {c}))
    BY <1>3, LinesOfConnection
  <2>2. CASE W' = W
    BY <1>2, <2>1, <2>2
  <2>3. CASE c \in W /\ W' = W \ {c}
    <3>1. MfaLine!Leaves(c)
      BY <2>1, <2>3 DEF MfaLine!Leaves, WaitsIn
    <3>2. QED
      BY <3>1 DEF MfaLine!Next
  <2>4. QED
    BY <2>1, <2>2, <2>3
<1>4. ASSUME NEW c \in Conn, EnqueueMfaPrompt(c)
      PROVE  MfaLine!Next
  <2>1. /\ c \notin W /\ W' = W \cup {c}
        /\ m = IF \E i \in DOMAIN l : l[i] = SessionOf[c] THEN l ELSE Append(l, SessionOf[c])
    BY <1>4, LinesOfMfaPrompt
  <2>2. MfaLine!Asks(c)
    BY <1>1, <2>1 DEF MfaLine!Asks, MfaLine!InLine, MfaLine!ShowsFront, Sessions, Title,
                      WaitsIn, FrontOf
  <2>3. QED
    BY <2>2 DEF MfaLine!Next
<1>5. ASSUME NEW c \in Conn, EnqueueCredPrompt(c)
      PROVE  UNCHANGED MfaLine!vars
  BY <1>2, <1>5, LinesOfCredPrompt
<1>6. CASE ResolveFrontMfa
  <2>1. l # <<>> /\ m = Tail(l) /\ W' = {c \in W : SessionOf[c] # Head(l)}
    BY <1>6, LinesOfMfaAnswer
  <2>2. MfaLine!Answer
    BY <1>1, <2>1 DEF MfaLine!Answer, MfaLine!ShowsFront, Sessions, Title, WaitsIn, FrontOf
  <2>3. QED
    BY <2>2 DEF MfaLine!Next
<1>7. CASE ResolveFrontCred
  BY <1>2, <1>7, LinesOfCredAnswer
<1>8. CASE UNCHANGED vars
  <2>1. UNCHANGED <<mfaQueue, mfaDialog>> /\ W' = W
    BY <1>8 DEF vars, loginVars, mfaVars, WaitsIn
  <2>2. QED
    BY <1>2, <2>1
<1>9. QED
  BY <1>3, <1>4, <1>5, <1>6, <1>7, <1>8 DEF Next, EventLoop

(* Both prompt queues implement PromptLine: for any number of connections  *)
(* and sessions, sessions are asked about in the order of asking, each at  *)
(* one place, and an answer reaches all who wait about its session and     *)
(* nobody else (the enqueue and resolve_front functions of src/app.rs).    *)
THEOREM LinesAreKept == Spec => KeepLines
<1>1. Spec => CredLine!Spec
  BY CredLineInit, CredLineStep, InvHolds, PTL DEF Spec, CredLine!Spec
<1>2. Spec => MfaLine!Spec
  BY MfaLineInit, MfaLineStep, InvHolds, PTL DEF Spec, MfaLine!Spec
<1>3. QED
  BY <1>1, <1>2 DEF KeepLines
=============================================================================
