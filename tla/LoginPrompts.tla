---------------------------- MODULE LoginPrompts ----------------------------
(***************************************************************************)
(* How a connection gets its user name, password and verification codes:   *)
(* resolve_credentials and keyboard_interactive_auth of src/ssh.rs, the    *)
(* login of the file worker in src/sftp.rs, and the two prompt queues of   *)
(* src/app.rs with their dialogs.  Host keys are module HostKeys.          *)
(***************************************************************************)
EXTENDS Naturals, Sequences, FiniteSets

CONSTANTS Session,      \* ids of saved sessions
          Conn,         \* connections: one per terminal tab and file worker
          SessionOf,    \* the session each connection is for
          Shell,        \* the connections of terminals; the others are file workers
          KeyAuth,      \* sessions with AuthMethod::Key
          Saved,        \* what the store may hold when the program starts
          Name,         \* user names that can be typed
          Password,     \* passwords that can be typed
          Request,      \* the prompts a keyboard-interactive request may hold
          MaxRounds,    \* requests answered in one login (16 in the code)
          MaxStarts,    \* bound: how often each connection is started
          Cancel,       \* a reply of None
          Undecided,    \* no reply yet
          NoDialog

Blank == ""
Login == [user : Name \cup {Blank}, password : Password \cup {Blank}]

ASSUME LoginAssumption ==
  /\ SessionOf \in [Conn -> Session]
  /\ Shell \subseteq Conn /\ KeyAuth \subseteq Session
  /\ Blank \notin Name \cup Password
  /\ Saved \subseteq [Session -> Login]
  /\ Cancel \notin Login /\ Undecided \notin Login \cup {Cancel}
  /\ Request \subseteq Seq({"password", "code"})
  /\ MaxRounds \in Nat \ {0} /\ MaxStarts \in [Conn -> Nat]

VARIABLES
  store,        \* user and password of each saved session, empty = missing
  phase,        \* where a connection is in its login
  starts,       \* how often it was started
  copy,         \* the session it was started with
  cred,         \* the user and password it uses
  todo,         \* prompts left in the request it is answering
  rounds,       \* keyboard-interactive requests seen in this login
  passwordUsed, \* password_used
  offered,      \* how often this login sent the password (ghost)
  credQueue, credDialog, decided,    \* CRED_QUEUE, its dialog, CRED_DECIDED
  mfaQueue, mfaDialog                \* MFA_QUEUE and its dialog

loginVars == <<phase, starts, copy, cred, todo, rounds, passwordUsed, offered>>
credVars == <<credQueue, credDialog, decided>>
mfaVars == <<mfaQueue, mfaDialog>>
vars == <<store, loginVars, credVars, mfaVars>>

Over == {"idle", "in", "refused", "cancelled"}
Asking == {"askCred", "waitCred", "askMfa", "waitMfa"}
Phase == Over \cup Asking \cup {"connecting", "auth", "kbd", "reply"}

(* A responder answers one wait of one start of a connection. *)
Responder == [conn : Conn, start : Nat]
Me(c) == [conn |-> c, start |-> starts[c]]

(* The entries of the two prompt queues; a dialog shows one. *)
CredEntry == [session : Session, user : Name \cup {Blank}, needUser : BOOLEAN,
              needPassword : BOOLEAN, responders : SUBSET Responder]
MfaEntry == [session : Session, prompt : {"password", "code"}, responders : SUBSET Responder]

ASSUME DialogAssumption == NoDialog \notin CredEntry /\ NoDialog \notin MfaEntry

NeedUser(l) == l.user = Blank
NeedPassword(s, l) == s \notin KeyAuth /\ l.password = Blank

Init ==
  /\ store \in Saved
  /\ phase = [c \in Conn |-> "idle"]
  /\ starts = [c \in Conn |-> 0]
  /\ copy = [c \in Conn |-> store[SessionOf[c]]]
  /\ cred = copy
  /\ todo = [c \in Conn |-> <<>>]
  /\ rounds = [c \in Conn |-> 0]
  /\ passwordUsed = [c \in Conn |-> FALSE]
  /\ offered = [c \in Conn |-> 0]
  /\ credQueue = <<>> /\ credDialog = NoDialog
  /\ decided = [s \in Session |-> Undecided]
  /\ mfaQueue = <<>> /\ mfaDialog = NoDialog

-----------------------------------------------------------------------------
(* Connections *)

(* A tab is opened or reconnected: the worker gets a copy of the session. *)
Start(c) ==
  /\ phase[c] \in Over \ {"in"} /\ starts[c] < MaxStarts[c]
  /\ phase' = [phase EXCEPT ![c] = "connecting"]
  /\ starts' = [starts EXCEPT ![c] = @ + 1]
  /\ copy' = [copy EXCEPT ![c] = store[SessionOf[c]]]
  /\ cred' = [cred EXCEPT ![c] = copy'[c]]
  /\ todo' = [todo EXCEPT ![c] = <<>>]
  /\ rounds' = [rounds EXCEPT ![c] = 0]
  /\ passwordUsed' = [passwordUsed EXCEPT ![c] = FALSE]
  /\ offered' = [offered EXCEPT ![c] = 0]
  /\ UNCHANGED <<store, credVars, mfaVars>>

(* resolve_credentials, once the server is reached and its key accepted. *)
ResolveCredentials(c) ==
  /\ phase[c] = "connecting"
  /\ phase' = [phase EXCEPT ![c] =
       IF NeedUser(copy[c]) \/ NeedPassword(SessionOf[c], copy[c]) THEN "askCred" ELSE "auth"]
  /\ UNCHANGED <<store, starts, copy, cred, todo, rounds, passwordUsed, offered, credVars, mfaVars>>

(* The first attempt of a terminal, by password or key.  When a password is
   refused it connects again and starts keyboard-interactive. *)
Authenticate(c) ==
  /\ c \in Shell /\ phase[c] = "auth"
  /\ \/ phase' = [phase EXCEPT ![c] = "in"]
     \/ phase' = [phase EXCEPT ![c] = IF SessionOf[c] \in KeyAuth THEN "refused" ELSE "kbd"]
  /\ offered' = [offered EXCEPT ![c] = @ + 1]
  /\ UNCHANGED <<store, starts, copy, cred, todo, rounds, passwordUsed, credVars, mfaVars>>

(* A file worker has this one attempt. *)
FileAuthenticate(c) ==
  /\ c \notin Shell /\ phase[c] = "auth"
  /\ \E end \in {"in", "refused"} : phase' = [phase EXCEPT ![c] = end]
  /\ offered' = [offered EXCEPT ![c] = @ + 1]
  /\ UNCHANGED <<store, starts, copy, cred, todo, rounds, passwordUsed, credVars, mfaVars>>

(* The server's next message.  After MaxRounds requests it is not looked at. *)
ServerResult(c) ==
  /\ phase[c] = "kbd"
  /\ \/ /\ rounds[c] < MaxRounds
        /\ phase' = [phase EXCEPT ![c] = "in"]
     \/ phase' = [phase EXCEPT ![c] = "refused"]
  /\ UNCHANGED <<store, starts, copy, cred, todo, rounds, passwordUsed, offered, credVars, mfaVars>>

(* Mutant: requests are not counted. *)
ServerRequest_Uncounted(c) ==
  /\ phase[c] = "kbd" /\ rounds[c] < MaxRounds
  /\ \E prompts \in Request : todo' = [todo EXCEPT ![c] = prompts]
  /\ phase' = [phase EXCEPT ![c] = "reply"]
  /\ UNCHANGED <<store, starts, copy, cred, rounds, passwordUsed, offered, credVars, mfaVars>>

ServerRequest(c) ==
  /\ phase[c] = "kbd" /\ rounds[c] < MaxRounds
  /\ \E prompts \in Request : todo' = [todo EXCEPT ![c] = prompts]
  /\ rounds' = [rounds EXCEPT ![c] = @ + 1]
  /\ phase' = [phase EXCEPT ![c] = "reply"]
  /\ UNCHANGED <<store, starts, copy, cred, passwordUsed, offered, credVars, mfaVars>>

(* Mutant: password_used is not looked at. *)
StoredPasswordFits_Again(c) == cred[c].password # Blank /\ Head(todo[c]) # "code"

(* The stored password answers the first prompt that does not look like one for
   a code; the user answers the others. *)
StoredPasswordFits(c) ==
  ~passwordUsed[c] /\ cred[c].password # Blank /\ Head(todo[c]) # "code"

AnswerPrompt(c) ==
  /\ phase[c] = "reply" /\ todo[c] # <<>> /\ StoredPasswordFits(c)
  /\ passwordUsed' = [passwordUsed EXCEPT ![c] = TRUE]
  /\ offered' = [offered EXCEPT ![c] = @ + 1]
  /\ todo' = [todo EXCEPT ![c] = Tail(@)]
  /\ UNCHANGED <<store, phase, starts, copy, cred, rounds, credVars, mfaVars>>

AskMfaPrompt(c) ==
  /\ phase[c] = "reply" /\ todo[c] # <<>> /\ ~StoredPasswordFits(c)
  /\ phase' = [phase EXCEPT ![c] = "askMfa"]
  /\ UNCHANGED <<store, starts, copy, cred, todo, rounds, passwordUsed, offered, credVars, mfaVars>>

RespondToRequest(c) ==
  /\ phase[c] = "reply" /\ todo[c] = <<>>
  /\ phase' = [phase EXCEPT ![c] = "kbd"]
  /\ UNCHANGED <<store, starts, copy, cred, todo, rounds, passwordUsed, offered, credVars, mfaVars>>

(* The transport fails, or a logged-in connection ends.  A worker that waits for
   the user does not watch its transport. *)
ConnectionLost(c) ==
  /\ phase[c] \in {"connecting", "auth", "kbd", "in"}
  /\ phase' = [phase EXCEPT ![c] = "idle"]
  /\ UNCHANGED <<store, starts, copy, cred, todo, rounds, passwordUsed, offered, credVars, mfaVars>>

(* A closed tab aborts its file worker wherever it is; the prompt it has posted
   or queued stays. *)
AbortFileWorker(c) ==
  /\ c \notin Shell /\ phase[c] \notin Over \cup {"askCred"}
  /\ phase' = [phase EXCEPT ![c] = "idle"]
  /\ UNCHANGED <<store, starts, copy, cred, todo, rounds, passwordUsed, offered, credVars, mfaVars>>

-----------------------------------------------------------------------------
(* The user interface *)

(* What a reply of the credential dialog does to the connections it reaches:
   their user and password, where these were missing, or the end of the login. *)
Merged(c, reply) ==
  [user |-> IF NeedUser(copy[c]) THEN reply.user ELSE copy[c].user,
   password |-> IF NeedPassword(SessionOf[c], copy[c]) THEN reply.password ELSE copy[c].password]

Credit(C, reply) ==
  /\ phase' = [c \in Conn |-> IF c \notin C THEN phase[c]
                              ELSE IF reply # Cancel THEN "auth"
                              ELSE IF c \in Shell THEN "cancelled" ELSE "refused"]
  /\ cred' = [c \in Conn |-> IF c \in C /\ reply # Cancel THEN Merged(c, reply) ELSE cred[c]]

(* Mutant: an answer reaches every connection that waits. *)
Waiting_Everyone(responders, p) == {c \in Conn : phase[c] = p}

(* The connections whose wait one of these responders ends. *)
Waiting(responders, p) == {c \in Conn : phase[c] = p /\ Me(c) \in responders}

(* Add a responder to the entry of its session, or queue a new entry. *)
Entries(q, s) == {i \in DOMAIN q : q[i].session = s}
(* Mutant: the queue is not searched for the session. *)
Enqueued_Unmerged(q, entry) == Append(q, entry)

Enqueued(q, entry) ==
  IF Entries(q, entry.session) = {} THEN Append(q, entry)
  ELSE [i \in DOMAIN q |-> IF i \in Entries(q, entry.session)
                           THEN [q[i] EXCEPT !.responders = @ \cup entry.responders] ELSE q[i]]

(* The dialog shows the front entry; it is only filled when that entry becomes
   the front one. *)
ShowFront(q) == IF q = <<>> THEN NoDialog ELSE [Head(q) EXCEPT !.responders = {}]

EnqueueCredPrompt(c) ==
  /\ phase[c] = "askCred"
  /\ LET s == SessionOf[c]
         entry == [session |-> s, user |-> copy[c].user, needUser |-> NeedUser(copy[c]),
                   needPassword |-> NeedPassword(s, copy[c]), responders |-> {Me(c)}]
     IN \/ /\ decided[s] # Undecided
           /\ Credit({c}, decided[s])
           /\ UNCHANGED <<credQueue, credDialog>>
        \/ /\ decided[s] = Undecided
           /\ credQueue' = Enqueued(credQueue, entry)
           /\ credDialog' = IF credQueue = <<>> THEN ShowFront(credQueue') ELSE credDialog
           /\ phase' = [phase EXCEPT ![c] = "waitCred"]
           /\ UNCHANGED cred
  /\ UNCHANGED <<store, starts, copy, todo, rounds, passwordUsed, offered, decided, mfaVars>>

(* "Remember": what was asked for goes to the saved session. *)
PersistCredentials(entry, reply) ==
  store' = [store EXCEPT ![entry.session] =
             [user |-> IF entry.needUser /\ reply.user # Blank THEN reply.user ELSE @.user,
              password |-> IF entry.needPassword THEN reply.password ELSE @.password]]

(* The user fills in the fields the dialog shows: a hidden one keeps its text. *)
Answers(d) ==
  [user : IF d.needUser THEN Name \cup {Blank} ELSE {d.user},
   password : IF d.needPassword THEN Password \cup {Blank} ELSE {Blank}]

ResolveFrontCred ==
  /\ credDialog # NoDialog /\ credQueue # <<>>
  /\ \E reply \in Answers(credDialog) \cup {Cancel}, remember \in BOOLEAN :
       LET entry == Head(credQueue) IN
       /\ decided' = [decided EXCEPT ![entry.session] = reply]
       /\ IF reply # Cancel /\ remember THEN PersistCredentials(entry, reply) ELSE UNCHANGED store
       /\ Credit(Waiting(entry.responders, "waitCred"), reply)
  /\ credQueue' = Tail(credQueue)
  /\ credDialog' = ShowFront(credQueue')
  /\ UNCHANGED <<starts, copy, todo, rounds, passwordUsed, offered, mfaVars>>

EnqueueMfaPrompt(c) ==
  /\ phase[c] = "askMfa"
  /\ mfaQueue' = Enqueued(mfaQueue, [session |-> SessionOf[c], prompt |-> Head(todo[c]),
                                     responders |-> {Me(c)}])
  /\ mfaDialog' = IF mfaQueue = <<>> THEN ShowFront(mfaQueue') ELSE mfaDialog
  /\ phase' = [phase EXCEPT ![c] = "waitMfa"]
  /\ UNCHANGED <<store, starts, copy, cred, todo, rounds, passwordUsed, offered, credVars>>

ResolveFrontMfa ==
  /\ mfaDialog # NoDialog /\ mfaQueue # <<>>
  /\ \E accept \in BOOLEAN :
       LET C == Waiting(Head(mfaQueue).responders, "waitMfa") IN
       /\ phase' = [c \in Conn |-> IF c \notin C THEN phase[c]
                                   ELSE IF accept THEN "reply" ELSE "refused"]
       /\ todo' = [c \in Conn |-> IF c \in C /\ accept THEN Tail(todo[c]) ELSE todo[c]]
  /\ mfaQueue' = Tail(mfaQueue)
  /\ mfaDialog' = ShowFront(mfaQueue')
  /\ UNCHANGED <<store, starts, copy, cred, rounds, passwordUsed, offered, credVars>>

-----------------------------------------------------------------------------
Worker(c) ==
  \/ ResolveCredentials(c) \/ Authenticate(c) \/ FileAuthenticate(c)
  \/ AnswerPrompt(c) \/ AskMfaPrompt(c) \/ RespondToRequest(c)
Server(c) == ServerResult(c) \/ ServerRequest(c)
EventLoop(c) == EnqueueCredPrompt(c) \/ EnqueueMfaPrompt(c)
Environment(c) == Start(c) \/ ConnectionLost(c) \/ AbortFileWorker(c)

Next ==
  \/ \E c \in Conn : Worker(c) \/ Server(c) \/ EventLoop(c) \/ Environment(c)
  \/ ResolveFrontCred \/ ResolveFrontMfa

Spec == Init /\ [][Next]_vars

(* The runtime, a server that answers, the event loop, a user who answers.  At
   most one of a connection's three is enabled at a time. *)
Fairness ==
  /\ \A c \in Conn : WF_vars(Worker(c) \/ Server(c) \/ EventLoop(c))
  /\ WF_vars(ResolveFrontCred) /\ WF_vars(ResolveFrontMfa)
FairSpec == Spec /\ Fairness

-----------------------------------------------------------------------------
(* Every variable has its type. *)
TypeOK ==
  /\ store \in [Session -> Login]
  /\ phase \in [Conn -> Phase] /\ starts \in [Conn -> Nat]
  /\ copy \in [Conn -> Login] /\ cred \in [Conn -> Login]
  /\ todo \in [Conn -> Seq({"password", "code"})]
  /\ rounds \in [Conn -> 0..MaxRounds] /\ passwordUsed \in [Conn -> BOOLEAN]
  /\ offered \in [Conn -> Nat]
  /\ credQueue \in Seq(CredEntry)
  /\ decided \in [Session -> Login \cup {Cancel, Undecided}]
  /\ mfaQueue \in Seq(MfaEntry)

HasEntry(q, c) == \E i \in DOMAIN q : q[i].session = SessionOf[c] /\ Me(c) \in q[i].responders
OnePerSession(q) == \A i, j \in DOMAIN q : q[i].session = q[j].session => i = j

(* A login that waits for the user is in the queue its dialog works through, in
   the one entry of its session, and a dialog is on screen for the front entry:
   no wait can be forgotten, whatever is asked, answered and aborted around it. *)
NoWaitForgotten ==
  /\ \A c \in Conn : /\ phase[c] = "waitCred" => HasEntry(credQueue, c)
                     /\ phase[c] = "waitMfa" => HasEntry(mfaQueue, c)
  /\ OnePerSession(credQueue) /\ OnePerSession(mfaQueue)
  /\ credDialog = ShowFront(credQueue) /\ mfaDialog = ShowFront(mfaQueue)
QueuesAreSound == TypeOK /\ NoWaitForgotten

(* The user is asked for the credentials of a session once per run of the
   program: an answered session is not in the queue again, a cancel included,
   so the terminal and its file worker never ask twice. *)
AskedOncePerRun ==
  \A i \in DOMAIN credQueue : decided[credQueue[i].session] = Undecided

(* A login uses what its own session had saved when it was started, or, where
   that was missing, what the user answered for that very session; and one whose
   question was cancelled is not logged in. *)
OwnCredentials ==
  \A c \in Conn : phase[c] \in {"auth", "kbd", "reply", "askMfa", "waitMfa", "in"} =>
    LET reply == decided[SessionOf[c]]
        asked == NeedUser(copy[c]) \/ NeedPassword(SessionOf[c], copy[c])
    IN /\ asked => reply \in Login
       /\ cred[c].user = (IF NeedUser(copy[c]) THEN reply.user ELSE copy[c].user)
       /\ cred[c].password = (IF NeedPassword(SessionOf[c], copy[c])
                               THEN reply.password ELSE copy[c].password)
(* An answer is asked for once and serves the session it was asked for. *)
CredentialsAreOwn == AskedOncePerRun /\ OwnCredentials

(* One login sends its password at most twice, by the password method and to one
   prompt of the keyboard-interactive exchange after it, however many requests
   the server makes: a wrong one is not repeated until the account is locked. *)
PasswordOfferedTwice ==
  \A c \in Conn : offered[c] <= (IF c \in Shell /\ SessionOf[c] \notin KeyAuth THEN 2 ELSE 1)

(* Both queues are answered as PromptLine promises: the session asked about first
   comes first, and an answer reaches every login that waits about that session,
   none that waits about another. *)
CredLine == INSTANCE PromptLine WITH
  Asker <- Conn, TopicOf <- SessionOf,
  line <- [i \in DOMAIN credQueue |-> credQueue[i].session],
  waiting <- {c \in Conn : phase[c] = "waitCred"},
  shown <- IF credDialog = NoDialog THEN <<>> ELSE <<credDialog.session>>
MfaLine == INSTANCE PromptLine WITH
  Asker <- Conn, TopicOf <- SessionOf,
  line <- [i \in DOMAIN mfaQueue |-> mfaQueue[i].session],
  waiting <- {c \in Conn : phase[c] = "waitMfa"},
  shown <- IF mfaDialog = NoDialog THEN <<>> ELSE <<mfaDialog.session>>
KeepLines == CredLine!Spec /\ MfaLine!Spec

(* Every login that is under way ends, logged in or not, if the server and the
   user answer: merged dialogs wake all who wait, and the exchange is bounded. *)
LoginSettles == \A c \in Conn : phase[c] = "connecting" ~> phase[c] \in Over
=============================================================================
