--------------------------- MODULE ZmodemReceive ----------------------------
(***************************************************************************)
(* The pump of an SSH terminal (run_session of src/ssh.rs) and the ZMODEM  *)
(* receive it runs in place (src/zmodem.rs) when a "sz" starts on the      *)
(* server.  Both directions of the channel are queues of frames; the sender*)
(* is external, as the comments of zmodem.rs describe it.                  *)
(***************************************************************************)
EXTENDS Naturals, Sequences

CONSTANTS Size,      \* data subpackets of each file that a run of sz sends
          MaxRuns,   \* bound: runs of sz
          MaxTries   \* how often a sender repeats its first frame

ASSUME ZmodemAssumption ==
  /\ Size \in Seq(Nat \ {0}) /\ Len(Size) > 0
  /\ MaxRuns \in Nat /\ MaxTries \in Nat

VARIABLES
  pump,       \* run_session: select, a place in receive, or ended
  cooldown,   \* less than two seconds since the last receive
  cmds,       \* SessionCommand queue
  cur,        \* the row of the file that is open, 0 for none
  received,   \* files received whole in this receive
  garbled,    \* bytes of something else precede the end of the subpacket
  rows,       \* rows of the transfer list: file, what was written, state
  inp, out,   \* the channel: from and to the server
  sz, file, piece, runs    \* the sender

pumpVars == <<pump, cooldown, cmds>>
rxVars == <<cur, received, garbled, rows>>
szVars == <<sz, file, piece, runs>>
vars == <<pumpVars, rxVars, inp, out, szVars>>

Frame(t) == [type |-> t, n |-> 0, end |-> ""]
(* A data subpacket and the byte that ends it: G goes on, Q wants an answer, E
   ends the frame, W ends it and wants an answer. *)
Sub(n, end) == [type |-> "sub", n |-> n, end |-> end]
(* A character of shell output; the hex ones also occur in hex headers. *)
Text(c) == [type |-> "text", n |-> 0, end |-> c]

Header == {"ZRQINIT", "ZFILE", "ZDATA", "ZEOF", "ZFIN", "ZABORT"}
Receiving == {"header", "info", "data", "peek", "drain"}
Whole(f) == [i \in 1..Size[f] |-> i]

Init ==
  /\ pump = "select" /\ cooldown = FALSE /\ cmds = <<>>
  /\ cur = 0 /\ received = 0 /\ garbled = FALSE /\ rows = <<>>
  /\ inp = <<>> /\ out = <<>>
  /\ sz = "off" /\ file = 0 /\ piece = 0 /\ runs = 0

-----------------------------------------------------------------------------
(* The pump outside of a transfer *)

(* contains_zmodem_init: every header has the two bytes it looks for. *)
StartsReceive(frame) == ~cooldown /\ frame.type \in Header

(* The channel and the program at its other end. *)
Open == pump # "ended" /\ \A i \in DOMAIN inp : inp[i].type # "close"

(* sz is started by what is typed; the server may also start the next one. *)
SzRuns ==
  /\ sz \in {"off", "gone"} /\ runs < MaxRuns
  /\ sz' = "init" /\ file' = 1 /\ piece' = 0 /\ runs' = runs + 1
  /\ inp' = Append(inp, Frame("ZRQINIT"))

Command ==
  /\ pump = "select" /\ cmds # <<>> /\ cmds' = Tail(cmds)
  /\ \/ Head(cmds) = "close" /\ pump' = "ended" /\ UNCHANGED <<szVars, inp>>
     \/ Head(cmds) = "sz" /\ Open /\ SzRuns /\ UNCHANGED pump
     \/ Head(cmds) = "sz" /\ UNCHANGED <<pump, szVars, inp>>    \* read by another program
  /\ UNCHANGED <<cooldown, rxVars, out>>

Data ==
  /\ pump = "select" /\ inp # <<>>
  /\ \/ /\ Head(inp).type = "close"
        /\ pump' = "ended" /\ UNCHANGED inp
     \/ /\ StartsReceive(Head(inp))
        /\ pump' = "header" /\ UNCHANGED inp
     \/ /\ Head(inp).type # "close" /\ ~StartsReceive(Head(inp))
        /\ inp' = Tail(inp)          \* shown in the terminal
        /\ UNCHANGED pump
  /\ UNCHANGED <<cooldown, cmds, rxVars, out, szVars>>

CooldownOver ==
  /\ cooldown /\ pump \notin Receiving /\ cooldown' = FALSE
  /\ UNCHANGED <<pump, cmds, rxVars, inp, out, szVars>>

-----------------------------------------------------------------------------
Next1 == Head(inp).type                       \* the kind of what arrives next
Arrived == inp # <<>> /\ Next1 # "close"      \* something to read

(* receive.  A failure cancels the sender and leaves the row and the file; what
   came with the frame that failed, in the same piece of the channel, is lost. *)
Fail ==
  /\ \E k \in (IF Arrived THEN 1 ELSE 0)..Len(inp) :
       /\ \A i \in 1..k : inp[i].type # "close"
       /\ inp' = SubSeq(inp, k + 1, Len(inp))
  /\ pump' = "select" /\ cooldown' = TRUE
  /\ out' = IF Open THEN Append(out, Frame("CAN")) ELSE out
  /\ cur' = 0 /\ received' = 0 /\ garbled' = FALSE
  /\ UNCHANGED <<cmds, rows>>

Finish ==
  /\ pump' = "select" /\ cooldown' = TRUE

(* Out of the loop: the close handshake, if a file was received.
   Mutant: the last word is left to the sender. *)
Leave_Waits ==
  IF received' > 0
  THEN pump' = "drain" /\ out' = Append(out, Frame("ZRINIT")) /\ UNCHANGED cooldown
  ELSE Finish /\ UNCHANGED out
Leave ==
  IF received' > 0
  THEN pump' = "drain" /\ out' = out \o <<Frame("ZRINIT"), Frame("ZFIN")>> /\ UNCHANGED cooldown
  ELSE Finish /\ UNCHANGED out

(* The file that is open after an end of file. *)
OpenAfterEof == 0

(* A header.  Everything that is not one is skipped; one that is may have a wrong
   checksum, and at the end of a file the rest of it may not reach the disk. *)
TakesHeader ==
  /\ inp' = Tail(inp)
  /\ \/ /\ Next1 \notin Header
        /\ UNCHANGED <<pump, cooldown, out, cur, received, rows>>
     \/ /\ Next1 = "ZRQINIT"
        /\ out' = Append(out, Frame("ZRINIT"))
        /\ UNCHANGED <<pump, cooldown, cur, received, rows>>
     \/ /\ Next1 = "ZFILE" /\ pump' = "info"
        /\ UNCHANGED <<cooldown, out, cur, received, rows>>
     \/ /\ Next1 = "ZDATA" /\ pump' = "data"
        /\ UNCHANGED <<cooldown, out, cur, received, rows>>
     \/ /\ Next1 = "ZEOF" /\ pump' = "peek"
        /\ out' = Append(out, Frame("ZRINIT"))
        /\ rows' = IF cur = 0 THEN rows ELSE [rows EXCEPT ![cur].state = "done"]
        /\ received' = IF cur = 0 THEN received ELSE received + 1
        /\ cur' = OpenAfterEof
        /\ UNCHANGED cooldown
     \/ /\ Next1 = "ZFIN"
        /\ cur' = 0 /\ UNCHANGED <<received, rows>>
        /\ Leave

ReadHeader ==
  /\ pump = "header" /\ Arrived
  /\ TakesHeader \/ (Next1 \in Header /\ Fail)
  /\ garbled' = FALSE
  /\ UNCHANGED <<cmds, szVars>>

(* A data subpacket; what precedes it belongs to it and spoils its checksum.
   Mutant: the checksum is not compared. *)
Spoilt_Unchecked == FALSE
Spoilt == garbled

TakesSubpacket ==
  /\ Next1 = "sub" /\ ~Spoilt
  /\ inp' = Tail(inp) /\ garbled' = FALSE
  /\ LET sub == Head(inp) IN
     \/ /\ pump = "info" /\ pump' = "header"
        /\ rows' = Append(rows, [file |-> sub.n, got |-> <<>>, state |-> "active"])
        /\ cur' = Len(rows')
        /\ out' = Append(out, Frame("ZRPOS"))
     \/ /\ pump = "data"
        /\ pump' = IF sub.end \in {"G", "Q"} THEN "data" ELSE "header"
        /\ rows' = IF cur = 0 THEN rows
                   ELSE [rows EXCEPT ![cur].got = Append(@, IF garbled THEN 0 ELSE sub.n)]
        /\ out' = IF sub.end \in {"Q", "W"} THEN Append(out, Frame("ZACK")) ELSE out
        /\ UNCHANGED cur
  /\ UNCHANGED <<cooldown, cmds, received>>

(* The checksum may be wrong, and the disk may refuse the file or the data. *)
ReadSubpacket ==
  /\ pump \in {"info", "data"} /\ Arrived
  /\ \/ /\ Next1 # "sub" /\ inp' = Tail(inp) /\ garbled' = TRUE
        /\ UNCHANGED <<pumpVars, cur, received, rows, out>>
     \/ TakesSubpacket
     \/ Next1 = "sub" /\ Fail
  /\ UNCHANGED szVars

(* After the end of a file: the next file, or any other header or a wrong one, or
   two seconds in all. *)
Peek ==
  /\ pump = "peek" /\ Arrived
  /\ inp' = Tail(inp)
  /\ \/ /\ Next1 \notin Header
        /\ UNCHANGED <<pump, cooldown, out, received>>
     \/ /\ Next1 = "ZFILE" /\ pump' = "info"
        /\ UNCHANGED <<cooldown, out, received>>
     \/ /\ Next1 \in Header
        /\ UNCHANGED received
        /\ Leave
  /\ UNCHANGED <<cmds, cur, garbled, rows, szVars>>
PeekEnds ==
  /\ pump = "peek" /\ ~Arrived
  /\ UNCHANGED <<received, cmds, cur, garbled, rows, inp, szVars>>
  /\ Leave

(* The sender's last frames are swallowed up to the first other byte. *)
IsClose(frame) == frame.type \in {"ZFIN", "ZRQINIT", "ZABORT", "OO"} \/ frame = Text("hex")
Drain ==
  /\ pump = "drain" /\ inp # <<>> /\ IsClose(Head(inp))
  /\ inp' = Tail(inp)
  /\ UNCHANGED <<pumpVars, rxVars, out, szVars>>
DrainEnds ==
  /\ pump = "drain" /\ ~(inp # <<>> /\ IsClose(Head(inp)))
  /\ Finish /\ received' = 0
  /\ UNCHANGED <<cmds, cur, garbled, rows, inp, out, szVars>>

(* Nothing at all for 30 seconds, or the channel is closed: whatever arrives, be it
   skipped, starts the 30 seconds anew.
   Mutant: only a closed channel ends the wait. *)
GivesUp_WhenClosed == inp # <<>> /\ Next1 = "close"
GivesUp == ~Arrived
ReadFails ==
  /\ pump \in {"header", "info", "data"} /\ GivesUp
  /\ Fail
  /\ UNCHANGED szVars

-----------------------------------------------------------------------------
(* The user.  Bound: one command waits at a time. *)
Send(c) ==
  /\ pump # "ended" /\ cmds = <<>>
  /\ cmds' = Append(cmds, c)
  /\ UNCHANGED <<pump, cooldown, rxVars, inp, out, szVars>>

-----------------------------------------------------------------------------
(* The server: sz, the shell around it, and the connection. *)
Says(frames) == inp' = inp \o frames
Prompt == \E c \in {"hex", "plain"} : Says(<<Text(c)>>)
Hears(t) == out # <<>> /\ Head(out).type = t /\ out' = Tail(out)

SzFile(f) == <<Frame("ZFILE"), Sub(f, "W")>>
SzGone == sz' = "gone" /\ file' = 0 /\ piece' = 0
SzScript ==
  /\ Open /\ runs > 0 /\ SzRuns
  /\ UNCHANGED <<pumpVars, rxVars, out>>
(* Without an answer the first frame is repeated, counted in piece, up to an end. *)
SzResend ==
  /\ Open /\ sz = "init" /\ out = <<>> /\ \A i \in DOMAIN inp : inp[i].type # "ZRQINIT"
  /\ IF piece < MaxTries THEN Says(<<Frame("ZRQINIT")>>) /\ piece' = piece + 1 /\ UNCHANGED <<sz, file>>
                         ELSE Prompt /\ SzGone
  /\ UNCHANGED <<pumpVars, rxVars, out, runs>>
SzStart ==
  /\ Open /\ sz = "init" /\ Hears("ZRINIT") /\ Says(SzFile(1)) /\ sz' = "pos"
  /\ UNCHANGED <<pumpVars, rxVars, file, piece, runs>>
SzPos ==
  /\ Open /\ sz = "pos" /\ Hears("ZRPOS") /\ Says(<<Frame("ZDATA")>>) /\ sz' = "data" /\ piece' = 0
  /\ UNCHANGED <<pumpVars, rxVars, file, runs>>
SzData ==
  /\ Open /\ sz = "data" /\ piece < Size[file]
  /\ \E end \in IF piece + 1 = Size[file] THEN {"E", "W"} ELSE {"G", "Q", "W"} :
       /\ Says(<<Sub(piece + 1, end)>>)
       /\ sz' = IF end = "W" THEN "ack" ELSE "data"
  /\ piece' = piece + 1
  /\ UNCHANGED <<pumpVars, rxVars, out, file, runs>>
SzAck ==
  /\ Open /\ sz = "ack" /\ Hears("ZACK") /\ sz' = "data"
  /\ Says(IF piece < Size[file] THEN <<Frame("ZDATA")>> ELSE <<>>)
  /\ UNCHANGED <<pumpVars, rxVars, file, piece, runs>>
SzEof ==
  /\ Open /\ sz = "data" /\ piece = Size[file]
  /\ Says(<<Frame("ZEOF")>>) /\ sz' = "next"
  /\ UNCHANGED <<pumpVars, rxVars, out, file, piece, runs>>
(* The next file, or the end, which a sender may announce or only wait for. *)
SzNext ==
  /\ Open /\ sz = "next" /\ Hears("ZRINIT")
  /\ \/ /\ file < Len(Size) /\ file' = file + 1 /\ sz' = "pos" /\ Says(SzFile(file'))
     \/ /\ file = Len(Size) /\ sz' = "fin" /\ UNCHANGED file
        /\ Says(<<>>) \/ Says(<<Frame("ZFIN")>>)
  /\ UNCHANGED <<pumpVars, rxVars, piece, runs>>
SzFin ==
  /\ Open /\ sz = "fin" /\ Hears("ZFIN") /\ SzGone
  /\ \E c \in {"hex", "plain"} : Says(<<Frame("OO"), Text(c)>>)
  /\ UNCHANGED <<pumpVars, rxVars, runs>>
(* Cancelled, ended early by the receiver, or interrupted on the server. *)
SzAborts ==
  /\ Open /\ sz \notin {"off", "gone"} /\ SzGone
  /\ \/ Hears("CAN") \/ (sz # "fin" /\ Hears("ZFIN")) \/ UNCHANGED out
  /\ Prompt \/ (sz = "data" /\ Says(<<Frame("ZABORT"), Text("plain")>>))
  /\ UNCHANGED <<pumpVars, rxVars, runs>>
(* Answers that the sender does not wait for, and what reaches the shell. *)
SzIgnores ==
  /\ Open /\ out # <<>>
  /\ \/ sz \in {"off", "gone"}
     \/ /\ Head(out).type \notin {"CAN", "ZFIN"}
        /\ <<sz, Head(out).type>> \notin {<<"init", "ZRINIT">>, <<"pos", "ZRPOS">>, <<"ack", "ZACK">>,
                                          <<"next", "ZRINIT">>}
  /\ out' = Tail(out)
  /\ UNCHANGED <<pumpVars, rxVars, inp, szVars>>

(* Other programs print, and may go on for ever.  Bound: one piece waits unread. *)
Noise ==
  /\ Open /\ (\A i \in DOMAIN inp : inp[i] # Text("plain")) /\ Says(<<Text("plain")>>)
  /\ UNCHANGED <<pumpVars, rxVars, out, szVars>>
ServerCloses ==
  /\ Open /\ Says(<<Frame("close")>>) /\ SzGone /\ out' = <<>>
  /\ UNCHANGED <<pumpVars, rxVars, runs>>

-----------------------------------------------------------------------------
Receive == ReadHeader \/ ReadSubpacket \/ Peek \/ PeekEnds \/ Drain \/ DrainEnds \/ ReadFails
Sender ==
  \/ SzStart \/ SzPos \/ SzData \/ SzAck \/ SzEof \/ SzNext \/ SzFin \/ SzIgnores
Cancelled ==
  SzAborts /\ out # out'
Next ==
  \/ Command \/ Data \/ CooldownOver \/ Receive
  \/ \E c \in {"sz", "close"} : Send(c)
  \/ Sender \/ SzScript \/ SzResend \/ SzAborts \/ Noise \/ ServerCloses

(* The pump runs whenever it can, time passes, and sz reads what it is sent and
   repeats its first frame; nobody has to close or interrupt anything.  The wait
   after a file ends, whatever is printed meanwhile. *)
Fairness ==
  /\ WF_vars(Command) /\ WF_vars(Data) /\ WF_vars(CooldownOver) /\ WF_vars(Receive) /\ SF_vars(PeekEnds)
  /\ WF_vars(Sender) /\ WF_vars(Cancelled) /\ WF_vars(SzResend)
Spec == Init /\ [][Next]_vars /\ Fairness

-----------------------------------------------------------------------------
(* The row that is written to is the last one and the only one a receive may
   still end; nothing is counted that is not done. *)
TypeOK ==
  /\ pump \in {"select", "ended"} \cup Receiving
  /\ cur \in {0, Len(rows)}
  /\ pump \in Receiving /\ cur # 0 => rows[cur].state = "active"
  /\ \A i \in DOMAIN rows : rows[i].state \in {"active", "done"}

(* A file that is reported done was written from its first byte to its last, in
   order and nothing else, whatever was printed in between, however often the
   sender was interrupted and started again. *)
DoneIsWhole ==
  \A i \in DOMAIN rows : rows[i].state = "done" => rows[i].got = Whole(rows[i].file)
FilesAreWhole == TypeOK /\ DoneIsWhole

(* While a file is received no command is read.  A transfer that got stuck still
   does not keep the tab from closing, unless other output comes for ever, which
   the receiver skips or takes for data and which restarts its 30 seconds. *)
OutputComesForEver == []<><<Noise /\ pump \in {"header", "info", "data"}>>_vars
CloseIsHeard == OutputComesForEver \/ ((cmds = <<"close">>) ~> (pump = "ended"))

(* The first sz of a session is never left waiting: it gets its ZFIN or it is
   cancelled, so the shell comes back.  (Frames that an earlier one left behind may
   start a receive that takes the first frame of the next.) *)
SenderLeaves ==
  (sz \notin {"off", "gone"} /\ runs = 1) ~> (sz = "gone" \/ runs > 1 \/ pump = "ended")

(* The swallowing of the last frames takes no byte of the shell's own output. *)
PromptIsKept == [][Drain => Next1 # "text"]_vars
=============================================================================
