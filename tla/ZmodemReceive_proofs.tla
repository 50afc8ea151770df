------------------------ MODULE ZmodemReceive_proofs -------------------------
(***************************************************************************)
(* Proofs about ZmodemReceive: a file that is reported done is whole, for  *)
(* any files, any number of runs of sz and any output in between.          *)
(***************************************************************************)
EXTENDS ZmodemReceive, TLAPS

(* Where a frame of the channel belongs: to no file a receive could end, to *)
(* the name of one, or between or inside the data of file f of which k      *)
(* subpackets have passed.                                                  *)
Place == [at : {"quiet", "named", "head", "data"}, f : Nat, k : Nat]
Quiet == [at |-> "quiet", f |-> 0, k |-> 0]
Named == [at |-> "named", f |-> 0, k |-> 0]
AtHead(f, k) == [at |-> "head", f |-> f, k |-> k]
InData(f, k) == [at |-> "data", f |-> f, k |-> k]

(* The place of what follows frame x, if x is at place a.                   *)
After(a, x) ==
  IF x.type = "ZFILE" THEN Named
  ELSE IF a.at = "named" THEN (IF x.type = "sub" THEN AtHead(x.n, 0) ELSE Quiet)
  ELSE IF a.at = "head" THEN (IF x.type = "ZDATA" THEN InData(a.f, a.k)
                              ELSE IF x.type \in {"ZEOF", "ZFIN", "ZABORT"} THEN Quiet ELSE a)
  ELSE IF a.at = "data" /\ x.type = "sub"
       THEN (IF x.end \in {"G", "Q"} THEN InData(a.f, a.k + 1) ELSE AtHead(a.f, a.k + 1))
  ELSE Quiet

(* Data continues its file, and its end comes when there is no more.        *)
Fits(a, x) ==
  /\ x.type = "ZEOF" /\ a.at = "head" => a.k = Size[a.f]
  /\ x.type = "sub" /\ a.at = "data" => x.n = a.k + 1

FrameTypes == Header \cup {"OO", "sub", "text", "close"}
FrameEnds == {"", "G", "Q", "E", "W", "hex", "plain"}
Packet == [type : FrameTypes, n : Nat, end : FrameEnds]

(* The frames of s lead from place a to place b.                            *)
Leads(a, s, b) ==
  \E t \in [1..Len(s) + 1 -> Place] :
    /\ t[1] = a /\ t[Len(s) + 1] = b
    /\ \A i \in 1..Len(s) : t[i + 1] = After(t[i], s[i]) /\ Fits(t[i], s[i])

LEMMA PacketNumber ==
  ASSUME NEW x \in Packet
  PROVE  x.n \in Nat
BY DEF Packet

LEMMA AfterType ==
  ASSUME NEW a \in Place, NEW x \in Packet
  PROVE  After(a, x) \in Place
BY PacketNumber DEF Place, After, Quiet, Named, AtHead, InData

LEMMA LeadsNowhere ==
  ASSUME NEW a \in Place
  PROVE  Leads(a, <<>>, a)
<1> DEFINE t == [i \in 1..1 |-> a]
<1>1. t \in [1..Len(<<>>) + 1 -> Place] /\ t[1] = a /\ t[Len(<<>>) + 1] = a
  OBVIOUS
<1>2. \A i \in 1..Len(<<>>) : FALSE
  OBVIOUS
<1>3. QED
  BY <1>1, <1>2 DEF Leads

LEMMA LeadsOn ==
  ASSUME NEW a \in Place, NEW b \in Place, NEW s \in Seq(Packet), s # <<>>, Leads(a, s, b)
  PROVE  /\ Head(s) \in Packet /\ Tail(s) \in Seq(Packet)
         /\ Fits(a, Head(s)) /\ After(a, Head(s)) \in Place
         /\ Leads(After(a, Head(s)), Tail(s), b)
<1>1. PICK t \in [1..Len(s) + 1 -> Place] :
        /\ t[1] = a /\ t[Len(s) + 1] = b
        /\ \A i \in 1..Len(s) : t[i + 1] = After(t[i], s[i]) /\ Fits(t[i], s[i])
  BY DEF Leads
<1>2. /\ Len(s) \in Nat /\ Len(s) > 0 /\ Head(s) = s[1] /\ Head(s) \in Packet
      /\ Tail(s) \in Seq(Packet) /\ Len(Tail(s)) = Len(s) - 1
      /\ \A i \in 1..Len(s) - 1 : Tail(s)[i] = s[i + 1]
  OBVIOUS
<1> DEFINE u == [i \in 1..Len(Tail(s)) + 1 |-> t[i + 1]]
<1>3. t[2] = After(a, Head(s)) /\ Fits(a, Head(s))
  BY <1>1, <1>2
<1>4. u \in [1..Len(Tail(s)) + 1 -> Place] /\ u[1] = t[2] /\ u[Len(Tail(s)) + 1] = b
  BY <1>1, <1>2
<1>5. ASSUME NEW i \in 1..Len(Tail(s))
      PROVE  u[i + 1] = After(u[i], Tail(s)[i]) /\ Fits(u[i], Tail(s)[i])
  <2>1. i + 1 \in 1..Len(s) /\ Tail(s)[i] = s[i + 1]
    BY <1>2
  <2>2. u[i] = t[i + 1] /\ u[i + 1] = t[(i + 1) + 1]
    BY <1>2
  <2>3. QED
    BY <1>1, <2>1, <2>2
<1>6. Leads(After(a, Head(s)), Tail(s), b)
  BY <1>3, <1>4, <1>5 DEF Leads
<1>7. QED
  BY <1>2, <1>3, <1>6, AfterType

LEMMA LeadsFurther ==
  ASSUME NEW a \in Place, NEW b \in Place, NEW s \in Seq(Packet), Leads(a, s, b),
         NEW x \in Packet, Fits(b, x)
  PROVE  /\ s \o <<x>> \in Seq(Packet) /\ After(b, x) \in Place
         /\ Leads(a, s \o <<x>>, After(b, x))
<1>1. PICK t \in [1..Len(s) + 1 -> Place] :
        /\ t[1] = a /\ t[Len(s) + 1] = b
        /\ \A i \in 1..Len(s) : t[i + 1] = After(t[i], s[i]) /\ Fits(t[i], s[i])
  BY DEF Leads
<1> DEFINE r == s \o <<x>>
           u == [i \in 1..Len(r) + 1 |-> IF i = Len(s) + 2 THEN After(b, x) ELSE t[i]]
<1>2. /\ Len(s) \in Nat /\ r \in Seq(Packet) /\ Len(r) = Len(s) + 1
      /\ r[Len(s) + 1] = x /\ \A i \in 1..Len(s) : r[i] = s[i]
  OBVIOUS
<1>3. After(b, x) \in Place
  BY AfterType
<1> HIDE DEF r
<1>4. u \in [1..Len(r) + 1 -> Place] /\ u[1] = a /\ u[Len(r) + 1] = After(b, x)
  BY <1>1, <1>2, <1>3
<1>5. ASSUME NEW i \in 1..Len(r)
      PROVE  u[i + 1] = After(u[i], r[i]) /\ Fits(u[i], r[i])
  <2>1. CASE i = Len(s) + 1
    BY <1>1, <1>2, <2>1
  <2>2. CASE i # Len(s) + 1
    <3>1. i \in 1..Len(s) /\ u[i] = t[i] /\ u[i + 1] = t[i + 1] /\ r[i] = s[i]
      BY <1>2, <2>2
    <3>2. QED
      BY <1>1, <3>1
  <2>3. QED
    BY <2>1, <2>2
<1>6. Leads(a, r, After(b, x))
  BY <1>4, <1>5 DEF Leads
<1>7. QED
  BY <1>2, <1>3, <1>6 DEF r
(* So do the frames that are left when the first k of them are lost.        *)
LEMMA LeadsLater ==
  ASSUME NEW a \in Place, NEW b \in Place, NEW s \in Seq(Packet), Leads(a, s, b),
         NEW k \in 0..Len(s), NEW r, r = SubSeq(s, k + 1, Len(s))
  PROVE  r \in Seq(Packet) /\ \E c \in Place : Leads(c, r, b)
<1>1. PICK t \in [1..Len(s) + 1 -> Place] :
        /\ t[1] = a /\ t[Len(s) + 1] = b
        /\ \A i \in 1..Len(s) : t[i + 1] = After(t[i], s[i]) /\ Fits(t[i], s[i])
  BY DEF Leads
<1>2. /\ Len(s) \in Nat /\ k \in Nat /\ k <= Len(s)
      /\ r \in Seq(Packet) /\ Len(r) = Len(s) - k
      /\ \A i \in 1..Len(s) - k : r[i] = s[k + i]
  OBVIOUS
<1> DEFINE u == [i \in 1..Len(r) + 1 |-> t[k + i]]
<1>3. /\ u \in [1..Len(r) + 1 -> Place] /\ u[1] = t[k + 1] /\ u[Len(r) + 1] = b
      /\ t[k + 1] \in Place
  <2>1. \A i \in 1..Len(r) + 1 : k + i \in 1..Len(s) + 1
    BY <1>2
  <2>2. u \in [1..Len(r) + 1 -> Place]
    BY <1>1, <2>1
  <2>3. 1 \in 1..Len(r) + 1 /\ Len(r) + 1 \in 1..Len(r) + 1 /\ k + (Len(r) + 1) = Len(s) + 1
    BY <1>2
  <2>4. QED
    BY <1>1, <2>1, <2>2, <2>3
<1>4. ASSUME NEW i \in 1..Len(r) PROVE u[i + 1] = After(u[i], r[i]) /\ Fits(u[i], r[i])
  <2>1. k + i \in 1..Len(s) /\ r[i] = s[k + i]
    BY <1>2
  <2>2. u[i] = t[k + i] /\ u[i + 1] = t[(k + i) + 1]
    <3>1. i \in 1..Len(r) + 1 /\ i + 1 \in 1..Len(r) + 1 /\ k + (i + 1) = (k + i) + 1
      BY <1>2
    <3>2. u[i] = t[k + i] /\ u[i + 1] = t[k + (i + 1)]
      BY <3>1
    <3>3. QED
      BY <3>1, <3>2
  <2>3. QED
    BY <1>1, <2>1, <2>2
<1>5. Leads(t[k + 1], r, b)
  BY <1>3, <1>4 DEF Leads
<1>6. QED
  BY <1>2, <1>3, <1>5

(* Types, and what of the receive is settled outside of a file.             *)
Row == [file : Nat, got : Seq(Nat), state : {"active", "done"}]
Typed ==
  /\ pump \in {"select", "ended"} \cup Receiving
  /\ inp \in Seq(Packet) /\ rows \in Seq(Row)
  /\ cur \in {0, Len(rows)} /\ garbled \in BOOLEAN
  /\ file \in Nat /\ piece \in Nat
Settled ==
  /\ cur # 0 => rows[cur].state = "active"
  /\ garbled => pump \in {"info", "data"}
  /\ pump \in {"select", "ended", "peek", "drain"} => cur = 0
  /\ DoneIsWhole

(* A reader that lost nothing is at the place of the next frame, with as much *)
(* of the file written as has passed; and the sender, while it sends a file,  *)
(* is at the place of the frame it will send.                                *)
Holds(a) == rows[cur].file = a.f /\ rows[cur].got = [i \in 1..a.k |-> i]
Synced(a) ==
  /\ cur # 0 /\ pump = "header" => a.at = "head" /\ Holds(a)
  /\ cur # 0 /\ pump = "data" /\ ~garbled => a.at = "data" /\ Holds(a)
  /\ pump = "info" /\ ~garbled => a.at = "named"
Sending(b) ==
  /\ sz = "init" => file = 1
  /\ sz = "pos" => b = AtHead(file, 0)
  /\ sz = "data" => \/ b = Quiet \/ b = InData(file, piece)
                    \/ b = AtHead(file, piece) /\ ~(piece < Size[file])
  /\ sz = "ack" => b = Quiet \/ b = AtHead(file, piece)

(* Inductive: between the two places lie the frames that are under way.      *)
Tracked == \E a, b \in Place : Leads(a, inp, b) /\ Synced(a) /\ Sending(b)
IInv == Typed /\ Settled /\ Tracked

LEMMA InitHolds == Init => IInv
<1> SUFFICES ASSUME Init PROVE IInv
  OBVIOUS
<1> USE DEF Init
<1>1. Typed
  <2>1. inp \in Seq(Packet) /\ rows \in Seq(Row)
    OBVIOUS
  <2>2. QED
    BY <2>1 DEF Typed
<1>2. Settled
  <2>1. DoneIsWhole
    BY DEF DoneIsWhole
  <2>2. QED
    BY <2>1 DEF Settled
<1>3. Quiet \in Place
  BY DEF Quiet, Place
<1>4. Leads(Quiet, inp, Quiet)
  BY <1>3, LeadsNowhere DEF Init
<1>5. Synced(Quiet) /\ Sending(Quiet)
  BY DEF Init, Synced, Sending
<1>6. QED
  BY <1>1, <1>3, <1>4, <1>5, <1>2 DEF IInv, Tracked

(* The reader takes the first frame or none, and the sender is not touched.  *)
LEMMA ReaderMoves ==
  ASSUME IInv, UNCHANGED <<sz, file, piece>>, Typed', Settled',
         NEW a \in Place, NEW b \in Place, Leads(a, inp, b), Sending(b),
         \/ inp' = inp /\ Synced(a)'
         \/ /\ inp # <<>> /\ inp' = Tail(inp)
            /\ \E c \in Place : c = After(a, Head(inp)) /\ Synced(c)'
  PROVE  IInv'
<1>1. Sending(b)'
  BY DEF Sending
<1>2. CASE inp' = inp /\ Synced(a)'
  BY <1>1, <1>2 DEF IInv, Tracked
<1>3. ASSUME inp # <<>>, inp' = Tail(inp), NEW c \in Place, c = After(a, Head(inp)), Synced(c)'
      PROVE  IInv'
  <2>1. inp \in Seq(Packet)
    BY DEF IInv, Typed
  <2>2. Leads(c, inp', b)
    BY <1>3, <2>1, LeadsOn
  <2>3. QED
    BY <1>1, <1>3, <2>2 DEF IInv, Tracked
<1>4. QED
  BY <1>2, <1>3

LEMMA TwoAppended ==
  ASSUME NEW s \in Seq(Packet), NEW x \in Packet, NEW y \in Packet
  PROVE  s \o <<x, y>> = (s \o <<x>>) \o <<y>>
<1> DEFINE r == s \o <<x, y>>
           q == s \o <<x>>
           t == q \o <<y>>
<1>1. /\ Len(s) \in Nat /\ r \in Seq(Packet) /\ Len(r) = Len(s) + 2
      /\ r[Len(s) + 1] = x /\ r[Len(s) + 2] = y /\ \A i \in 1..Len(s) : r[i] = s[i]
  OBVIOUS
<1>2. /\ q \in Seq(Packet) /\ Len(q) = Len(s) + 1
      /\ q[Len(s) + 1] = x /\ \A i \in 1..Len(s) : q[i] = s[i]
  OBVIOUS
<1> HIDE DEF q
<1>3. /\ t \in Seq(Packet) /\ Len(t) = Len(s) + 2 /\ t[Len(s) + 2] = y
      /\ \A i \in 1..Len(s) + 1 : t[i] = q[i]
  BY <1>1, <1>2
<1> HIDE DEF r, t
<1>4. \A i \in 1..Len(s) + 2 : r[i] = t[i]
  BY <1>1, <1>2, <1>3
<1>5. r = t
  BY <1>1, <1>3, <1>4
<1>6. QED
  BY <1>5 DEF r, t, q

(* The server's side sends nothing, a frame, or two.                        *)
LEMMA SenderMoves ==
  ASSUME IInv, UNCHANGED <<pump, cur, garbled, rows>>, file' \in Nat, piece' \in Nat,
         NEW a \in Place, NEW b \in Place, Leads(a, inp, b), Synced(a),
         \/ inp' = inp /\ Sending(b)'
         \/ \E x \in Packet : inp' = inp \o <<x>> /\ Fits(b, x) /\ Sending(After(b, x))'
         \/ \E x, y \in Packet :
              /\ inp' = inp \o <<x, y>> /\ Fits(b, x) /\ Fits(After(b, x), y)
              /\ Sending(After(After(b, x), y))'
  PROVE  IInv'
<1>1. inp \in Seq(Packet)
  BY DEF IInv, Typed
<1>2. Synced(a)' /\ Settled'
  BY DEF IInv, Synced, Holds, Settled, DoneIsWhole, Whole
<1>3. CASE inp' = inp /\ Sending(b)'
  <2>1. Typed'
    BY <1>3 DEF IInv, Typed
  <2>2. QED
    BY <1>2, <1>3, <2>1 DEF IInv, Tracked
<1>4. ASSUME NEW x \in Packet, inp' = inp \o <<x>>, Fits(b, x), Sending(After(b, x))'
      PROVE  IInv'
  <2>1. inp' \in Seq(Packet) /\ After(b, x) \in Place /\ Leads(a, inp', After(b, x))
    BY <1>1, <1>4, LeadsFurther
  <2>2. Typed'
    BY <2>1 DEF IInv, Typed
  <2>3. QED
    BY <1>2, <1>4, <2>1, <2>2 DEF IInv, Tracked
<1>5. ASSUME NEW x \in Packet, NEW y \in Packet, inp' = inp \o <<x, y>>, Fits(b, x),
             Fits(After(b, x), y), Sending(After(After(b, x), y))'
      PROVE  IInv'
  <2>1. inp \o <<x>> \in Seq(Packet) /\ After(b, x) \in Place /\ Leads(a, inp \o <<x>>, After(b, x))
    BY <1>1, <1>5, LeadsFurther
  <2>2. inp' = (inp \o <<x>>) \o <<y>>
    BY <1>1, <1>5, TwoAppended
  <2>3. /\ inp' \in Seq(Packet) /\ After(After(b, x), y) \in Place
        /\ Leads(a, inp', After(After(b, x), y))
    BY <1>5, <2>1, <2>2, LeadsFurther
  <2>4. Typed'
    BY <2>3 DEF IInv, Typed
  <2>5. QED
    BY <1>2, <1>5, <2>3, <2>4 DEF IInv, Tracked
<1>6. QED
  BY <1>3, <1>4, <1>5
(* While no file is open and none is named, nothing depends on the place.    *)
LEMMA IdleIsSynced ==
  ASSUME cur = 0, pump # "info"
  PROVE  \A a \in Place : Synced(a)
BY DEF Synced

LEMMA Places ==
  ASSUME IInv
  PROVE  \E a, b \in Place : Leads(a, inp, b) /\ Synced(a) /\ Sending(b)
BY DEF IInv, Tracked

(* Outside of a file: the reader takes a frame or none and comes to a place   *)
(* where it has nothing open.                                                 *)
LEMMA ReaderIdles ==
  ASSUME IInv, UNCHANGED <<sz, file, piece, rows>>, inp' = inp \/ (inp # <<>> /\ inp' = Tail(inp)),
         cur' = 0, garbled' = FALSE,
         pump' \in {"select", "ended", "header", "data", "peek", "drain"}
  PROVE  IInv'
<1>1. PICK a \in Place, b \in Place : Leads(a, inp, b) /\ Synced(a) /\ Sending(b)
  BY Places
<1>2. \A c \in Place : Synced(c)'
  BY DEF Synced
<1>3. inp # <<>> => After(a, Head(inp)) \in Place /\ Tail(inp) \in Seq(Packet)
  BY <1>1, LeadsOn DEF IInv, Typed
<1>4. Typed' /\ Settled'
  <2>1. inp' \in Seq(Packet)
    BY <1>3 DEF IInv, Typed
  <2>2. Typed'
    BY <2>1 DEF IInv, Typed, Receiving
  <2>3. Settled'
    BY DEF IInv, Settled, DoneIsWhole, Whole
  <2>4. QED
    BY <2>2, <2>3
<1>5. CASE inp' = inp
  BY <1>1, <1>2, <1>4, <1>5, ReaderMoves
<1>6. CASE inp # <<>> /\ inp' = Tail(inp)
  <2>1. \E c \in Place : c = After(a, Head(inp)) /\ Synced(c)'
    BY <1>2, <1>3, <1>6
  <2>2. QED
    BY <1>1, <1>4, <1>6, <2>1, ReaderMoves
<1>7. QED
  BY <1>5, <1>6

(* The same with what is open untouched.                                      *)
LEMMA NothingRead ==
  ASSUME IInv, UNCHANGED <<sz, file, piece, inp, pump, cur, garbled, rows>>
  PROVE  IInv'
<1>1. PICK a \in Place, b \in Place : Leads(a, inp, b) /\ Synced(a) /\ Sending(b)
  BY Places
<1>2. Typed' /\ Settled' /\ Synced(a)'
  BY <1>1 DEF IInv, Typed, Settled, Synced, Holds, DoneIsWhole, Whole
<1>3. QED
  BY <1>1, <1>2, ReaderMoves

LEMMA DataStep == IInv /\ Data => IInv'
<1> SUFFICES ASSUME IInv, Data PROVE IInv'
  OBVIOUS
<1>1. cur = 0 /\ garbled = FALSE /\ pump = "select" /\ inp # <<>>
  BY DEF IInv, Typed, Settled, Data
<1>2. /\ UNCHANGED <<sz, file, piece, rows, cur, garbled>> /\ (inp' = inp \/ inp' = Tail(inp))
      /\ pump' \in {"select", "ended", "header"}
  BY <1>1 DEF Data, rxVars, szVars
<1>3. QED
  BY <1>1, <1>2, ReaderIdles

LEMMA CooldownStep == IInv /\ CooldownOver => IInv'
BY NothingRead DEF CooldownOver, rxVars, szVars

LEMMA SendStep == ASSUME NEW c PROVE IInv /\ Send(c) => IInv'
BY NothingRead DEF Send, rxVars, szVars

LEMMA DrainStep == IInv /\ (Drain \/ DrainEnds) => IInv'
<1> SUFFICES ASSUME IInv, Drain \/ DrainEnds PROVE IInv'
  OBVIOUS
<1>1. cur = 0 /\ garbled = FALSE
  BY DEF IInv, Typed, Settled, Drain, DrainEnds
<1>2. /\ UNCHANGED <<sz, file, piece, rows, cur, garbled>>
      /\ inp' = inp \/ (inp # <<>> /\ inp' = Tail(inp))
      /\ pump' \in {"select", "drain"}
  BY DEF Drain, DrainEnds, Finish, pumpVars, rxVars, szVars
<1>3. QED
  BY <1>1, <1>2, ReaderIdles

LEMMA PeekEndsStep == IInv /\ PeekEnds => IInv'
<1> SUFFICES ASSUME IInv, PeekEnds PROVE IInv'
  OBVIOUS
<1>1. cur = 0 /\ garbled = FALSE
  BY DEF IInv, Typed, Settled, PeekEnds
<1>2. /\ UNCHANGED <<sz, file, piece, rows, cur, garbled, inp>>
      /\ pump' \in {"select", "drain"}
  BY DEF PeekEnds, Leave, Finish, szVars
<1>3. QED
  BY <1>1, <1>2, ReaderIdles

(* A failure leaves no file open; what is lost of the channel is a beginning.  *)
LEMMA FailStep ==
  ASSUME IInv, Fail, UNCHANGED szVars
  PROVE  IInv'
<1>1. PICK a \in Place, b \in Place : Leads(a, inp, b) /\ Synced(a) /\ Sending(b)
  BY Places
<1>2. /\ UNCHANGED <<sz, file, piece, rows>>
      /\ cur' = 0 /\ garbled' = FALSE /\ pump' = "select"
  BY DEF Fail, szVars
<1>3. PICK k \in 0..Len(inp) : inp' = SubSeq(inp, k + 1, Len(inp))
  <2>1. Len(inp) \in Nat
    BY DEF IInv, Typed
  <2>2. QED
    BY <2>1 DEF Fail
<1>4. PICK c \in Place : Leads(c, inp', b) /\ inp' \in Seq(Packet)
  BY <1>1, <1>3, LeadsLater DEF IInv, Typed
<1>5. Synced(c)' /\ Sending(b)'
  BY <1>1, <1>2 DEF Synced, Sending
<1>6. Typed' /\ Settled'
  BY <1>2, <1>4 DEF IInv, Typed, Settled, DoneIsWhole, Whole
<1>7. QED
  BY <1>4, <1>5, <1>6 DEF IInv, Tracked

LEMMA ReadFailsStep == IInv /\ ReadFails => IInv'
BY FailStep DEF ReadFails

(* A name follows: the place after a ZFILE.                                   *)
LEMMA NameFollows ==
  ASSUME IInv, UNCHANGED <<sz, file, piece, rows>>, inp # <<>>, inp' = Tail(inp),
         Head(inp).type = "ZFILE", cur' = cur, garbled' = FALSE, pump' = "info"
  PROVE  IInv'
<1>1. PICK a \in Place, b \in Place : Leads(a, inp, b) /\ Synced(a) /\ Sending(b)
  BY Places
<1>2. After(a, Head(inp)) \in Place /\ Tail(inp) \in Seq(Packet)
  BY <1>1, LeadsOn DEF IInv, Typed
<1>3. PICK c \in Place : c = After(a, Head(inp))
  BY <1>2
<1>4. Synced(c)'
  BY <1>3 DEF Synced, After, Named
<1>5. Typed' /\ Settled'
  BY <1>2 DEF IInv, Typed, Settled, Receiving, DoneIsWhole, Whole
<1>6. QED
  BY <1>1, <1>3, <1>4, <1>5, ReaderMoves

LEMMA PeekStep == IInv /\ Peek => IInv'
<1> SUFFICES ASSUME IInv, Peek PROVE IInv'
  OBVIOUS
<1>1. cur = 0 /\ garbled = FALSE
  BY DEF IInv, Typed, Settled, Peek
<1>2. UNCHANGED <<sz, file, piece, rows, cur, garbled>> /\ inp # <<>> /\ inp' = Tail(inp)
  BY DEF Peek, Arrived, szVars
<1>3. CASE Head(inp).type = "ZFILE" /\ pump' = "info"
  BY <1>1, <1>2, <1>3, NameFollows
<1>4. CASE pump' \in {"peek", "select", "drain"}
  BY <1>1, <1>2, <1>4, ReaderIdles
<1>5. QED
  BY <1>3, <1>4 DEF Peek, Next1, Leave, Finish
(* What a row holds after another subpacket.                                  *)
LEMMA CountsOn ==
  ASSUME NEW k \in Nat
  PROVE  Append([i \in 1..k |-> i], k + 1) = [i \in 1..k + 1 |-> i]
<1> DEFINE s == [i \in 1..k |-> i]
           t == Append(s, k + 1)
           u == [i \in 1..k + 1 |-> i]
<1>1. s \in [1..k -> Nat]
  OBVIOUS
<1>2. s \in Seq(Nat) /\ Len(s) = k
  BY <1>1
<1>3. \A i \in 1..k : s[i] = i
  OBVIOUS
<1> HIDE DEF s
<1>4. t \in Seq(Nat) /\ Len(t) = k + 1 /\ t[k + 1] = k + 1 /\ \A i \in 1..k : t[i] = s[i]
  BY <1>2
<1>5. u \in Seq(Nat) /\ Len(u) = k + 1
  <2>1. u \in [1..k + 1 -> Nat]
    OBVIOUS
  <2>2. QED
    BY <2>1
<1>6. \A i \in 1..k + 1 : t[i] = u[i]
  BY <1>3, <1>4
<1>7. t = u
  BY <1>4, <1>5, <1>6
<1>8. QED
  BY <1>7 DEF t, u, s

LEMMA RowReplaced ==
  ASSUME NEW s \in Seq(Row), NEW n \in 1..Len(s), NEW r \in Row, NEW q, q = [s EXCEPT ![n] = r]
  PROVE  /\ q \in Seq(Row) /\ Len(q) = Len(s)
         /\ q[n] = r /\ \A i \in 1..Len(s) : i # n => q[i] = s[i]
<1>1. DOMAIN s = 1..Len(s)
  OBVIOUS
<1>2. q[n] = r /\ \A i \in 1..Len(s) : i # n => q[i] = s[i]
  BY <1>1
<1>3. q \in Seq(Row) /\ Len(q) = Len(s)
  OBVIOUS
<1>4. QED
  BY <1>2, <1>3

(* A header: one case for each of its kinds.                                  *)
LEMMA TakesHeaderStep ==
  ASSUME IInv, pump = "header", Arrived, TakesHeader, garbled' = FALSE, UNCHANGED szVars
  PROVE  IInv'
<1> DEFINE x == Head(inp)
<1>1. PICK a \in Place, b \in Place : Leads(a, inp, b) /\ Synced(a) /\ Sending(b)
  BY Places
<1>2. /\ UNCHANGED <<sz, file, piece>> /\ inp # <<>> /\ inp' = Tail(inp)
      /\ pump = "header" /\ garbled' = FALSE
  BY DEF TakesHeader, Arrived, szVars
<1>3. /\ After(a, x) \in Place /\ Fits(a, x) /\ Tail(inp) \in Seq(Packet)
      /\ rows \in Seq(Row) /\ cur \in {0, Len(rows)} /\ Len(rows) \in Nat /\ garbled = FALSE
  BY <1>1, <1>2, LeadsOn DEF IInv, Typed, Settled
<1>4. PICK c \in Place : c = After(a, x)
  BY <1>3
<1>5. CASE Next1 \notin Header \/ Next1 = "ZRQINIT"
  <2>1. UNCHANGED <<pump, cur, rows>> /\ x.type \notin {"ZFILE", "ZDATA", "ZEOF", "ZFIN", "ZABORT"}
    BY <1>5 DEF TakesHeader, Next1, Header, Leave, Finish
  <2>2. Typed' /\ Settled'
    BY <1>2, <1>3, <2>1 DEF IInv, Typed, Settled, DoneIsWhole, Whole
  <2>3. cur # 0 => c = a
    BY <1>1, <1>2, <1>4, <2>1 DEF Synced, After
  <2>4. Synced(c)'
    BY <1>1, <1>2, <1>3, <2>1, <2>3 DEF Synced, Holds
  <2>5. QED
    BY <1>1, <1>2, <1>4, <2>2, <2>4, ReaderMoves
<1>6. CASE Next1 = "ZFILE"
  <2>1. UNCHANGED <<cur, rows>> /\ x.type = "ZFILE" /\ pump' = "info"
    BY <1>6 DEF TakesHeader, Next1, Header
  <2>2. QED
    BY <1>2, <2>1, NameFollows
<1>7. CASE Next1 = "ZDATA"
  <2>1. UNCHANGED <<cur, rows>> /\ x.type = "ZDATA" /\ pump' = "data"
    BY <1>7 DEF TakesHeader, Next1, Header
  <2>2. Typed' /\ Settled'
    BY <1>2, <1>3, <2>1 DEF IInv, Typed, Settled, Receiving, DoneIsWhole, Whole
  <2>3. cur # 0 => c = InData(a.f, a.k)
    BY <1>1, <1>2, <1>4, <2>1 DEF Synced, After
  <2>4. cur # 0 => c.at = "data" /\ c.f = a.f /\ c.k = a.k /\ Holds(a)
    BY <1>1, <1>2, <2>3 DEF Synced, InData
  <2>5. cur # 0 => Holds(c)'
    BY <2>1, <2>4 DEF Holds
  <2>6. Synced(c)'
    BY <2>1, <2>4, <2>5 DEF Synced
  <2>7. QED
    BY <1>1, <1>2, <1>4, <2>2, <2>6, ReaderMoves
<1>8. CASE Next1 = "ZEOF"
  <2>1. /\ cur' = 0 /\ pump' = "peek" /\ x.type = "ZEOF"
        /\ rows' = IF cur = 0 THEN rows ELSE [rows EXCEPT ![cur].state = "done"]
    BY <1>8 DEF TakesHeader, Next1, Header, OpenAfterEof
  <2>2. CASE cur = 0
    BY <1>2, <2>1, <2>2, ReaderIdles
  <2>3. CASE cur # 0
    <3>1. a.at = "head" /\ Holds(a) /\ a.k = Size[a.f] /\ cur \in 1..Len(rows)
      BY <1>1, <1>2, <1>3, <2>1, <2>3 DEF Synced, Fits
    <3>2. rows[cur] \in Row
      BY <1>3, <3>1
    <3>3. PICK r \in Row : r = [rows[cur] EXCEPT !.state = "done"]
      BY <3>2 DEF Row
    <3>4. rows' = [rows EXCEPT ![cur] = r]
      BY <2>1, <2>3, <3>3
    <3>5. r.file = rows[cur].file /\ r.got = rows[cur].got
      BY <3>2, <3>3 DEF Row
    <3>6. PICK q : q = rows'
      OBVIOUS
    <3>7. /\ q \in Seq(Row) /\ Len(q) = Len(rows)
           /\ q[cur] = r /\ \A i \in 1..Len(rows) : i # cur => q[i] = rows[i]
      BY <1>3, <3>1, <3>3, <3>4, <3>6, RowReplaced
    <3>8. /\ rows' \in Seq(Row) /\ Len(rows') = Len(rows)
          /\ rows'[cur].file = rows[cur].file /\ rows'[cur].got = rows[cur].got
          /\ \A i \in 1..Len(rows) : i # cur => rows'[i] = rows[i]
      BY <3>5, <3>6, <3>7
    <3>9. rows'[cur].got = Whole(rows'[cur].file)
      BY <3>1, <3>8 DEF Holds, Whole
    <3>10. ASSUME NEW i \in 1..Len(rows), rows'[i].state = "done"
          PROVE  rows'[i].got = Whole(rows'[i].file)
      <4>1. CASE i = cur
        BY <3>9, <4>1
      <4>2. CASE i # cur
        BY <1>3, <3>8, <3>10, <4>2 DEF IInv, Settled, DoneIsWhole
      <4>3. QED
        BY <4>1, <4>2
    <3>11. Typed' /\ Settled'
      <4>1. Typed'
        BY <1>2, <1>3, <2>1, <3>8 DEF IInv, Typed, Receiving
      <4>2. DoneIsWhole'
        BY <1>3, <3>8, <3>10 DEF DoneIsWhole, Whole
      <4>3. QED
        BY <1>2, <2>1, <4>1, <4>2 DEF Settled
    <3>12. Synced(c)'
      BY <2>1 DEF Synced
    <3>13. QED
      BY <1>1, <1>2, <1>4, <3>11, <3>12, ReaderMoves
  <2>4. QED
    BY <2>2, <2>3
<1>9. CASE Next1 = "ZFIN"
  <2>1. UNCHANGED rows /\ cur' = 0 /\ pump' \in {"select", "drain"}
    BY <1>9 DEF TakesHeader, Next1, Header, Leave, Finish
  <2>2. QED
    BY <1>2, <2>1, ReaderIdles
<1>10. QED
  BY <1>5, <1>6, <1>7, <1>8, <1>9 DEF TakesHeader

LEMMA ReadHeaderStep == IInv /\ ReadHeader => IInv'
<1> SUFFICES ASSUME IInv, ReadHeader PROVE IInv'
  OBVIOUS
<1>1. pump = "header" /\ Arrived /\ garbled' = FALSE /\ UNCHANGED szVars
  BY DEF ReadHeader
<1>2. CASE Fail
  BY <1>1, <1>2, FailStep
<1>3. CASE TakesHeader
  BY <1>1, <1>3, TakesHeaderStep
<1>4. QED
  BY <1>2, <1>3 DEF ReadHeader

(* The name of a file: a row of its own, nothing written yet.                 *)
LEMMA NameRead ==
  ASSUME IInv, UNCHANGED <<sz, file, piece>>, inp # <<>>, inp' = Tail(inp),
         pump = "info", garbled = FALSE, Head(inp).type = "sub",
         rows' = Append(rows, [file |-> Head(inp).n, got |-> <<>>, state |-> "active"]),
         cur' = Len(rows'), pump' = "header", garbled' = FALSE
  PROVE  IInv'
<1> DEFINE x == Head(inp)
<1>1. PICK a \in Place, b \in Place : Leads(a, inp, b) /\ Synced(a) /\ Sending(b)
  BY Places
<1>2. /\ After(a, x) \in Place /\ Tail(inp) \in Seq(Packet) /\ x.n \in Nat
      /\ rows \in Seq(Row) /\ Len(rows) \in Nat
  BY <1>1, LeadsOn, PacketNumber DEF IInv, Typed
<1>3. PICK c \in Place : c = After(a, x)
  BY <1>2
<1>4. c = AtHead(x.n, 0)
  BY <1>1, <1>3 DEF Synced, After
<1>5. PICK r : r = [file |-> x.n, got |-> <<>>, state |-> "active"]
  OBVIOUS
<1>6. r \in Row /\ r.file = x.n /\ r.got = <<>> /\ r.state = "active"
  BY <1>2, <1>5 DEF Row
<1>7. /\ rows' \in Seq(Row) /\ Len(rows') = Len(rows) + 1 /\ cur' = Len(rows) + 1
      /\ rows'[cur'] = r /\ \A i \in 1..Len(rows) : rows'[i] = rows[i]
  <2>1. PICK q : q = Append(rows, r)
    OBVIOUS
  <2>2. /\ q \in Seq(Row) /\ Len(q) = Len(rows) + 1
        /\ q[Len(rows) + 1] = r /\ \A i \in 1..Len(rows) : q[i] = rows[i]
    BY <1>2, <1>6, <2>1
  <2>3. QED
    BY <1>5, <2>1, <2>2
<1>8. DoneIsWhole'
  <2>1. DOMAIN rows = 1..Len(rows) /\ DOMAIN rows' = 1..Len(rows) + 1
    BY <1>2, <1>7
  <2>2. ASSUME NEW i \in 1..Len(rows) + 1, rows'[i].state = "done"
        PROVE  rows'[i].got = Whole(rows'[i].file)
    <3>1. i \in 1..Len(rows) /\ rows'[i] = rows[i]
      BY <1>2, <1>6, <1>7, <2>2
    <3>2. QED
      BY <2>1, <2>2, <3>1 DEF IInv, Settled, DoneIsWhole
  <2>3. QED
    BY <2>1, <2>2 DEF DoneIsWhole, Whole
<1>9. Typed' /\ Settled'
  BY <1>2, <1>6, <1>7, <1>8 DEF IInv, Typed, Settled, Receiving
<1>10. Synced(c)'
  <2>1. c.at = "head" /\ c.f = x.n /\ c.k = 0
    BY <1>4 DEF AtHead
  <2>2. [i \in 1..c.k |-> i] = <<>>
    BY <2>1
  <2>3. Holds(c)'
    BY <1>6, <1>7, <2>1, <2>2 DEF Holds
  <2>4. QED
    BY <2>1, <2>3 DEF Synced
<1>11. QED
  BY <1>1, <1>3, <1>9, <1>10, ReaderMoves

(* A subpacket of the file: the next one, by what the sender may send.        *)
LEMMA DataRead ==
  ASSUME IInv, UNCHANGED <<sz, file, piece, cur>>, inp # <<>>, inp' = Tail(inp),
         pump = "data", garbled = FALSE, Head(inp).type = "sub", cur # 0,
         rows' = [rows EXCEPT ![cur].got = Append(@, Head(inp).n)],
         pump' = IF Head(inp).end \in {"G", "Q"} THEN "data" ELSE "header", garbled' = FALSE
  PROVE  IInv'
<1> DEFINE x == Head(inp)
<1>1. PICK a \in Place, b \in Place : Leads(a, inp, b) /\ Synced(a) /\ Sending(b)
  BY Places
<1>2. /\ After(a, x) \in Place /\ Fits(a, x) /\ Tail(inp) \in Seq(Packet) /\ x.n \in Nat
      /\ rows \in Seq(Row) /\ Len(rows) \in Nat /\ cur \in 1..Len(rows)
  BY <1>1, LeadsOn, PacketNumber DEF IInv, Typed
<1>3. PICK c \in Place : c = After(a, x)
  BY <1>2
<1>4. a.at = "data" /\ Holds(a) /\ a.k \in Nat /\ x.n = a.k + 1
  BY <1>1, <1>2 DEF Synced, Fits, Place
<1>5. rows[cur] \in Row /\ rows[cur].state = "active"
  BY <1>2 DEF IInv, Settled
<1>6. PICK g \in Seq(Nat) : g = Append(rows[cur].got, x.n)
  <2>1. rows[cur].got \in Seq(Nat)
    BY <1>5 DEF Row
  <2>2. Append(rows[cur].got, x.n) \in Seq(Nat)
    BY <1>2, <2>1
  <2>3. QED
    BY <2>2
<1>7. g = [i \in 1..a.k + 1 |-> i]
  BY <1>4, <1>6, CountsOn DEF Holds
<1>8. PICK r \in Row : r = [rows[cur] EXCEPT !.got = g]
  BY <1>5, <1>6 DEF Row
<1>9. r.file = rows[cur].file /\ r.got = g /\ r.state = "active"
  BY <1>5, <1>8 DEF Row
<1>10. /\ rows' \in Seq(Row) /\ Len(rows') = Len(rows)
       /\ rows'[cur] = r /\ \A i \in 1..Len(rows) : i # cur => rows'[i] = rows[i]
  <2>1. rows' = [rows EXCEPT ![cur] = r]
    BY <1>6, <1>8
  <2>2. PICK q : q = rows'
    OBVIOUS
  <2>3. /\ q \in Seq(Row) /\ Len(q) = Len(rows)
        /\ q[cur] = r /\ \A i \in 1..Len(rows) : i # cur => q[i] = rows[i]
    <3>1. rows \in Seq(Row) /\ cur \in 1..Len(rows) /\ q = [rows EXCEPT ![cur] = r]
      BY <1>2, <2>1, <2>2
    <3>2. QED
      BY <3>1, RowReplaced
  <2>4. QED
    BY <2>2, <2>3
<1>11. DoneIsWhole'
  BY <1>2, <1>9, <1>10 DEF IInv, Settled, DoneIsWhole, Whole
<1>12. Typed' /\ Settled'
  BY <1>2, <1>9, <1>10, <1>11 DEF IInv, Typed, Settled, Receiving
<1>13. Synced(c)'
  <2>1. /\ c.at = (IF x.end \in {"G", "Q"} THEN "data" ELSE "head")
        /\ c.f = a.f /\ c.k = a.k + 1
    BY <1>3, <1>4 DEF After, InData, AtHead
  <2>2. Holds(c)'
    BY <1>4, <1>7, <1>9, <1>10, <2>1 DEF Holds
  <2>3. QED
    BY <2>1, <2>2 DEF Synced
<1>14. QED
  BY <1>1, <1>3, <1>12, <1>13, ReaderMoves

LEMMA ReadSubpacketStep == IInv /\ ReadSubpacket => IInv'
<1> SUFFICES ASSUME IInv, ReadSubpacket PROVE IInv'
  OBVIOUS
<1> DEFINE x == Head(inp)
<1>1. /\ UNCHANGED <<sz, file, piece>> /\ inp # <<>> /\ UNCHANGED szVars
      /\ pump \in {"info", "data"}
  BY DEF ReadSubpacket, Arrived, szVars
<1>2. garbled \in BOOLEAN /\ (pump = "info" \/ pump = "data") /\ pump \notin {"header"}
  BY <1>1 DEF IInv, Typed
<1>3. CASE x.type # "sub"
  <2>1. UNCHANGED <<pump, cur, rows>> /\ garbled' = TRUE /\ inp' = Tail(inp)
    BY <1>3 DEF ReadSubpacket, TakesSubpacket, Next1, pumpVars
  <2>2. PICK a \in Place, b \in Place : Leads(a, inp, b) /\ Synced(a) /\ Sending(b)
    BY Places
  <2>3. After(a, x) \in Place /\ Tail(inp) \in Seq(Packet)
    BY <1>1, <2>2, LeadsOn DEF IInv, Typed
  <2>4. PICK c \in Place : c = After(a, x)
    BY <2>3
  <2>5. Typed' /\ Settled'
    BY <1>1, <2>1, <2>3 DEF IInv, Typed, Settled, DoneIsWhole, Whole
  <2>6. Synced(c)'
    BY <1>1, <1>2, <2>1 DEF Synced
  <2>7. QED
    BY <1>1, <2>1, <2>2, <2>4, <2>5, <2>6, ReaderMoves
<1>4. CASE x.type = "sub" /\ Fail
  BY <1>1, <1>4, FailStep
<1>5. CASE TakesSubpacket /\ pump = "info"
  <2>1. /\ rows' = Append(rows, [file |-> x.n, got |-> <<>>, state |-> "active"])
        /\ cur' = Len(rows') /\ pump' = "header" /\ garbled' = FALSE /\ inp' = Tail(inp)
        /\ x.type = "sub" /\ ~garbled
    BY <1>5 DEF TakesSubpacket, Next1, Spoilt
  <2>2. QED
    BY <1>1, <1>2, <1>5, <2>1, NameRead DEF TakesSubpacket
<1>6. CASE TakesSubpacket /\ pump = "data"
  <2>1. /\ rows' = (IF cur = 0 THEN rows ELSE [rows EXCEPT ![cur].got = Append(@, x.n)])
        /\ cur' = cur /\ garbled' = FALSE /\ inp' = Tail(inp)
        /\ pump' = IF x.end \in {"G", "Q"} THEN "data" ELSE "header"
        /\ x.type = "sub" /\ ~garbled
    BY <1>2, <1>6 DEF TakesSubpacket, Next1, Spoilt
  <2>2. CASE cur = 0
    BY <1>1, <2>1, <2>2, ReaderIdles
  <2>3. CASE cur # 0
    <3>1. rows' = [rows EXCEPT ![cur].got = Append(@, x.n)]
      BY <2>1, <2>3
    <3>2. QED
      BY <1>1, <1>2, <1>6, <2>1, <2>3, <3>1, DataRead
  <2>4. QED
    BY <2>2, <2>3
<1>7. QED
  BY <1>2, <1>3, <1>4, <1>5, <1>6 DEF ReadSubpacket, Next1
LEMMA FrameIsPacket ==
  ASSUME NEW t \in FrameTypes
  PROVE  \E x \in Packet : x = Frame(t) /\ x.type = t
<1>1. "" \in FrameEnds
  BY DEF FrameEnds
<1>2. Frame(t) \in Packet /\ Frame(t).type = t
  BY <1>1 DEF Frame, Packet
<1>3. QED
  BY <1>2

LEMMA TextIsPacket ==
  ASSUME NEW e \in FrameEnds
  PROVE  \E x \in Packet : x = Text(e) /\ x.type = "text"
<1>1. "text" \in FrameTypes
  BY DEF FrameTypes
<1>2. Text(e) \in Packet /\ Text(e).type = "text"
  BY <1>1 DEF Text, Packet
<1>3. QED
  BY <1>2

LEMMA SubIsPacket ==
  ASSUME NEW n \in Nat, NEW e \in FrameEnds
  PROVE  /\ Sub(n, e) \in Packet /\ Sub(n, e).type = "sub"
         /\ Sub(n, e).n = n /\ Sub(n, e).end = e
<1>1. "sub" \in FrameTypes
  BY DEF FrameTypes
<1>2. QED
  BY <1>1 DEF Sub, Packet

(* Frames that are neither data nor the end of it, from a sender that has     *)
(* none to send next.                                                         *)
LEMMA SenderIdles ==
  ASSUME IInv, UNCHANGED <<pump, cur, garbled, rows>>, file' \in Nat, piece' \in Nat,
         sz' \notin {"pos", "data", "ack"}, sz' = "init" => file' = 1,
         \/ inp' = inp
         \/ \E x \in Packet : inp' = inp \o <<x>> /\ x.type \notin {"ZEOF", "sub"}
         \/ \E x, y \in Packet :
              inp' = inp \o <<x, y>> /\ x.type \notin {"ZEOF", "sub"} /\ y.type \notin {"ZEOF", "sub"}
  PROVE  IInv'
<1>1. PICK a \in Place, b \in Place : Leads(a, inp, b) /\ Synced(a) /\ Sending(b)
  BY Places
<1>2. \A c \in Place : Sending(c)'
  BY DEF Sending
<1>3. CASE inp' = inp
  BY <1>1, <1>2, <1>3, SenderMoves
<1>4. ASSUME NEW x \in Packet, inp' = inp \o <<x>>, x.type \notin {"ZEOF", "sub"}
      PROVE  IInv'
  <2>1. After(b, x) \in Place /\ Fits(b, x)
    BY <1>4, AfterType DEF Fits
  <2>2. Sending(After(b, x))'
    BY <1>2, <2>1
  <2>3. QED
    BY <1>1, <1>4, <2>1, <2>2, SenderMoves
<1>5. ASSUME NEW x \in Packet, NEW y \in Packet, inp' = inp \o <<x, y>>,
             x.type \notin {"ZEOF", "sub"}, y.type \notin {"ZEOF", "sub"}
      PROVE  IInv'
  <2>1. After(b, x) \in Place /\ Fits(b, x)
    BY <1>5, AfterType DEF Fits
  <2>2. After(After(b, x), y) \in Place /\ Fits(After(b, x), y)
    BY <1>5, <2>1, AfterType DEF Fits
  <2>3. Sending(After(After(b, x), y))'
    BY <1>2, <2>2
  <2>4. QED
    BY <1>1, <1>5, <2>1, <2>2, <2>3, SenderMoves
<1>6. QED
  BY <1>3, <1>4, <1>5

LEMMA AppendIsConcat ==
  ASSUME NEW s \in Seq(Packet), NEW x \in Packet
  PROVE  Append(s, x) = s \o <<x>> /\ s \o <<>> = s
OBVIOUS

LEMMA RunsStep ==
  ASSUME IInv, SzRuns, UNCHANGED <<pump, cur, garbled, rows>>
  PROVE  IInv'
<1>1. sz' = "init" /\ file' = 1 /\ piece' = 0 /\ inp' = Append(inp, Frame("ZRQINIT"))
  BY DEF SzRuns
<1>2. PICK x \in Packet : x = Frame("ZRQINIT") /\ x.type = "ZRQINIT"
  BY FrameIsPacket DEF FrameTypes, Header
<1>3. inp' = inp \o <<x>>
  BY <1>1, <1>2, AppendIsConcat DEF IInv, Typed
<1>4. QED
  BY <1>1, <1>2, <1>3, SenderIdles

LEMMA CommandStep == IInv /\ Command => IInv'
<1> SUFFICES ASSUME IInv, Command PROVE IInv'
  OBVIOUS
<1>1. cur = 0 /\ garbled = FALSE /\ pump = "select" /\ UNCHANGED <<cur, garbled, rows>>
  BY DEF IInv, Typed, Settled, Command, rxVars
<1>2. CASE SzRuns /\ UNCHANGED pump
  BY <1>1, <1>2, RunsStep
<1>3. CASE pump' \in {"select", "ended"} /\ UNCHANGED <<sz, file, piece, inp>>
  BY <1>1, <1>3, ReaderIdles
<1>4. QED
  BY <1>1, <1>2, <1>3 DEF Command, szVars

LEMMA ScriptStep == IInv /\ SzScript => IInv'
BY RunsStep DEF SzScript, pumpVars, rxVars

(* The shell's prompt, and the end of the sender.                             *)
LEMMA PromptIsText ==
  ASSUME Prompt
  PROVE  \E x \in Packet : inp' = inp \o <<x>> /\ x.type = "text"
BY TextIsPacket DEF Prompt, Says, FrameEnds

LEMMA ResendStep == IInv /\ SzResend => IInv'
<1> SUFFICES ASSUME IInv, SzResend PROVE IInv'
  OBVIOUS
<1>1. UNCHANGED <<pump, cur, garbled, rows>> /\ sz = "init" /\ file = 1 /\ piece \in Nat
  <2>1. PICK b \in Place : Sending(b)
    BY Places
  <2>2. QED
    BY <2>1 DEF IInv, Typed, Sending, SzResend, pumpVars, rxVars
<1>2. CASE piece < MaxTries
  <2>1. /\ inp' = inp \o <<Frame("ZRQINIT")>> /\ piece' \in Nat /\ UNCHANGED <<sz, file>>
    BY <1>1, <1>2 DEF SzResend, Says
  <2>2. PICK x \in Packet : x = Frame("ZRQINIT") /\ x.type = "ZRQINIT"
    BY FrameIsPacket DEF FrameTypes, Header
  <2>3. QED
    BY <1>1, <2>1, <2>2, SenderIdles
<1>3. CASE ~(piece < MaxTries)
  <2>1. Prompt /\ sz' = "gone" /\ file' = 0 /\ piece' = 0
    BY <1>3 DEF SzResend, SzGone
  <2>2. PICK x \in Packet : inp' = inp \o <<x>> /\ x.type = "text"
    BY <2>1, PromptIsText
  <2>3. QED
    BY <1>1, <2>1, <2>2, SenderIdles
<1>4. QED
  BY <1>2, <1>3

LEMMA FinStep == IInv /\ SzFin => IInv'
<1> SUFFICES ASSUME IInv, SzFin PROVE IInv'
  OBVIOUS
<1>1. UNCHANGED <<pump, cur, garbled, rows>> /\ sz' = "gone" /\ file' = 0 /\ piece' = 0
  BY DEF SzFin, SzGone, pumpVars, rxVars
<1>2. PICK e \in {"hex", "plain"} : inp' = inp \o <<Frame("OO"), Text(e)>>
  BY DEF SzFin, Says
<1>3. PICK x \in Packet : x = Frame("OO") /\ x.type = "OO"
  BY FrameIsPacket DEF FrameTypes, Header
<1>4. PICK y \in Packet : y = Text(e) /\ y.type = "text"
  BY <1>2, TextIsPacket DEF FrameEnds
<1>5. QED
  BY <1>1, <1>2, <1>3, <1>4, SenderIdles

LEMMA AbortStep == IInv /\ SzAborts => IInv'
<1> SUFFICES ASSUME IInv, SzAborts PROVE IInv'
  OBVIOUS
<1>1. UNCHANGED <<pump, cur, garbled, rows>> /\ sz' = "gone" /\ file' = 0 /\ piece' = 0
  BY DEF SzAborts, SzGone, pumpVars, rxVars
<1>2. CASE Prompt
  <2>1. PICK x \in Packet : inp' = inp \o <<x>> /\ x.type = "text"
    BY <1>2, PromptIsText
  <2>2. QED
    BY <1>1, <2>1, SenderIdles
<1>3. CASE inp' = inp \o <<Frame("ZABORT"), Text("plain")>>
  <2>1. PICK x \in Packet : x = Frame("ZABORT") /\ x.type = "ZABORT"
    BY FrameIsPacket DEF FrameTypes, Header
  <2>2. PICK y \in Packet : y = Text("plain") /\ y.type = "text"
    BY TextIsPacket DEF FrameEnds
  <2>3. QED
    BY <1>1, <1>3, <2>1, <2>2, SenderIdles
<1>4. QED
  BY <1>2, <1>3 DEF SzAborts, Says

LEMMA CloseStep == IInv /\ ServerCloses => IInv'
<1> SUFFICES ASSUME IInv, ServerCloses PROVE IInv'
  OBVIOUS
<1>1. /\ UNCHANGED <<pump, cur, garbled, rows>> /\ sz' = "gone" /\ file' = 0 /\ piece' = 0
      /\ inp' = inp \o <<Frame("close")>>
  BY DEF ServerCloses, SzGone, Says, pumpVars, rxVars
<1>2. PICK x \in Packet : x = Frame("close") /\ x.type = "close"
  BY FrameIsPacket DEF FrameTypes, Header
<1>3. QED
  BY <1>1, <1>2, SenderIdles

LEMMA IgnoreStep == IInv /\ SzIgnores => IInv'
BY NothingRead DEF SzIgnores, pumpVars, rxVars, szVars
(* The next file is named: the sender then waits at its head.                 *)
LEMMA FileNamed ==
  ASSUME IInv, UNCHANGED <<pump, cur, garbled, rows>>, file' \in Nat, piece' \in Nat,
         sz' = "pos", NEW f \in Nat, file' = f, inp' = inp \o SzFile(f)
  PROVE  IInv'
<1>1. PICK a \in Place, b \in Place : Leads(a, inp, b) /\ Synced(a) /\ Sending(b)
  BY Places
<1>2. PICK x \in Packet : x = Frame("ZFILE") /\ x.type = "ZFILE"
  BY FrameIsPacket DEF FrameTypes, Header
<1>3. PICK y \in Packet : y = Sub(f, "W") /\ y.type = "sub" /\ y.n = f
  <2>1. "W" \in FrameEnds
    BY DEF FrameEnds
  <2>2. /\ Sub(f, "W") \in Packet /\ Sub(f, "W").type = "sub"
        /\ Sub(f, "W").n = f
    BY <2>1, SubIsPacket
  <2>3. QED
    BY <2>2
<1>4. inp' = inp \o <<x, y>>
  BY <1>2, <1>3 DEF SzFile
<1>5. Fits(b, x) /\ After(b, x) = Named
  BY <1>2 DEF Fits, After
<1>6. Fits(Named, y) /\ After(Named, y) = AtHead(f, 0)
  BY <1>3 DEF Fits, After, Named
<1>7. AtHead(f, 0) = AtHead(file', 0)
  OBVIOUS
<1>8. Sending(AtHead(f, 0))'
  BY <1>7 DEF Sending
<1>9. Fits(After(b, x), y) /\ Sending(After(After(b, x), y))'
  BY <1>5, <1>6, <1>8
<1>10. QED
  BY <1>1, <1>4, <1>5, <1>9, SenderMoves

LEMMA StartStep == IInv /\ SzStart => IInv'
<1> SUFFICES ASSUME IInv, SzStart PROVE IInv'
  OBVIOUS
<1>1. PICK b \in Place : Sending(b)
  BY Places
<1>2. /\ UNCHANGED <<pump, cur, garbled, rows, file, piece>> /\ sz' = "pos"
      /\ inp' = inp \o SzFile(1) /\ file = 1 /\ piece \in Nat
  BY <1>1 DEF IInv, Typed, Sending, SzStart, Says, pumpVars, rxVars
<1>3. QED
  BY <1>2, FileNamed

LEMMA NextFileStep == IInv /\ SzNext => IInv'
<1> SUFFICES ASSUME IInv, SzNext PROVE IInv'
  OBVIOUS
<1>1. UNCHANGED <<pump, cur, garbled, rows, piece>> /\ piece \in Nat /\ file \in Nat
  BY DEF IInv, Typed, SzNext, pumpVars, rxVars
<1>2. CASE file' = file + 1 /\ sz' = "pos" /\ inp' = inp \o SzFile(file')
  BY <1>1, <1>2, FileNamed
<1>3. CASE sz' = "fin" /\ file' = file /\ inp' = inp \o <<>>
  <2>1. inp' = inp
    BY <1>3, AppendIsConcat DEF IInv, Typed
  <2>2. QED
    BY <1>1, <1>3, <2>1, SenderIdles
<1>4. CASE sz' = "fin" /\ file' = file /\ inp' = inp \o <<Frame("ZFIN")>>
  <2>1. PICK x \in Packet : x = Frame("ZFIN") /\ x.type = "ZFIN"
    BY FrameIsPacket DEF FrameTypes, Header
  <2>2. QED
    BY <1>1, <1>4, <2>1, SenderIdles
<1>5. QED
  BY <1>2, <1>3, <1>4 DEF SzNext, Says

LEMMA PosStep == IInv /\ SzPos => IInv'
<1> SUFFICES ASSUME IInv, SzPos PROVE IInv'
  OBVIOUS
<1>1. PICK a \in Place, b \in Place : Leads(a, inp, b) /\ Synced(a) /\ Sending(b)
  BY Places
<1>2. /\ UNCHANGED <<pump, cur, garbled, rows, file>> /\ sz = "pos" /\ sz' = "data" /\ piece' = 0
      /\ inp' = inp \o <<Frame("ZDATA")>> /\ file \in Nat
  BY DEF IInv, Typed, SzPos, Says, pumpVars, rxVars
<1>3. PICK x \in Packet : x = Frame("ZDATA") /\ x.type = "ZDATA"
  BY FrameIsPacket DEF FrameTypes, Header
<1>4. b = AtHead(file, 0)
  BY <1>1, <1>2 DEF Sending
<1>5. Fits(b, x) /\ After(b, x) = InData(file, 0)
  BY <1>3, <1>4 DEF Fits, After, AtHead
<1>6. PICK c \in Place : c = After(b, x)
  BY <1>3, AfterType
<1>7. Sending(c)'
  BY <1>2, <1>5, <1>6 DEF Sending
<1>8. QED
  BY <1>1, <1>2, <1>3, <1>5, <1>6, <1>7, SenderMoves

LEMMA SendDataStep == IInv /\ SzData => IInv'
<1> SUFFICES ASSUME IInv, SzData PROVE IInv'
  OBVIOUS
<1>1. PICK a \in Place, b \in Place : Leads(a, inp, b) /\ Synced(a) /\ Sending(b)
  BY Places
<1>2. PICK e \in IF piece + 1 = Size[file] THEN {"E", "W"} ELSE {"G", "Q", "W"} :
        inp' = inp \o <<Sub(piece + 1, e)>> /\ sz' = IF e = "W" THEN "ack" ELSE "data"
  BY DEF SzData, Says
<1>3. /\ UNCHANGED <<pump, cur, garbled, rows, file>> /\ sz = "data" /\ piece < Size[file]
      /\ piece' = piece + 1 /\ file \in Nat /\ piece \in Nat
  BY DEF IInv, Typed, SzData, pumpVars, rxVars
<1>4. PICK x \in Packet :
        x = Sub(piece + 1, e) /\ x.type = "sub" /\ x.n = piece + 1 /\ x.end = e
  <2>1. e \in {"E", "G", "Q", "W"}
    BY <1>2
  <2>2. e \in FrameEnds
    BY <2>1 DEF FrameEnds
  <2>3. piece + 1 \in Nat
    BY <1>3
  <2>4. /\ Sub(piece + 1, e) \in Packet /\ Sub(piece + 1, e).type = "sub"
        /\ Sub(piece + 1, e).n = piece + 1 /\ Sub(piece + 1, e).end = e
    BY <2>2, <2>3, SubIsPacket
  <2>5. QED
    BY <2>4
<1>5. b = Quiet \/ b = InData(file, piece)
  BY <1>1, <1>3 DEF Sending
<1>6. Fits(b, x)
  BY <1>4, <1>5 DEF Fits, Quiet, InData
<1>7. PICK c \in Place : c = After(b, x)
  BY <1>4, AfterType
<1>8. b = Quiet => c = Quiet
  BY <1>4, <1>7 DEF After, Quiet
<1>9. b = InData(file, piece) =>
        c = IF e \in {"G", "Q"} THEN InData(file, piece + 1) ELSE AtHead(file, piece + 1)
  BY <1>4, <1>7 DEF After, InData
<1>10. Sending(c)'
  <2>1. CASE e = "W"
    BY <1>2, <1>3, <1>5, <1>8, <1>9, <2>1 DEF Sending
  <2>2. CASE e \in {"G", "Q"}
    BY <1>2, <1>3, <1>5, <1>8, <1>9, <2>2 DEF Sending
  <2>3. CASE e = "E"
    <3>1. ~(piece + 1 < Size[file])
      BY <1>2, <1>3, <2>3
    <3>2. c = Quiet \/ c = AtHead(file, piece + 1)
      BY <1>5, <1>8, <1>9, <2>3
    <3>3. QED
      BY <1>2, <1>3, <2>3, <3>1, <3>2 DEF Sending
  <2>4. QED
    BY <1>2, <2>1, <2>2, <2>3
<1>11. QED
  BY <1>1, <1>2, <1>3, <1>4, <1>6, <1>7, <1>10, SenderMoves

LEMMA AckStep == IInv /\ SzAck => IInv'
<1> SUFFICES ASSUME IInv, SzAck PROVE IInv'
  OBVIOUS
<1>1. PICK a \in Place, b \in Place : Leads(a, inp, b) /\ Synced(a) /\ Sending(b)
  BY Places
<1>2. /\ UNCHANGED <<pump, cur, garbled, rows, file, piece>> /\ sz = "ack" /\ sz' = "data"
      /\ inp' = inp \o (IF piece < Size[file] THEN <<Frame("ZDATA")>> ELSE <<>>)
      /\ file \in Nat /\ piece \in Nat /\ inp \in Seq(Packet)
  BY DEF IInv, Typed, SzAck, Says, pumpVars, rxVars
<1>3. b = Quiet \/ b = AtHead(file, piece)
  BY <1>1, <1>2 DEF Sending
<1>4. CASE piece < Size[file]
  <2>1. PICK x \in Packet : x = Frame("ZDATA") /\ x.type = "ZDATA"
    BY FrameIsPacket DEF FrameTypes, Header
  <2>2. PICK c \in Place : c = After(b, x)
    BY <2>1, AfterType
  <2>3. Fits(b, x) /\ (c = Quiet \/ c = InData(file, piece))
    BY <1>3, <2>1, <2>2 DEF Fits, After, AtHead, Quiet
  <2>4. Sending(c)'
    BY <1>2, <2>3 DEF Sending
  <2>5. QED
    BY <1>1, <1>2, <1>4, <2>1, <2>2, <2>3, <2>4, SenderMoves
<1>5. CASE ~(piece < Size[file])
  <2>1. inp' = inp
    BY <1>2, <1>5, AppendIsConcat
  <2>2. Sending(b)'
    BY <1>2, <1>3, <1>5 DEF Sending
  <2>3. QED
    BY <1>1, <1>2, <2>1, <2>2, SenderMoves
<1>6. QED
  BY <1>4, <1>5

LEMMA EofStep == IInv /\ SzEof => IInv'
<1> SUFFICES ASSUME IInv, SzEof PROVE IInv'
  OBVIOUS
<1>1. PICK a \in Place, b \in Place : Leads(a, inp, b) /\ Synced(a) /\ Sending(b)
  BY Places
<1>2. /\ UNCHANGED <<pump, cur, garbled, rows, file, piece>> /\ sz = "data" /\ sz' = "next"
      /\ piece = Size[file] /\ inp' = inp \o <<Frame("ZEOF")>>
      /\ file \in Nat /\ piece \in Nat
  BY DEF IInv, Typed, SzEof, Says, pumpVars, rxVars
<1>3. PICK x \in Packet : x = Frame("ZEOF") /\ x.type = "ZEOF"
  BY FrameIsPacket DEF FrameTypes, Header
<1>4. b = Quiet \/ b = InData(file, piece) \/ b = AtHead(file, piece)
  BY <1>1, <1>2 DEF Sending
<1>5. Fits(b, x)
  BY <1>2, <1>3, <1>4 DEF Fits, Quiet, InData, AtHead
<1>6. PICK c \in Place : c = After(b, x)
  BY <1>3, AfterType
<1>7. Sending(c)'
  BY <1>2 DEF Sending
<1>8. QED
  BY <1>1, <1>2, <1>3, <1>5, <1>6, <1>7, SenderMoves

(* Output of another program spoils only the data that is under way.          *)
LEMMA NoiseStep == IInv /\ Noise => IInv'
<1> SUFFICES ASSUME IInv, Noise PROVE IInv'
  OBVIOUS
<1>1. PICK a \in Place, b \in Place : Leads(a, inp, b) /\ Synced(a) /\ Sending(b)
  BY Places
<1>2. /\ UNCHANGED <<pump, cur, garbled, rows, file, piece, sz>> /\ inp' = inp \o <<Text("plain")>>
      /\ file \in Nat /\ piece \in Nat
  BY DEF IInv, Typed, Noise, Says, pumpVars, rxVars, szVars
<1>3. PICK x \in Packet : x = Text("plain") /\ x.type = "text"
  BY TextIsPacket DEF FrameEnds
<1>4. PICK c \in Place : c = After(b, x)
  BY <1>3, AfterType
<1>5. Fits(b, x)
  BY <1>3 DEF Fits
<1>6. \A k \in {0, piece} : b = AtHead(file, k) => c = b
  BY <1>3, <1>4 DEF After, AtHead
<1>7. b = Quiet \/ b = InData(file, piece) => c = Quiet
  BY <1>3, <1>4 DEF After, Quiet, InData
<1>8. Sending(c)'
  BY <1>1, <1>2, <1>6, <1>7 DEF Sending
<1>9. QED
  BY <1>1, <1>2, <1>3, <1>4, <1>5, <1>8, SenderMoves

LEMMA StepHolds == IInv /\ [Next]_(vars) => IInv'
<1> SUFFICES ASSUME IInv, [Next]_(vars) PROVE IInv'
  OBVIOUS
<1>1. CASE UNCHANGED vars
  BY <1>1, NothingRead DEF vars, pumpVars, rxVars, szVars
<1>2. CASE Receive
  BY <1>2, ReadHeaderStep, ReadSubpacketStep, PeekStep, PeekEndsStep, DrainStep, ReadFailsStep
     DEF Receive
<1>3. CASE Sender
  BY <1>3, StartStep, PosStep, SendDataStep, AckStep, EofStep, NextFileStep, FinStep, IgnoreStep
     DEF Sender
<1>4. CASE \E c \in {"sz", "close"} : Send(c)
  BY <1>4, SendStep
<1>5. CASE Command \/ Data \/ CooldownOver
  BY <1>5, CommandStep, DataStep, CooldownStep
<1>6. CASE SzScript \/ SzResend \/ SzAborts \/ Noise \/ ServerCloses
  BY <1>6, ScriptStep, ResendStep, AbortStep, NoiseStep, CloseStep
<1>7. QED
  BY <1>1, <1>2, <1>3, <1>4, <1>5, <1>6 DEF Next

(* In every behaviour a file that is reported done was written whole: for any *)
(* files, any number of runs of sz, and however often other programs write.   *)
THEOREM FilesAreReceivedWhole == Spec => []FilesAreWhole
<1>1. IInv => FilesAreWhole
  <2> SUFFICES ASSUME IInv PROVE FilesAreWhole
    OBVIOUS
  <2>1. \A i \in DOMAIN rows : rows[i].state \in {"active", "done"}
    <3>1. \A i \in DOMAIN rows : rows[i] \in Row
      BY DEF IInv, Typed
    <3>2. QED
      BY <3>1 DEF Row
  <2>2. TypeOK
    BY <2>1 DEF IInv, Typed, Settled, TypeOK
  <2>3. QED
    BY <2>2 DEF IInv, Settled, FilesAreWhole
<1>2. QED
  BY <1>1, InitHolds, StepHolds, PTL DEF Spec
=============================================================================
