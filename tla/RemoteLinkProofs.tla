-------------------------- MODULE RemoteLinkProofs --------------------------
(***************************************************************************)
(* Proofs about RemoteLink for every set of commands, bound and kind of    *)
(* line: what the variables hold; and, for as long as the line has lost    *)
(* nothing, that answers and commands match.                               *)
(***************************************************************************)
EXTENDS RemoteLink, SequenceLemmas

-----------------------------------------------------------------------------
(* The invariant of a line that has lost nothing.                          *)

Message == [t : {"+", "-", "^C", "?"}] \cup [t : {"$"}, cmd : Command]

\* What is on its way to the stub: getpkt reads the buffer first.
Incoming == rbuf \o c2s
GoodEnd  == [t |-> "#", sum |-> "good"]

Pending  == own_buf # command
Underway == partial # <<>> \/ \E i \in DOMAIN Incoming : Incoming[i].t = "$"
Acked    == \E i \in DOMAIN s2c : s2c[i].t = "+"
Answers(i) == s2c[i].t = "reply" /\ s2c[i].re = command.id

\* At most one packet is on its way to the stub, in one piece, and it holds
\* the debugger's command.
OnePacket ==
  /\ \A i \in DOMAIN Incoming : Incoming[i].t \in {"+", "-", "^C", "$", "#"}
  /\ \A i, j \in DOMAIN Incoming : Incoming[i].t = "$" /\ Incoming[j].t = "$" => i = j
  /\ \A i \in DOMAIN Incoming : Incoming[i].t = "$" =>
       /\ partial = <<>> /\ Incoming[i].cmd = command
       /\ i + 1 \in DOMAIN Incoming /\ Incoming[i + 1] = GoodEnd
  /\ \A i \in DOMAIN Incoming : Incoming[i].t = "#" =>
       \/ i = 1 /\ partial # <<>>
       \/ i - 1 \in DOMAIN Incoming /\ Incoming[i - 1].t = "$"
  /\ partial # <<>> =>
       /\ server = "getpkt" /\ partial = <<[cmd |-> command, intact |-> TRUE]>>
       /\ 1 \in DOMAIN Incoming /\ Incoming[1] = GoodEnd

\* The stub's last command is the debugger's, or older and that is on its way.
InTurn == IF Underway THEN own_buf.id < command.id ELSE own_buf = command

\* putpkt finds its ack before it finds the next command.
AckFirst ==
  server = "putpkt" =>
    /\ \A i \in DOMAIN Incoming : Incoming[i].t = "$" =>
         \E j \in Len(rbuf) + 1 .. i - 1 : Incoming[j].t = "+"
    /\ client = "idle" => \E j \in DOMAIN Incoming : j > Len(rbuf) /\ Incoming[j].t = "+"

\* A command is handled while the debugger waits for it.
InStep ==
  /\ server \in {"handle", "mywait", "answer"} => own_buf = command /\ client # "idle"
  /\ client = "idle" => own_buf = command
  /\ client = "reply" /\ Pending => own_buf.id = 0 \/ client_no_ack
  /\ own_buf.id = 0 => server \in {"getpkt", "exited"}
  /\ own_buf.kind = "kill" => server \in {"handle", "exited"}
  /\ own_buf.kind = "empty" => server = "exited"
  /\ client # "closed" => ~ hung_up
  /\ client \in {"ack", "reply"} => command.kind # "none"

\* What is on its way to the debugger.
Outgoing ==
  /\ \A i \in DOMAIN s2c : \/ s2c[i].t = "+"
                           \/ s2c[i].t = "reply" /\ s2c[i].ok /\ s2c[i].re \in 1 .. own_buf.id
  /\ \A i, j \in DOMAIN s2c : Answers(i) /\ s2c[j].t = "+" => j < i
  /\ \A i \in DOMAIN s2c : Answers(i) => own_buf = command /\ server \notin {"handle", "mywait", "answer"}
  /\ (Pending \/ client = "idle") /\ Acked => own_buf.id = 0
  /\ client \in {"reply", "idle"} => \A i \in DOMAIN s2c : s2c[i].t = "reply" => Answers(i)
  /\ client = "ack" => \A i, j \in DOMAIN s2c : s2c[i].t = "+" /\ i < j /\ s2c[j].t = "reply" => Answers(j)

\* What the debugger waits for is on its way once the stub has sent it.
Owed ==
  /\ client = "ack" /\ own_buf = command => Acked
  /\ /\ client \in {"ack", "reply"} /\ own_buf = command
     /\ server \in {"getpkt", "putpkt", "exited"} /\ command.kind \notin {"failing", "kill", "empty"}
     => \E i \in DOMAIN s2c : Answers(i)

\* Both sides agree on no-ack mode, but for the time its OK takes.
NoAckMode ==
  /\ no_ack_mode =>
       /\ server # "putpkt"
       /\ \A i, j \in DOMAIN s2c : Answers(i) /\ Answers(j) => i = j
       /\ \/ client_no_ack \/ client = "closed"
          \/ own_buf = command /\ command.kind = "noack" /\ client # "idle"
  /\ client_no_ack => no_ack_mode /\ client # "ack"
  /\ client_no_ack /\ client = "idle" => \A i \in DOMAIN s2c : s2c[i].t # "reply"
  /\ own_buf.kind = "noack" /\ server # "handle" => no_ack_mode

LinkInv == OnePacket /\ InTurn /\ AckFirst /\ InStep /\ Outgoing /\ Owed /\ NoAckMode
Inv     == TypeOK /\ (noise = 0 => LinkInv)

-----------------------------------------------------------------------------
(* Tokens and queues.                                                      *)

\* The fields of a token, by its type.
LEMMA TokenTypes ==
  ASSUME NEW tok \in Token
  PROVE  /\ tok.t \in {"+", "-", "^C", "?", "$", "#", "reply"}
         /\ tok.t = "$" => tok.cmd \in Command
         /\ tok.t = "#" => tok \in [t : {"#"}, sum : {"good", "bad", "nohex"}]
         /\ tok.t = "reply" => tok \in [t : {"reply"}, re : 0 .. MaxCommands, ok : BOOLEAN]
BY DEF Token

\* What is written is typed: characters, a packet, a reply.
LEMMA Written ==
  /\ \A c \in {"+", "-", "^C", "?"} : Char(c) \in Token /\ Char(c).t = c
  /\ \A cmd \in Command : Packet(cmd) \in Seq(Token)
  /\ own_buf \in Command => \A ok \in BOOLEAN : Reply(ok) \in Token
<1>1. \A c \in {"+", "-", "^C", "?"} : Char(c) \in Token /\ Char(c).t = c
  BY DEF Char, Token
<1>2. ASSUME NEW cmd \in Command
      PROVE  Packet(cmd) \in Seq(Token)
  <2>1. [t |-> "$", cmd |-> cmd] \in Token /\ [t |-> "#", sum |-> "good"] \in Token
    BY DEF Token
  <2> QED BY <2>1 DEF Packet
<1>3. own_buf \in Command => \A ok \in BOOLEAN : Reply(ok) \in Token
  BY DEF Reply, Token, Command
<1> QED BY <1>1, <1>2, <1>3

\* One token as a sequence.
LEMMA OneToken == ASSUME NEW S, NEW x \in S PROVE <<x>> \in Seq(S)
OBVIOUS

\* What noise leaves is a queue of tokens.
LEMMA DisturbedType ==
  ASSUME NEW q \in Seq(Token), NEW r \in Disturbed(q)
  PROVE  r \in Seq(Token)
<1>1. CASE \E i \in DOMAIN q : r = RemoveAt(q, i)
  BY <1>1, RemoveAtShifts, LenProperties
<1>2. CASE \E i \in DOMAIN q : \E tok \in Garbled(q[i]) : r = ReplaceAt(q, i, tok)
  <2>1. PICK i \in DOMAIN q : \E tok \in Garbled(q[i]) : r = ReplaceAt(q, i, tok)
    BY <1>2
  <2>2. PICK tok \in Garbled(q[i]) : r = ReplaceAt(q, i, tok)
    BY <2>1
  <2>3. i \in 1 .. Len(q) /\ q[i] \in Token
    BY LenProperties, ElementOfSeq
  <2>4. tok \in Token
    <3>1. CASE q[i].t = "#"
      <4>1. q[i] \in [t : {"#"}, sum : {"good", "bad", "nohex"}]
        BY <2>3, <3>1, TokenTypes
      <4>2. PICK s \in {"bad", "nohex"} : tok = [q[i] EXCEPT !.sum = s]
        BY <2>2, <3>1 DEF Garbled
      <4> QED BY <4>1, <4>2 DEF Token
    <3>2. CASE q[i].t = "reply"
      <4>1. q[i] \in [t : {"reply"}, re : 0 .. MaxCommands, ok : BOOLEAN]
        BY <2>3, <3>2, TokenTypes
      <4>2. tok = [q[i] EXCEPT !.ok = FALSE]
        BY <2>2, <3>2 DEF Garbled
      <4> QED BY <4>1, <4>2 DEF Token
    <3>3. CASE q[i].t \notin {"#", "reply"}
      BY <2>2, <3>3, Written DEF Garbled
    <3> QED BY <3>1, <3>2, <3>3
  <2> QED BY <2>2, <2>3, <2>4, ExceptSeq DEF ReplaceAt
<1> QED BY <1>1, <1>2 DEF Disturbed

-----------------------------------------------------------------------------
(* Types.                                                                  *)

\* Writing to a queue keeps it one of tokens.
LEMMA ToStubType ==
  ASSUME TypeOK, NEW ts \in Seq(Token), ToStub(ts)
  PROVE  c2s' \in Seq(Token)
<1>1. c2s \in Seq(Token)
  BY DEF TypeOK
<1> QED BY <1>1, ConcatProperties, Zenon DEF ToStub

LEMMA ToClientType ==
  ASSUME TypeOK, NEW ts \in Seq(Token), ToClient(ts)
  PROVE  s2c' \in Seq(Token)
<1>1. s2c \in Seq(Token)
  BY DEF TypeOK
<1>2. CASE hung_up
  BY <1>1, <1>2 DEF ToClient
<1>3. CASE ~ hung_up
  <2>1. s2c' = s2c \o ts
    BY <1>3 DEF ToClient
  <2> QED BY <1>1, <2>1, ConcatProperties, Zenon
<1> QED BY <1>2, <1>3

LEMMA Empty == <<>> \in Seq(Token)
BY EmptySeq

\* readchar's buffer and getpkt.
LEMMA GetpktTypes ==
  ASSUME TypeOK, ReadcharRefills \/ GetpktEOF \/ GetpktScans \/ GetpktBody \/ GetpktEnds
  PROVE  TypeOK'
<1> USE DEF line, stub, debugger
<1>1. CASE ReadcharRefills
  <2>1. PICK n \in 1 .. Len(c2s) : /\ rbuf' = SubSeq(c2s, 1, n)
                                   /\ c2s' = SubSeq(c2s, n + 1, Len(c2s))
    BY <1>1 DEF ReadcharRefills
  <2>2. c2s \in Seq(Token) /\ Len(c2s) \in Nat /\ \A i \in 1 .. Len(c2s) : c2s[i] \in Token
    BY LenProperties, ElementOfSeq DEF TypeOK
  <2>3. rbuf' \in Seq(Token) /\ c2s' \in Seq(Token)
    BY <2>1, <2>2, SubSeqProperties
  <2> QED BY <1>1, <2>3 DEF ReadcharRefills, TypeOK
<1>2. CASE GetpktEOF
  BY <1>2 DEF GetpktEOF, TypeOK
<1>3. ASSUME GetpktReads
      PROVE  rbuf' \in Seq(Token) /\ Head(rbuf) \in Token
  BY <1>3, TailShifts DEF GetpktReads, TypeOK
<1>4. CASE GetpktScans
  <2>1. partial' \in {<<>>} \cup {<<p>> : p \in [cmd : Command, intact : BOOLEAN]}
    BY <1>3, <1>4, TokenTypes DEF GetpktScans
  <2> QED BY <1>3, <1>4, <2>1 DEF GetpktScans, TypeOK
<1>5. CASE GetpktBody
  <2>1. PICK p \in [cmd : Command, intact : BOOLEAN] : partial = <<p>>
    BY <1>5 DEF GetpktBody, TypeOK
  <2>2. partial' = <<[p EXCEPT !.intact = FALSE]>>
    BY <1>5, <2>1 DEF GetpktBody
  <2>3. [p EXCEPT !.intact = FALSE] \in [cmd : Command, intact : BOOLEAN]
    OBVIOUS
  <2> QED BY <1>3, <1>5, <2>2, <2>3 DEF GetpktBody, TypeOK
<1>6. CASE GetpktEnds
  <2>1. PICK p \in [cmd : Command, intact : BOOLEAN] : partial = <<p>>
    BY <1>6 DEF GetpktEnds, TypeOK
  <2>2. PICK ts \in {<<>>, <<Char("+")>>, <<Char("-")>>} : ToClient(ts)
    BY <1>6 DEF GetpktEnds
  <2>3. ts \in Seq(Token)
    BY <2>2, Empty, Written, OneToken
  <2>4. s2c' \in Seq(Token)
    BY <2>2, <2>3, ToClientType
  <2>5. own_buf' \in Command /\ server' \in {server, "handle", "exited"}
    BY <1>6, <2>1 DEF GetpktEnds, TypeOK
  <2> QED BY <1>3, <1>6, <2>4, <2>5 DEF GetpktEnds, TypeOK
<1> QED BY <1>1, <1>2, <1>4, <1>5, <1>6

\* The handlers and putpkt.
LEMMA PutpktTypes ==
  ASSUME TypeOK, HandlePacket \/ InferiorStops \/ PutpktWrites \/ PutpktReads \/ PutpktEOF
  PROVE  TypeOK'
<1> USE DEF line, stub, debugger
<1>1. CASE HandlePacket
  BY <1>1 DEF HandlePacket, TypeOK
<1>2. CASE InferiorStops
  BY <1>2 DEF InferiorStops, TypeOK
<1>3. <<Reply(TRUE)>> \in Seq(Token)
  BY Written, OneToken DEF TypeOK
<1>4. CASE PutpktWrites
  <2>1. s2c' \in Seq(Token)
    BY <1>3, <1>4, ToClientType DEF PutpktWrites
  <2>2. server' \in {"putpkt", "getpkt", "exited"}
    BY <1>4 DEF PutpktWrites, AfterReply
  <2> QED BY <1>4, <2>1, <2>2 DEF PutpktWrites, TypeOK
<1>5. CASE PutpktReads
  <2>1. PICK ts \in {<<Reply(TRUE)>>, <<>>} : ToClient(ts)
    BY <1>5 DEF PutpktReads
  <2>2. s2c' \in Seq(Token)
    BY <1>3, <2>1, Empty, ToClientType
  <2>3. c2s' \in Seq(Token)
    BY <1>5, TailShifts DEF PutpktReads, TypeOK
  <2>4. server' \in {"putpkt", "getpkt", "exited"} /\ sigint' \in BOOLEAN
    BY <1>5 DEF PutpktReads, AfterReply
  <2> QED BY <1>5, <2>2, <2>3, <2>4 DEF PutpktReads, TypeOK
<1>6. CASE PutpktEOF
  BY <1>6 DEF PutpktEOF, AfterReply, TypeOK
<1> QED BY <1>1, <1>2, <1>4, <1>5, <1>6

\* The debugger and the line.
LEMMA ClientTypes ==
  ASSUME TypeOK, ClientNext
  PROVE  TypeOK'
<1> USE DEF line, stub, debugger
<1>1. command \in Command /\ MaxCommands \in Nat /\ MaxInterrupts \in Nat
  BY LinkAssumption DEF TypeOK
<1>2. ASSUME NEW kind \in Kinds, ClientSends(kind)
      PROVE  TypeOK'
  <2>1. command' \in Command
    BY <1>1, <1>2 DEF ClientSends, Command
  <2>2. c2s' \in Seq(Token)
    BY <1>2, <2>1, Written, ToStubType DEF ClientSends
  <2> QED BY <1>2, <2>1, <2>2 DEF ClientSends, TypeOK
<1>3. CASE ClientReadsAck
  <2>1. s2c' \in Seq(Token)
    BY <1>3, TailShifts DEF ClientReadsAck, TypeOK
  <2>2. \/ UNCHANGED c2s
        \/ ToStub(Packet(command))
        \/ ToStub(<<Char("+")>>) \/ ToStub(<<Char("-")>>)
    BY <1>3 DEF ClientReadsAck
  <2>3. c2s' \in Seq(Token)
    BY <1>1, <2>2, Written, OneToken, ToStubType DEF TypeOK
  <2>4. client' \in {"idle", "ack", "reply"}
    BY <1>3 DEF ClientReadsAck
  <2> QED BY <1>3, <2>1, <2>3, <2>4 DEF ClientReadsAck, TypeOK
<1>4. CASE ClientReadsReply
  <2>1. s2c' \in Seq(Token)
    BY <1>4, TailShifts DEF ClientReadsReply, TypeOK
  <2>2. \/ UNCHANGED c2s
        \/ \E ts \in {<<>>, <<Char("+")>>, <<Char("-")>>} : ToStub(ts)
    BY <1>4 DEF ClientReadsReply
  <2>3. c2s' \in Seq(Token)
    BY <2>2, Empty, Written, OneToken, ToStubType DEF TypeOK
  <2>4. client' \in {"idle", "reply"} /\ client_no_ack' \in BOOLEAN
    BY <1>4, TailShifts, TokenTypes DEF ClientReadsReply, TypeOK
  <2> QED BY <1>4, <2>1, <2>3, <2>4 DEF ClientReadsReply, TypeOK
<1>5. CASE ClientTimesOut
  <2>1. UNCHANGED c2s \/ ToStub(Packet(command)) \/ ToStub(<<Char("-")>>)
    BY <1>5 DEF ClientTimesOut
  <2>2. c2s' \in Seq(Token)
    BY <1>1, <2>1, Written, OneToken, ToStubType DEF TypeOK
  <2>3. client' \in {client, "idle"}
    BY <1>5 DEF ClientTimesOut
  <2> QED BY <1>5, <2>2, <2>3 DEF ClientTimesOut, TypeOK
<1>6. CASE ClientInterrupts
  <2>1. c2s' \in Seq(Token)
    BY <1>6, Written, OneToken, ToStubType DEF ClientInterrupts
  <2> QED BY <1>1, <1>6, <2>1 DEF ClientInterrupts, TypeOK
<1>7. CASE ClientHangsUp \/ ClientSeesEOF
  BY <1>7 DEF ClientHangsUp, ClientSeesEOF, TypeOK
<1> QED BY <1>2, <1>3, <1>4, <1>5, <1>6, <1>7 DEF ClientNext

LEMMA NoiseTypes ==
  ASSUME TypeOK, LineNoise
  PROVE  TypeOK'
<1> USE DEF stub, debugger
<1>1. c2s' \in Seq(Token) /\ s2c' \in Seq(Token)
  BY DisturbedType DEF LineNoise, TypeOK
<1>2. noise' \in 0 .. MaxNoise
  BY LinkAssumption DEF LineNoise, TypeOK
<1> QED BY <1>1, <1>2 DEF LineNoise, TypeOK

-----------------------------------------------------------------------------
(* What is on its way to the stub, under each thing that happens to it.    *)

\* Positions in the buffer and on the line.
LEMMA IncomingIs ==
  ASSUME TypeOK
  PROVE  /\ Len(rbuf) \in Nat /\ Len(c2s) \in Nat
         /\ DOMAIN Incoming = 1 .. Len(rbuf) + Len(c2s)
         /\ \A i \in 1 .. Len(rbuf) : Incoming[i] = rbuf[i]
         /\ \A i \in 1 .. Len(c2s) : Incoming[Len(rbuf) + i] = c2s[i]
<1>1. rbuf \in Seq(Token) /\ c2s \in Seq(Token)
  BY DEF TypeOK
<1> QED BY <1>1, ConcatGrows DEF Incoming

\* The same of the next state.
LEMMA IncomingWillBe ==
  ASSUME TypeOK'
  PROVE  /\ Len(rbuf') \in Nat /\ Len(c2s') \in Nat
         /\ DOMAIN Incoming' = 1 .. Len(rbuf') + Len(c2s')
         /\ \A i \in 1 .. Len(rbuf') : Incoming'[i] = rbuf'[i]
         /\ \A i \in 1 .. Len(c2s') : Incoming'[Len(rbuf') + i] = c2s'[i]
<1>1. rbuf' \in Seq(Token) /\ c2s' \in Seq(Token)
  BY DEF TypeOK
<1> QED BY <1>1, ConcatGrows DEF Incoming

\* readchar moves characters from the line to its buffer: what comes is the same.
LEMMA IncomingRefilled ==
  ASSUME TypeOK, ReadcharRefills
  PROVE  Incoming' = Incoming
<1>1. PICK n \in 1 .. Len(c2s) : /\ rbuf' = SubSeq(c2s, 1, n)
                                 /\ c2s' = SubSeq(c2s, n + 1, Len(c2s))
  BY DEF ReadcharRefills
<1>2. c2s \in Seq(Token) /\ rbuf = <<>>
  BY DEF TypeOK, ReadcharRefills
<1>3. SubSeq(c2s, 1, n) \o SubSeq(c2s, n + 1, Len(c2s)) = c2s
  BY <1>2
<1>4. rbuf \o c2s = c2s
  BY <1>2
<1> QED BY <1>1, <1>3, <1>4 DEF Incoming

\* getpkt takes the first character.
LEMMA IncomingRead ==
  ASSUME TypeOK, TypeOK', GetpktReads, c2s' = c2s
  PROVE  /\ 1 \in DOMAIN Incoming /\ Head(rbuf) = Incoming[1]
         /\ \A i \in Int : i \in DOMAIN Incoming' <=> i > 0 /\ i + 1 \in DOMAIN Incoming
         /\ \A i \in DOMAIN Incoming' : i \in Nat \ {0} /\ Incoming'[i] = Incoming[i + 1]
<1>1. /\ rbuf \in Seq(Token) /\ rbuf' \in Seq(Token) /\ rbuf # <<>> /\ rbuf' = Tail(rbuf)
  BY DEF TypeOK, GetpktReads
<1>2. /\ Head(rbuf) = rbuf[1] /\ 1 \in DOMAIN rbuf
      /\ DOMAIN Tail(rbuf) = 1 .. Len(rbuf) - 1
      /\ \A i \in DOMAIN Tail(rbuf) : i + 1 \in DOMAIN rbuf /\ Tail(rbuf)[i] = rbuf[i + 1]
  BY <1>1, TailShifts
<1>3. DOMAIN rbuf = 1 .. Len(rbuf) /\ Len(rbuf') = Len(rbuf) - 1 /\ Len(rbuf) \in Nat
  BY <1>1, HeadTailProperties, LenProperties
<1>4. ASSUME NEW i \in DOMAIN Incoming'
      PROVE  i \in Nat \ {0} /\ Incoming'[i] = Incoming[i + 1]
  <2>1. i \in 1 .. (Len(rbuf) - 1) + Len(c2s)
    BY <1>3, IncomingWillBe
  <2>2. CASE i <= Len(rbuf) - 1
    <3>1. Incoming'[i] = rbuf[i + 1]
      BY <1>1, <1>2, <1>3, <2>1, <2>2, IncomingWillBe
    <3>2. Incoming[i + 1] = rbuf[i + 1]
      BY <1>3, <2>1, <2>2, IncomingIs
    <3> QED BY <2>1, <3>1, <3>2, <1>3, IncomingIs
  <2>3. CASE i > Len(rbuf) - 1
    <3> DEFINE k == i - (Len(rbuf) - 1)
    <3>0. Len(rbuf) \in Nat /\ Len(c2s) \in Nat
      BY IncomingIs
    <3>1. k \in 1 .. Len(c2s) /\ (Len(rbuf) - 1) + k = i /\ Len(rbuf) + k = i + 1
      BY <2>1, <2>3, <3>0
    <3> HIDE DEF k
    <3>2. k \in 1 .. Len(c2s')
      BY <3>1
    <3>5. Incoming'[Len(rbuf') + k] = c2s'[k]
      BY <3>2, IncomingWillBe
    <3>3. Incoming'[i] = c2s[k]
      BY <1>3, <3>1, <3>5
    <3>4. Incoming[i + 1] = c2s[k]
      BY <3>1, IncomingIs
    <3> QED BY <2>1, <3>3, <3>4, <1>3, IncomingIs
  <2> QED BY <2>1, <2>2, <2>3, <1>3, IncomingIs
<1>5. 1 \in DOMAIN Incoming /\ Head(rbuf) = Incoming[1]
  BY <1>2, <1>3, IncomingIs
<1>6. \A i \in Int : i \in DOMAIN Incoming' <=> i > 0 /\ i + 1 \in DOMAIN Incoming
  BY <1>3, IncomingIs, IncomingWillBe
<1> QED BY <1>4, <1>5, <1>6

\* putpkt takes the first character that is not in the buffer.
LEMMA IncomingSkipped ==
  ASSUME TypeOK, TypeOK', PutpktReads
  PROVE  /\ Len(rbuf') = Len(rbuf) /\ Len(rbuf) \in Nat
         /\ Len(rbuf) + 1 \in DOMAIN Incoming /\ Head(c2s) = Incoming[Len(rbuf) + 1]
         /\ \A i \in Int : i \in DOMAIN Incoming' <=> i > 0 /\ i + 1 \in DOMAIN Incoming
         /\ \A i \in DOMAIN Incoming' :
              /\ i \in Nat \ {0}
              /\ Incoming'[i] = IF i <= Len(rbuf) THEN Incoming[i] ELSE Incoming[i + 1]
<1>1. /\ c2s \in Seq(Token) /\ c2s' \in Seq(Token) /\ c2s # <<>> /\ c2s' = Tail(c2s)
      /\ rbuf' = rbuf
  BY DEF TypeOK, PutpktReads
<1>2. /\ Head(c2s) = c2s[1] /\ 1 \in DOMAIN c2s
      /\ DOMAIN Tail(c2s) = 1 .. Len(c2s) - 1
      /\ \A i \in DOMAIN Tail(c2s) : i + 1 \in DOMAIN c2s /\ Tail(c2s)[i] = c2s[i + 1]
  BY <1>1, TailShifts
<1>3. DOMAIN c2s = 1 .. Len(c2s) /\ Len(c2s') = Len(c2s) - 1 /\ Len(c2s) \in Nat
  BY <1>1, HeadTailProperties, LenProperties
<1>4. ASSUME NEW i \in DOMAIN Incoming'
      PROVE  /\ i \in Nat \ {0}
             /\ Incoming'[i] = IF i <= Len(rbuf) THEN Incoming[i] ELSE Incoming[i + 1]
  <2>1. i \in 1 .. Len(rbuf) + (Len(c2s) - 1) /\ Len(rbuf) \in Nat
    BY <1>1, <1>3, IncomingWillBe, IncomingIs
  <2>2. CASE i <= Len(rbuf)
    <3>1. Incoming'[i] = rbuf[i] /\ Incoming[i] = rbuf[i]
      BY <1>1, <2>1, <2>2, IncomingIs, IncomingWillBe
    <3> QED BY <2>1, <2>2, <3>1
  <2>3. CASE ~ (i <= Len(rbuf))
    <3> DEFINE k == i - Len(rbuf)
    <3>1. k \in 1 .. Len(c2s) - 1 /\ Len(rbuf) + k = i /\ k + 1 \in 1 .. Len(c2s)
          /\ Len(rbuf) + (k + 1) = i + 1
      BY <2>1, <2>3, <1>3
    <3> HIDE DEF k
    <3>2. Incoming'[i] = c2s[k + 1]
      BY <1>1, <1>2, <1>3, <3>1, IncomingWillBe
    <3>3. Incoming[i + 1] = c2s[k + 1]
      BY <3>1, IncomingIs
    <3> QED BY <2>1, <2>3, <3>2, <3>3
  <2> QED BY <2>1, <2>2, <2>3
<1>5. Len(rbuf) + 1 \in DOMAIN Incoming /\ Head(c2s) = Incoming[Len(rbuf) + 1]
  BY <1>2, <1>3, IncomingIs
<1>6. \A i \in Int : i \in DOMAIN Incoming' <=> i > 0 /\ i + 1 \in DOMAIN Incoming
  BY <1>1, <1>3, IncomingIs, IncomingWillBe
<1> QED BY <1>1, <1>4, <1>5, <1>6, IncomingIs

\* What the debugger writes comes last.
LEMMA IncomingGrows ==
  ASSUME TypeOK, NEW ts \in Seq(Token), ToStub(ts), rbuf' = rbuf
  PROVE  /\ DOMAIN Incoming = 1 .. Len(Incoming) /\ Len(Incoming) \in Nat
         /\ Len(rbuf) <= Len(Incoming) /\ Len(rbuf) \in Nat
         /\ DOMAIN Incoming' = 1 .. Len(Incoming) + Len(ts)
         /\ \A i \in DOMAIN Incoming : Incoming'[i] = Incoming[i]
         /\ \A i \in DOMAIN ts : Incoming'[Len(Incoming) + i] = ts[i]
<1>1. rbuf \in Seq(Token) /\ c2s \in Seq(Token) /\ Incoming \in Seq(Token)
  BY ConcatProperties, Zenon DEF TypeOK, Incoming
<1>2. Incoming' = Incoming \o ts
  BY <1>1 DEF Incoming, ToStub
<1>3. Len(Incoming) \in Nat /\ DOMAIN Incoming = 1 .. Len(Incoming)
  BY <1>1, LenProperties
<1>4. Len(rbuf) \in Nat /\ Len(c2s) \in Nat /\ Len(Incoming) = Len(rbuf) + Len(c2s)
  BY <1>1, <1>3, LenProperties, ConcatProperties, Zenon DEF Incoming
<1>5. Len(rbuf) <= Len(Incoming)
  BY <1>3, <1>4
<1>6. /\ DOMAIN (Incoming \o ts) = 1 .. Len(Incoming) + Len(ts)
      /\ \A i \in DOMAIN Incoming : (Incoming \o ts)[i] = Incoming[i]
      /\ \A i \in DOMAIN ts : (Incoming \o ts)[Len(Incoming) + i] = ts[i]
  BY <1>1, ConcatGrows
<1> QED BY <1>2, <1>3, <1>4, <1>5, <1>6

\* What the stub writes comes last, unless the debugger has hung up.
LEMMA OutgoingGrows ==
  ASSUME TypeOK, NEW tok \in Token, ToClient(<<tok>>)
  PROVE  /\ DOMAIN s2c = 1 .. Len(s2c) /\ Len(s2c) \in Nat
         /\ hung_up => s2c' = s2c
         /\ ~ hung_up =>
              /\ DOMAIN s2c' = 1 .. Len(s2c) + 1
              /\ \A i \in DOMAIN s2c : s2c'[i] = s2c[i]
              /\ s2c'[Len(s2c) + 1] = tok
<1>1. s2c \in Seq(Token) /\ <<tok>> \in Seq(Token) /\ Len(<<tok>>) = 1 /\ <<tok>>[1] = tok
      /\ DOMAIN <<tok>> = 1 .. 1
  BY DEF TypeOK
<1>2. DOMAIN s2c = 1 .. Len(s2c) /\ Len(s2c) \in Nat
  BY <1>1, LenProperties
<1>3. CASE hung_up
  <2>1. s2c' = s2c
    BY <1>3 DEF ToClient
  <2> QED BY <1>2, <1>3, <2>1
<1>4. CASE ~ hung_up
  <2> DEFINE q == <<tok>>
  <2>1. s2c' = s2c \o q
    BY <1>4 DEF ToClient
  <2>2. q \in Seq(Token) /\ Len(q) = 1 /\ q[1] = tok /\ 1 \in DOMAIN q
    BY <1>1
  <2> HIDE DEF q
  <2>3. /\ DOMAIN (s2c \o q) = 1 .. Len(s2c) + Len(q)
        /\ \A i \in DOMAIN s2c : (s2c \o q)[i] = s2c[i]
        /\ \A i \in DOMAIN q : (s2c \o q)[Len(s2c) + i] = q[i]
    <3>1. s2c \in Seq(Token)
      BY <1>1
    <3> QED BY <2>2, <3>1, ConcatGrows
  <2> QED BY <1>2, <1>4, <2>1, <2>2, <2>3
<1> QED BY <1>3, <1>4

-----------------------------------------------------------------------------
(* The stub's steps keep the invariant.                                    *)

LEMMA Ids == ASSUME TypeOK PROVE own_buf.id \in Nat /\ command.id \in Nat
BY LinkAssumption DEF TypeOK, Command

\* What is on its way does not move and the stub stays out of putpkt, if its
\* command is not touched.
LEMMA UntouchedLine ==
  ASSUME OnePacket, InTurn, Incoming' = Incoming,
         UNCHANGED <<partial, own_buf, command>>,
         server' # "putpkt", partial # <<>> => server' = "getpkt"
  PROVE  OnePacket' /\ InTurn' /\ AckFirst'
BY DEF OnePacket, InTurn, AckFirst, Underway, GoodEnd

LEMMA RefillsKeep ==
  ASSUME TypeOK, LinkInv, ReadcharRefills
  PROVE  LinkInv'
<1> USE DEF debugger
<1>1. Incoming' = Incoming
  BY IncomingRefilled
<1>2. OnePacket' /\ InTurn' /\ AckFirst'
  BY <1>1, UntouchedLine DEF LinkInv, ReadcharRefills
<1>3. InStep' /\ Outgoing' /\ Owed' /\ NoAckMode'
  BY DEF LinkInv, ReadcharRefills, InStep, Outgoing, Owed, NoAckMode, Answers, Pending, Acked
<1> QED BY <1>2, <1>3 DEF LinkInv

LEMMA EOFKeeps ==
  ASSUME TypeOK, LinkInv, GetpktEOF
  PROVE  LinkInv'
<1> USE DEF debugger, line
<1>1. Incoming' = Incoming
  BY DEF Incoming, GetpktEOF
<1>2. partial = <<>>
  <2>1. Len(rbuf) = 0 /\ Len(c2s) = 0
    BY DEF GetpktEOF
  <2>2. 1 \notin DOMAIN Incoming
    BY <2>1, IncomingIs
  <2> QED BY <2>2 DEF LinkInv, OnePacket
<1>3. OnePacket' /\ InTurn' /\ AckFirst'
  BY <1>1, <1>2, UntouchedLine DEF LinkInv, GetpktEOF
<1>4. InStep' /\ Outgoing' /\ Owed' /\ NoAckMode'
  BY DEF LinkInv, GetpktEOF, InStep, Outgoing, Owed, NoAckMode, Answers, Pending, Acked
<1> QED BY <1>3, <1>4 DEF LinkInv

\* getpkt looking for '$' finds the packet or takes a character before it.
LEMMA ScansKeep ==
  ASSUME TypeOK, TypeOK', LinkInv, GetpktScans
  PROVE  LinkInv'
<1> USE DEF debugger, line
<1>1. /\ 1 \in DOMAIN Incoming /\ Head(rbuf) = Incoming[1]
      /\ \A i \in Int : i \in DOMAIN Incoming' <=> i > 0 /\ i + 1 \in DOMAIN Incoming
      /\ \A i \in DOMAIN Incoming' : i \in Nat \ {0} /\ Incoming'[i] = Incoming[i + 1]
  BY IncomingRead DEF GetpktScans
<1>2. /\ server = "getpkt" /\ partial = <<>>
      /\ partial' = IF Incoming[1].t = "$" THEN <<[cmd |-> Incoming[1].cmd, intact |-> TRUE]>>
                                           ELSE <<>>
      /\ UNCHANGED <<s2c, own_buf, server, status, no_ack_mode, client, command,
                     client_no_ack, hung_up>>
  BY <1>1 DEF GetpktScans, GetpktReads
<1>3. DOMAIN Incoming \subseteq Nat \ {0}
  BY IncomingIs
<1>4. OnePacket
  BY DEF LinkInv
<1>5. CASE Incoming[1].t = "$"
  <2>1. /\ Incoming[1].cmd = command /\ 2 \in DOMAIN Incoming /\ Incoming[2] = GoodEnd
        /\ partial' = <<[cmd |-> command, intact |-> TRUE]>>
    <3>1. Incoming[1].cmd = command /\ 1 + 1 \in DOMAIN Incoming /\ Incoming[1 + 1] = GoodEnd
      BY <1>1, <1>4, <1>5 DEF OnePacket
    <3>2. partial' = <<[cmd |-> Incoming[1].cmd, intact |-> TRUE]>>
      BY <1>2, <1>5
    <3> QED BY <3>1, <3>2
  <2>2. 1 \in DOMAIN Incoming' /\ Incoming'[1] = GoodEnd
    BY <1>1, <2>1
  <2>3. \A i \in DOMAIN Incoming' : Incoming'[i].t # "$"
    BY <1>1, <1>3, <1>4, <1>5 DEF OnePacket
  <2>4. ASSUME NEW i \in DOMAIN Incoming', Incoming'[i].t = "#"
        PROVE  i = 1
    <3>1. i \in Nat /\ i > 0 /\ i + 1 \in DOMAIN Incoming /\ Incoming[i + 1].t = "#"
      BY <1>1, <2>4
    <3>2. i \in DOMAIN Incoming /\ Incoming[i].t = "$"
      BY <1>2, <1>4, <3>1 DEF OnePacket
    <3> QED BY <1>1, <1>4, <1>5, <3>2 DEF OnePacket
  <2>5. \A i \in DOMAIN Incoming' : Incoming'[i].t \in {"+", "-", "^C", "$", "#"}
    BY <1>1, <1>4 DEF OnePacket
  <2>6. partial' # <<>>
    BY <2>1
  <2>7. OnePacket'
    BY <1>2, <2>1, <2>2, <2>3, <2>4, <2>5, <2>6 DEF OnePacket
  <2>8. Underway /\ Underway'
    BY <1>1, <1>5, <2>6 DEF Underway
  <2>9. InTurn'
    BY <1>2, <2>8 DEF LinkInv, InTurn
  <2> QED BY <1>2, <2>7, <2>9
          DEF LinkInv, AckFirst, InStep, Outgoing, Owed, NoAckMode, Answers, Pending, Acked
<1>6. CASE Incoming[1].t # "$"
  <2>1. partial' = <<>>
    BY <1>2, <1>6
  <2>2. \A i \in DOMAIN Incoming' : Incoming'[i].t \in {"+", "-", "^C", "$", "#"}
    BY <1>1, <1>4 DEF OnePacket
  <2>3. \A i, j \in DOMAIN Incoming' : Incoming'[i].t = "$" /\ Incoming'[j].t = "$" => i = j
    BY <1>1, <1>4 DEF OnePacket
  <2>4. ASSUME NEW i \in DOMAIN Incoming', Incoming'[i].t = "$"
        PROVE  /\ Incoming'[i].cmd = command
               /\ i + 1 \in DOMAIN Incoming' /\ Incoming'[i + 1] = GoodEnd
    <3>1. i \in Nat /\ i > 0 /\ i + 1 \in DOMAIN Incoming /\ Incoming'[i] = Incoming[i + 1]
      BY <1>1
    <3>2. /\ Incoming[i + 1].cmd = command /\ (i + 1) + 1 \in DOMAIN Incoming
          /\ Incoming[(i + 1) + 1] = GoodEnd
      BY <1>4, <2>4, <3>1 DEF OnePacket
    <3> QED BY <1>1, <3>1, <3>2
  <2>5. ASSUME NEW i \in DOMAIN Incoming', Incoming'[i].t = "#"
        PROVE  i - 1 \in DOMAIN Incoming' /\ Incoming'[i - 1].t = "$"
    <3>1. i \in Nat /\ i > 0 /\ i + 1 \in DOMAIN Incoming /\ Incoming[i + 1].t = "#"
      BY <1>1, <2>5
    <3>2. i \in DOMAIN Incoming /\ Incoming[i].t = "$"
      BY <1>2, <1>4, <3>1 DEF OnePacket
    <3>3. i - 1 > 0 /\ i - 1 \in Int /\ (i - 1) + 1 = i
      BY <1>6, <3>1, <3>2
    <3> QED BY <1>1, <3>2, <3>3
  <2>6. OnePacket'
    BY <1>2, <2>1, <2>2, <2>3, <2>4, <2>5 DEF OnePacket, GoodEnd
  <2>7. Underway <=> Underway'
    <3>1. ASSUME NEW i \in DOMAIN Incoming, Incoming[i].t = "$"
          PROVE  \E j \in DOMAIN Incoming' : Incoming'[j].t = "$"
      <4>1. i \in Nat /\ i - 1 > 0 /\ (i - 1) + 1 = i
        BY <1>3, <1>6, <3>1
      <4>2. i - 1 \in DOMAIN Incoming' /\ Incoming'[i - 1] = Incoming[i]
        BY <1>1, <4>1
      <4> QED BY <3>1, <4>2
    <3>2. ASSUME NEW i \in DOMAIN Incoming', Incoming'[i].t = "$"
          PROVE  \E j \in DOMAIN Incoming : Incoming[j].t = "$"
      BY <1>1, <3>2
    <3> QED BY <1>2, <2>1, <3>1, <3>2 DEF Underway
  <2>8. InTurn'
    BY <1>2, <2>7 DEF LinkInv, InTurn
  <2> QED BY <2>6, <2>8, <1>2
          DEF LinkInv, AckFirst, InStep, Outgoing, Owed, NoAckMode, Answers, Pending, Acked
<1> QED BY <1>5, <1>6

\* Nothing comes between a packet's '$' and its '#'.
LEMMA BodyNever ==
  ASSUME TypeOK, TypeOK', LinkInv, GetpktBody
  PROVE  FALSE
<1>1. Head(rbuf) = Incoming[1]
  BY IncomingRead DEF GetpktBody, line
<1> QED BY <1>1 DEF GetpktBody, LinkInv, OnePacket, GoodEnd

\* getpkt has the whole packet: it is good, newer than the last, and from now on
\* nothing is on its way.
LEMMA EndsKeep ==
  ASSUME TypeOK, TypeOK', LinkInv, GetpktEnds
  PROVE  LinkInv' /\ own_buf' = command /\ own_buf.id < command.id
<1> USE DEF debugger
<1>1. /\ 1 \in DOMAIN Incoming /\ Head(rbuf) = Incoming[1]
      /\ \A i \in Int : i \in DOMAIN Incoming' <=> i > 0 /\ i + 1 \in DOMAIN Incoming
      /\ \A i \in DOMAIN Incoming' : i \in Nat \ {0} /\ Incoming'[i] = Incoming[i + 1]
  BY IncomingRead DEF GetpktEnds
<1>2. /\ OnePacket /\ InTurn /\ InStep /\ Outgoing /\ Owed /\ NoAckMode
      /\ own_buf.id \in Nat /\ command.id \in Nat
  BY Ids DEF LinkInv
<1>3. /\ partial # <<>> /\ partial = <<[cmd |-> command, intact |-> TRUE]>>
      /\ Incoming[1].sum = "good" /\ server = "getpkt"
  BY <1>2 DEF GetpktEnds, OnePacket, GoodEnd
<1>4. /\ partial' = <<>> /\ own_buf' = command /\ server' \in {"handle", "exited"}
      /\ command.kind = "empty" <=> server' = "exited"
      /\ ToClient(IF AckWanted THEN <<Char("+")>> ELSE <<>>)
      /\ UNCHANGED <<status, no_ack_mode, client, command, client_no_ack, hung_up>>
  BY <1>1, <1>3 DEF GetpktEnds
<1>5. own_buf.id < command.id /\ Pending /\ client # "idle"
  BY <1>2, <1>3 DEF InTurn, InStep, Underway, Pending
<1>6. \A i \in DOMAIN Incoming : Incoming[i].t # "$"
  BY <1>2, <1>3 DEF OnePacket
<1>7. \A i \in DOMAIN Incoming' : Incoming'[i].t \in {"+", "-", "^C"}
  <2> SUFFICES ASSUME NEW i \in DOMAIN Incoming' PROVE Incoming'[i].t \in {"+", "-", "^C"}
    OBVIOUS
  <2>1. i \in Nat /\ i > 0 /\ i + 1 \in DOMAIN Incoming /\ Incoming'[i] = Incoming[i + 1]
    BY <1>1
  <2>3. Incoming[i + 1].t # "#"
    <3>1. Incoming[i + 1].t = "#" => (i + 1) - 1 \in DOMAIN Incoming /\ Incoming[(i + 1) - 1].t = "$"
      BY <1>2, <2>1 DEF OnePacket
    <3> QED BY <1>6, <3>1
  <2>4. Incoming[i + 1].t \in {"+", "-", "^C", "$", "#"} /\ Incoming[i + 1].t # "$"
    BY <1>2, <1>6, <2>1 DEF OnePacket
  <2> QED BY <2>1, <2>3, <2>4
<1>8. OnePacket'
  BY <1>4, <1>7 DEF OnePacket
<1>9. InTurn' /\ AckFirst'
  BY <1>4, <1>7 DEF InTurn, Underway, AckFirst
<1>10. InStep'
  BY <1>2, <1>4, <1>5 DEF InStep, Pending
<1>11. \A i \in DOMAIN s2c : ~ Answers(i) /\ s2c[i].t \in {"+", "reply"}
  BY <1>2, <1>5 DEF Outgoing, Pending
<1>12. /\ DOMAIN s2c = 1 .. Len(s2c) /\ Len(s2c) \in Nat
       /\ \/ s2c' = s2c
          \/ /\ ~ no_ack_mode /\ DOMAIN s2c' = 1 .. Len(s2c) + 1
             /\ \A i \in DOMAIN s2c : s2c'[i] = s2c[i]
             /\ s2c'[Len(s2c) + 1].t = "+"
       /\ ~ no_ack_mode /\ ~ hung_up => \E i \in DOMAIN s2c' : s2c'[i].t = "+"
  <2>1. Char("+") \in Token /\ Char("+").t = "+"
    BY Written
  <2>2. CASE AckWanted
    <3>1. ToClient(<<Char("+")>>)
      BY <1>4, <2>2
    <3>2. /\ DOMAIN s2c = 1 .. Len(s2c) /\ Len(s2c) \in Nat
          /\ hung_up => s2c' = s2c
          /\ ~ hung_up =>
               /\ DOMAIN s2c' = 1 .. Len(s2c) + 1
               /\ \A i \in DOMAIN s2c : s2c'[i] = s2c[i]
               /\ s2c'[Len(s2c) + 1] = Char("+")
      BY <2>1, <3>1, OutgoingGrows
    <3>3. ~ hung_up => Len(s2c) + 1 \in DOMAIN s2c'
      BY <3>2
    <3> QED BY <2>1, <2>2, <3>2, <3>3 DEF AckWanted
  <2>3. CASE ~ AckWanted
    <3>1. s2c \in Seq(Token) /\ s2c \o <<>> = s2c
      BY DEF TypeOK
    <3>2. s2c' = s2c
      BY <1>4, <2>3, <3>1 DEF ToClient
    <3>3. DOMAIN s2c = 1 .. Len(s2c) /\ Len(s2c) \in Nat
      BY <3>1, LenProperties
    <3> QED BY <2>3, <3>2, <3>3 DEF AckWanted
  <2> QED BY <2>2, <2>3
<1>13. /\ \A i \in DOMAIN s2c' : ~ Answers(i)'
       /\ \A i \in DOMAIN s2c' : s2c'[i].t = "reply" => i \in DOMAIN s2c /\ s2c'[i] = s2c[i]
  BY <1>4, <1>11, <1>12 DEF Answers
<1>14. Outgoing'
  <2>1. ASSUME NEW i \in DOMAIN s2c'
        PROVE  \/ s2c'[i].t = "+"
               \/ s2c'[i].t = "reply" /\ s2c'[i].ok /\ s2c'[i].re \in 1 .. command.id
    <3>1. CASE i \in DOMAIN s2c /\ s2c'[i] = s2c[i]
      BY <1>2, <1>5, <3>1 DEF Outgoing
    <3>2. CASE s2c'[i].t = "+"
      BY <3>2
    <3> QED BY <1>12, <3>1, <3>2
  <2>2. ~ Pending'
    BY <1>4 DEF Pending
  <2>3. ASSUME client \in {"reply", "idle"}, NEW i \in DOMAIN s2c', s2c'[i].t = "reply"
        PROVE  FALSE
    BY <1>2, <1>11, <1>13, <2>3 DEF Outgoing
  <2>4. ASSUME client = "ack", NEW i \in DOMAIN s2c', NEW j \in DOMAIN s2c',
               s2c'[i].t = "+", i < j, s2c'[j].t = "reply"
        PROVE  FALSE
    <3>1. j \in DOMAIN s2c /\ s2c[j].t = "reply"
      BY <1>13, <2>4
    <3>2. i \in DOMAIN s2c /\ s2c'[i] = s2c[i]
      BY <1>12, <2>4, <3>1
    <3> QED BY <1>2, <1>11, <2>4, <3>1, <3>2 DEF Outgoing
  <2> QED BY <1>4, <1>5, <1>13, <2>1, <2>2, <2>3, <2>4 DEF Outgoing
<1>15. Owed'
  <2>1. client = "ack" => ~ no_ack_mode /\ ~ hung_up
    BY <1>2, <1>5 DEF NoAckMode, InStep, Pending
  <2> QED BY <1>4, <1>12, <2>1 DEF Owed, Acked
<1>16. NoAckMode'
  BY <1>2, <1>4, <1>5, <1>13 DEF NoAckMode, Pending
<1> QED BY <1>4, <1>5, <1>8, <1>9, <1>10, <1>14, <1>15, <1>16 DEF LinkInv

\* A command is carried out, and a QStartNoAckMode takes effect.
LEMMA HandleKeeps ==
  ASSUME TypeOK, LinkInv, HandlePacket
  PROVE  LinkInv'
<1> USE DEF debugger, line
<1>1. Incoming' = Incoming
  BY DEF Incoming, HandlePacket
<1>2. /\ server = "handle" /\ own_buf = command /\ client # "idle" /\ own_buf.id # 0
      /\ partial = <<>>
  BY DEF HandlePacket, LinkInv, InStep, OnePacket
<1>3. OnePacket' /\ InTurn' /\ AckFirst'
  BY <1>1, <1>2, UntouchedLine DEF LinkInv, HandlePacket
<1>4. \A i \in DOMAIN s2c : ~ Answers(i)
  BY <1>2 DEF LinkInv, Outgoing
<1>5. UNCHANGED <<s2c, own_buf, client, command, client_no_ack, hung_up>>
  BY DEF HandlePacket
<1>6. /\ server' \in {"mywait", "getpkt", "exited", "answer"}
      /\ server' = "getpkt" => own_buf.kind = "failing"
      /\ own_buf.kind = "kill" <=> server' = "exited"
  BY DEF HandlePacket
<1>7. InStep'
  BY <1>2, <1>5, <1>6 DEF LinkInv, InStep, Pending
<1>8. Outgoing'
  BY <1>2, <1>4, <1>5, <1>6 DEF LinkInv, Outgoing, Answers, Pending, Acked
<1>9. Owed'
  BY <1>2, <1>4, <1>5, <1>6 DEF LinkInv, Owed, Answers, Acked
<1>10. NoAckMode'
  <2>1. no_ack_mode' <=> no_ack_mode \/ own_buf.kind = "noack"
    BY Zenon DEF HandlePacket
  <2> QED BY <1>2, <1>4, <1>5, <1>6, <2>1 DEF LinkInv, NoAckMode, Answers
<1> QED BY <1>3, <1>7, <1>8, <1>9, <1>10 DEF LinkInv

LEMMA StopsKeep ==
  ASSUME TypeOK, LinkInv, InferiorStops
  PROVE  LinkInv'
<1> USE DEF debugger, line
<1>1. Incoming' = Incoming
  BY DEF Incoming, InferiorStops
<1>2. partial = <<>>
  BY DEF InferiorStops, LinkInv, OnePacket
<1>3. OnePacket' /\ InTurn' /\ AckFirst'
  BY <1>1, <1>2, UntouchedLine DEF LinkInv, InferiorStops
<1>4. InStep' /\ Outgoing' /\ Owed' /\ NoAckMode'
  BY DEF LinkInv, InferiorStops, InStep, Outgoing, Owed, NoAckMode, Answers, Pending, Acked
<1> QED BY <1>3, <1>4 DEF LinkInv

\* putpkt sends the answer to the last command, for the first time or again.
LEMMA ReplySent ==
  ASSUME TypeOK, Outgoing, ToClient(<<Reply(TRUE)>>), own_buf.id # 0,
         own_buf.id = command.id \/ client \in {"reply", "idle"} => own_buf = command,
         UNCHANGED <<own_buf, client, command>>,
         server' \notin {"handle", "mywait", "answer"}
  PROVE  /\ Outgoing'
         /\ Acked => Acked'
         /\ \A i \in DOMAIN s2c : i \in DOMAIN s2c' /\ s2c'[i] = s2c[i]
         /\ own_buf = command /\ ~ hung_up => \E i \in DOMAIN s2c' : Answers(i)'
         /\ \A i \in DOMAIN s2c' : i \in DOMAIN s2c \/ i = Len(s2c) + 1
<1> DEFINE tok == Reply(TRUE)
<1>1. /\ own_buf \in Command /\ own_buf.id \in Nat \ {0} /\ command.id \in Nat
      /\ tok \in Token
  BY Ids, Written DEF TypeOK
<1>2. tok.t = "reply" /\ tok.ok /\ tok.re = own_buf.id
  BY DEF Reply
<1> HIDE DEF tok
<1>3. /\ DOMAIN s2c = 1 .. Len(s2c) /\ Len(s2c) \in Nat
      /\ hung_up => s2c' = s2c
      /\ ~ hung_up =>
           /\ DOMAIN s2c' = 1 .. Len(s2c) + 1
           /\ \A i \in DOMAIN s2c : s2c'[i] = s2c[i]
           /\ s2c'[Len(s2c) + 1] = tok
  BY <1>1, OutgoingGrows DEF tok
<1>4. CASE hung_up
  <2>1. Outgoing'
    BY <1>3, <1>4 DEF Outgoing, Answers, Pending, Acked
  <2>2. Acked => Acked'
    BY <1>3, <1>4 DEF Acked
  <2> QED BY <1>3, <1>4, <2>1, <2>2
<1>5. CASE ~ hung_up
  <2>1. PICK n \in Nat :
          /\ n = Len(s2c) + 1 /\ n \in DOMAIN s2c' /\ s2c'[n] = tok
          /\ \A i \in DOMAIN s2c' : i \in Nat /\ i <= n /\ ((i \in DOMAIN s2c /\ i < n) \/ i = n)
          /\ \A i \in DOMAIN s2c : i \in DOMAIN s2c' /\ s2c'[i] = s2c[i]
    BY <1>3, <1>5
  <2>2. Answers(n)' <=> own_buf.id = command.id
    BY <1>2, <2>1 DEF Answers
  <2>3. \A i \in DOMAIN s2c : Answers(i)' <=> Answers(i)
    BY <2>1 DEF Answers
  <2>4. \A i \in DOMAIN s2c' : \/ s2c'[i].t = "+"
                               \/ s2c'[i].t = "reply" /\ s2c'[i].ok /\ s2c'[i].re \in 1 .. own_buf.id
    <3>1. own_buf.id \in 1 .. own_buf.id
      BY <1>1
    <3> QED BY <1>2, <2>1, <3>1 DEF Outgoing
  <2>5. \A i \in DOMAIN s2c' : s2c'[i].t = "+" => i \in DOMAIN s2c /\ i < n /\ s2c[i].t = "+"
    BY <1>2, <2>1
  <2>6. \A i, j \in DOMAIN s2c' : Answers(i)' /\ s2c'[j].t = "+" => j < i
    BY <2>1, <2>3, <2>5 DEF Outgoing
  <2>7. \A i \in DOMAIN s2c' : Answers(i)' => own_buf = command
    BY <2>1, <2>2, <2>3 DEF Outgoing
  <2>8. Acked <=> Acked'
    BY <2>1, <2>5 DEF Acked
  <2>9. client \in {"reply", "idle"} => \A i \in DOMAIN s2c' : s2c'[i].t = "reply" => Answers(i)'
    BY <2>1, <2>2, <2>3 DEF Outgoing
  <2>10. ASSUME client = "ack", NEW i \in DOMAIN s2c', NEW j \in DOMAIN s2c',
                s2c'[i].t = "+", i < j, s2c'[j].t = "reply"
         PROVE  Answers(j)'
    <3>1. i \in DOMAIN s2c /\ s2c[i].t = "+" /\ Acked
      BY <2>5, <2>10 DEF Acked
    <3>2. own_buf = command
      BY <1>1, <3>1 DEF Outgoing, Pending
    <3> QED BY <2>1, <2>2, <2>3, <2>10, <3>1, <3>2 DEF Outgoing
  <2>11. Outgoing'
    BY <2>4, <2>6, <2>7, <2>8, <2>9, <2>10 DEF Outgoing, Pending
  <2> QED BY <1>5, <2>1, <2>2, <2>8, <2>11
<1> QED BY <1>4, <1>5

\* putpkt sends an answer, which is to the debugger's command.
LEMMA WritesKeep ==
  ASSUME TypeOK, LinkInv, PutpktWrites
  PROVE  LinkInv'
<1> USE DEF debugger
<1>1. Incoming' = Incoming
  BY DEF Incoming, PutpktWrites
<1>2. /\ own_buf = command /\ client # "idle" /\ own_buf.id # 0 /\ own_buf.kind # "kill"
      /\ partial = <<>> /\ server = "answer" /\ own_buf.id \in Nat
  BY Ids DEF PutpktWrites, LinkInv, InStep, OnePacket
<1>3. /\ UNCHANGED <<partial, own_buf, no_ack_mode, client, command, client_no_ack, hung_up>>
      /\ ToClient(<<Reply(TRUE)>>)
      /\ server' \in {"getpkt", "exited", "putpkt"}
      /\ no_ack_mode => server' # "putpkt"
  BY DEF PutpktWrites, AwaitsAck, AfterReply
<1>4. ~ Underway
  BY <1>2 DEF LinkInv, InTurn
<1>5. OnePacket' /\ InTurn'
  BY <1>1, <1>2, <1>3 DEF LinkInv, OnePacket, InTurn, Underway, GoodEnd
<1>6. AckFirst'
  BY <1>1, <1>2, <1>3, <1>4 DEF AckFirst, Underway
<1>7. InStep'
  BY <1>2, <1>3 DEF LinkInv, InStep, Pending
<1>8. /\ Outgoing'
      /\ Acked => Acked'
      /\ ~ hung_up => \E i \in DOMAIN s2c' : Answers(i)'
      /\ \A i \in DOMAIN s2c : s2c'[i] = s2c[i]
      /\ \A i \in DOMAIN s2c' : i \in DOMAIN s2c \/ i = Len(s2c) + 1
  BY <1>2, <1>3, ReplySent DEF LinkInv
<1>9. Owed'
  BY <1>2, <1>3, <1>8 DEF LinkInv, Owed, InStep
<1>10. NoAckMode'
  <2>1. \A i, j \in DOMAIN s2c' : Answers(i)' /\ Answers(j)' => i = j
    <3>1. \A i \in DOMAIN s2c : ~ Answers(i)
      BY <1>2 DEF LinkInv, Outgoing
    <3>2. \A i \in DOMAIN s2c : ~ Answers(i)'
      BY <1>3, <1>8, <3>1 DEF Answers
    <3> QED BY <1>8, <3>2
  <2> QED BY <1>2, <1>3, <2>1 DEF LinkInv, NoAckMode
<1> QED BY <1>5, <1>6, <1>7, <1>8, <1>9, <1>10 DEF LinkInv

\* putpkt reads one character: it is none of a packet's, and the packet that may
\* follow stays as it is.
LEMMA ReadKeepsLine ==
  ASSUME TypeOK, TypeOK', LinkInv, PutpktReads
  PROVE  /\ Head(c2s).t \in {"+", "-", "^C"}
         /\ OnePacket' /\ InTurn'
         /\ Head(c2s).t # "+" => AckFirst'
<1> USE DEF debugger
<1> DEFINE n == Len(rbuf)
<1>1. /\ Len(rbuf') = n /\ n \in Nat
      /\ n + 1 \in DOMAIN Incoming /\ Head(c2s) = Incoming[n + 1]
      /\ \A i \in Int : i \in DOMAIN Incoming' <=> i > 0 /\ i + 1 \in DOMAIN Incoming
      /\ \A i \in DOMAIN Incoming' :
           i \in Nat \ {0} /\ Incoming'[i] = IF i <= n THEN Incoming[i] ELSE Incoming[i + 1]
  BY IncomingSkipped
<1>2. /\ server = "putpkt" /\ OnePacket /\ partial = <<>>
      /\ UNCHANGED <<partial, own_buf, client, command>>
  BY DEF PutpktReads, LinkInv, OnePacket
<1>3. \A i \in DOMAIN Incoming : Incoming[i].t = "$" =>
        \E j \in n + 1 .. i - 1 : Incoming[j].t = "+"
  BY <1>2 DEF LinkInv, AckFirst
<1>4. DOMAIN Incoming \subseteq Nat \ {0}
  BY IncomingIs
<1> HIDE DEF n
<1>5. \A i \in DOMAIN Incoming : Incoming[i].t = "$" => i > n + 1
  BY <1>1, <1>3, <1>4
<1>6. \A i \in DOMAIN Incoming : Incoming[i].t = "#" => i > n + 2
  <2> SUFFICES ASSUME NEW i \in DOMAIN Incoming, Incoming[i].t = "#" PROVE i > n + 2
    OBVIOUS
  <2>1. i - 1 \in DOMAIN Incoming /\ Incoming[i - 1].t = "$"
    BY <1>2 DEF OnePacket
  <2> QED BY <1>1, <1>4, <1>5, <2>1
<1>7. Head(c2s).t \in {"+", "-", "^C"}
  <2>1. Incoming[n + 1].t \in {"+", "-", "^C", "$", "#"}
    BY <1>1, <1>2 DEF OnePacket
  <2>2. Incoming[n + 1].t # "$"
    BY <1>1, <1>5
  <2>3. Incoming[n + 1].t # "#"
    BY <1>1, <1>6
  <2> QED BY <1>1, <2>1, <2>2, <2>3
<1>8. ASSUME NEW i \in DOMAIN Incoming', Incoming'[i].t \in {"$", "#"}
      PROVE  i > n /\ i \in Nat /\ Incoming'[i] = Incoming[i + 1] /\ i + 1 \in DOMAIN Incoming
  <2>1. i \in Nat /\ i > 0 /\ i + 1 \in DOMAIN Incoming /\ n + 1 \in Nat /\ DOMAIN Incoming = 1 .. Len(rbuf) + Len(c2s)
    BY <1>1, IncomingIs
  <2>2. i \in DOMAIN Incoming
    BY <2>1, IncomingIs
  <2>3. i > n
    <3> SUFFICES ASSUME i <= n PROVE FALSE
      BY <1>1, <2>1
    <3>1. Incoming'[i] = Incoming[i]
      BY <1>1
    <3> QED BY <1>1, <1>5, <1>6, <1>8, <2>1, <2>2, <3>1
  <2> QED BY <1>1, <2>1, <2>3
<1>9. OnePacket'
  <2>1. \A i \in DOMAIN Incoming' : Incoming'[i].t \in {"+", "-", "^C", "$", "#"}
    <3> SUFFICES ASSUME NEW i \in DOMAIN Incoming' PROVE Incoming'[i].t \in {"+", "-", "^C", "$", "#"}
      OBVIOUS
    <3>1. i \in DOMAIN Incoming /\ i + 1 \in DOMAIN Incoming
      BY <1>1, IncomingIs
    <3> QED BY <1>1, <1>2, <3>1 DEF OnePacket
  <2>2. \A i, j \in DOMAIN Incoming' : Incoming'[i].t = "$" /\ Incoming'[j].t = "$" => i = j
    <3> SUFFICES ASSUME NEW i \in DOMAIN Incoming', NEW j \in DOMAIN Incoming',
                        Incoming'[i].t = "$", Incoming'[j].t = "$"
                 PROVE  i = j
      OBVIOUS
    <3>1. i + 1 = j + 1
      BY <1>2, <1>8 DEF OnePacket
    <3> QED BY <1>8, <3>1
  <2>3. ASSUME NEW i \in DOMAIN Incoming', Incoming'[i].t = "$"
        PROVE  /\ Incoming'[i].cmd = command
               /\ i + 1 \in DOMAIN Incoming' /\ Incoming'[i + 1] = GoodEnd
    <3>1. i > n /\ i \in Nat /\ Incoming'[i] = Incoming[i + 1] /\ i + 1 \in DOMAIN Incoming
      BY <1>8, <2>3
    <3>2. /\ Incoming[i + 1].cmd = command /\ (i + 1) + 1 \in DOMAIN Incoming
          /\ Incoming[(i + 1) + 1] = GoodEnd
      BY <1>2, <2>3, <3>1 DEF OnePacket
    <3>3. i + 1 \in DOMAIN Incoming' /\ ~ (i + 1 <= n)
      BY <1>1, <3>1, <3>2
    <3> QED BY <1>1, <3>1, <3>2, <3>3
  <2>4. ASSUME NEW i \in DOMAIN Incoming', Incoming'[i].t = "#"
        PROVE  i - 1 \in DOMAIN Incoming' /\ Incoming'[i - 1].t = "$"
    <3>1. i > n /\ i \in Nat /\ Incoming[i + 1].t = "#" /\ i + 1 \in DOMAIN Incoming
      BY <1>8, <2>4
    <3>2. (i + 1) - 1 \in DOMAIN Incoming /\ Incoming[(i + 1) - 1].t = "$"
      BY <1>2, <3>1 DEF OnePacket
    <3>3. i \in DOMAIN Incoming /\ Incoming[i].t = "$"
      BY <3>1, <3>2
    <3>4. i > n + 1
      BY <1>5, <3>3
    <3>5. i - 1 \in Int /\ i - 1 > 0 /\ (i - 1) + 1 = i /\ ~ (i - 1 <= n)
      BY <1>1, <3>1, <3>4
    <3> QED BY <1>1, <3>3, <3>5
  <2> QED BY <1>2, <2>1, <2>2, <2>3, <2>4 DEF OnePacket
<1>10. InTurn'
  <2>1. ASSUME NEW i \in DOMAIN Incoming, Incoming[i].t = "$"
        PROVE  /\ i - 1 \in DOMAIN Incoming' /\ Incoming'[i - 1] = Incoming[i]
    <3>1. i \in Nat /\ i > n + 1
      BY <1>4, <1>5, <2>1
    <3>2. i - 1 \in Int /\ i - 1 > 0 /\ (i - 1) + 1 = i /\ ~ (i - 1 <= n)
      BY <1>1, <3>1
    <3> QED BY <1>1, <3>2
  <2>2. Underway <=> Underway'
    BY <1>2, <1>8, <2>1 DEF Underway
  <2> QED BY <1>2, <2>2 DEF LinkInv, InTurn
<1>11. ASSUME Head(c2s).t # "+"
       PROVE  AckFirst'
  <2>1. ASSUME NEW j \in DOMAIN Incoming, j > n, Incoming[j].t = "+"
        PROVE  /\ j - 1 \in DOMAIN Incoming' /\ j - 1 > n /\ Incoming'[j - 1].t = "+"
    <3>1. j # n + 1 /\ j \in Nat
      BY <1>1, <1>4, <1>11, <2>1
    <3>2. j - 1 \in Int /\ j - 1 > 0 /\ (j - 1) + 1 = j /\ ~ (j - 1 <= n) /\ j - 1 > n
      BY <1>1, <2>1, <3>1
    <3> QED BY <1>1, <2>1, <3>2
  <2>2. ASSUME NEW i \in DOMAIN Incoming', Incoming'[i].t = "$"
        PROVE  \E j \in n + 1 .. i - 1 : Incoming'[j].t = "+"
    <3>1. i > n /\ i \in Nat /\ Incoming[i + 1].t = "$" /\ i + 1 \in DOMAIN Incoming
      BY <1>8, <2>2
    <3>2. PICK j \in n + 1 .. (i + 1) - 1 : Incoming[j].t = "+"
      BY <1>3, <3>1
    <3>3. j \in DOMAIN Incoming /\ j > n /\ j \in Int
      BY <1>1, <3>1, <3>2, IncomingIs
    <3>4. j - 1 > n /\ Incoming'[j - 1].t = "+"
      BY <2>1, <3>2, <3>3
    <3>5. j - 1 \in n + 1 .. i - 1
      BY <1>1, <3>1, <3>2, <3>4
    <3> QED BY <3>4, <3>5
  <2>3. client = "idle" => \E j \in DOMAIN Incoming' : j > n /\ Incoming'[j].t = "+"
    <3> SUFFICES ASSUME client = "idle"
                 PROVE  \E j \in DOMAIN Incoming' : j > n /\ Incoming'[j].t = "+"
      OBVIOUS
    <3>1. PICK j \in DOMAIN Incoming : j > n /\ Incoming[j].t = "+"
      BY <1>2 DEF LinkInv, AckFirst, n
    <3> QED BY <2>1, <3>1
  <2> QED BY <1>1, <1>2, <2>2, <2>3 DEF AckFirst
<1> QED BY <1>7, <1>9, <1>10, <1>11

LEMMA ReadsKeep ==
  ASSUME TypeOK, TypeOK', LinkInv, PutpktReads
  PROVE  LinkInv'
<1> USE DEF debugger
<1>1. /\ Head(c2s).t \in {"+", "-", "^C"} /\ OnePacket' /\ InTurn'
      /\ Head(c2s).t # "+" => AckFirst'
  BY ReadKeepsLine
<1>2. /\ server = "putpkt"
      /\ UNCHANGED <<own_buf, no_ack_mode, client, command, client_no_ack, hung_up>>
  BY DEF PutpktReads
<1>3. /\ InTurn /\ InStep /\ Outgoing /\ Owed /\ NoAckMode
      /\ own_buf.id \in Nat /\ command.id \in Nat
  BY Ids DEF LinkInv
<1>4. own_buf.id # 0 /\ ~ no_ack_mode /\ ~ client_no_ack
  BY <1>2, <1>3 DEF InStep, NoAckMode
<1>5. CASE Head(c2s).t = "+"
  <2>1. s2c \o <<>> = s2c
    BY DEF TypeOK
  <2>2. server' \in {"getpkt", "exited"} /\ s2c' = s2c
    BY <1>5, <2>1 DEF PutpktReads, Acks, Repeats, AfterReply, ToClient
  <2>3. AckFirst'
    BY <2>2 DEF AckFirst
  <2>4. InStep' /\ Outgoing' /\ Owed' /\ NoAckMode'
    BY <1>2, <1>3, <2>2 DEF InStep, Outgoing, Owed, NoAckMode, Answers, Pending, Acked
  <2> QED BY <1>1, <2>3, <2>4 DEF LinkInv
<1>6. CASE Head(c2s).t # "+"
  <2>1. server' = "putpkt" /\ ToClient(<<Reply(TRUE)>>)
    BY <1>6 DEF PutpktReads, Acks, Repeats
  <2>2. own_buf.id = command.id => own_buf = command
    BY <1>3 DEF InTurn
  <2>3. client \in {"reply", "idle"} => own_buf = command
    BY <1>3, <1>4 DEF InStep, Pending
  <2>4. /\ Outgoing'
        /\ Acked => Acked'
        /\ \A i \in DOMAIN s2c : i \in DOMAIN s2c' /\ s2c'[i] = s2c[i]
    BY <1>2, <1>3, <1>4, <2>1, <2>2, <2>3, ReplySent
  <2>5. InStep'
    BY <1>2, <1>3, <2>1 DEF InStep, Pending
  <2>6. \A i \in DOMAIN s2c : Answers(i) => i \in DOMAIN s2c' /\ Answers(i)'
    BY <1>2, <2>4 DEF Answers
  <2>7. Owed'
    <3>1. client = "ack" /\ own_buf = command => Acked'
      BY <1>3, <2>4 DEF Owed
    <3>2. /\ client \in {"ack", "reply"} /\ own_buf = command
          /\ command.kind \notin {"failing", "kill", "empty"}
          => \E i \in DOMAIN s2c' : Answers(i)'
      BY <1>2, <1>3, <2>6 DEF Owed
    <3> QED BY <1>2, <3>1, <3>2 DEF Owed
  <2>8. NoAckMode'
    <3>1. ~ no_ack_mode' /\ ~ client_no_ack'
      BY <1>2, <1>4
    <3>2. own_buf.kind # "noack"
      BY <1>2, <1>3, <1>4 DEF NoAckMode
    <3>3. own_buf'.kind # "noack"
      BY <1>2, <3>2
    <3> QED BY <3>1, <3>3 DEF NoAckMode
  <2> QED BY <1>1, <1>6, <2>4, <2>5, <2>7, <2>8 DEF LinkInv
<1> QED BY <1>5, <1>6

\* putpkt gives up at end of file.
LEMMA PutpktEOFKeeps ==
  ASSUME TypeOK, LinkInv, PutpktEOF
  PROVE  LinkInv'
<1> USE DEF debugger, line
<1>1. Incoming' = Incoming
  BY DEF Incoming, PutpktEOF
<1>2. /\ partial = <<>> /\ server = "putpkt" /\ server' \in {"getpkt", "exited"}
      /\ UNCHANGED <<s2c, partial, own_buf, no_ack_mode, client, command, client_no_ack, hung_up>>
  BY DEF PutpktEOF, LinkInv, OnePacket, AfterReply
<1>3. OnePacket' /\ InTurn' /\ AckFirst'
  BY <1>1, <1>2, UntouchedLine DEF LinkInv
<1>4. InStep' /\ Outgoing' /\ Owed' /\ NoAckMode'
  BY <1>2 DEF LinkInv, InStep, Outgoing, Owed, NoAckMode, Answers, Pending, Acked
<1> QED BY <1>3, <1>4 DEF LinkInv

-----------------------------------------------------------------------------
(* The debugger's steps keep the invariant.                                *)

\* A character the debugger writes comes after the packet on its way, if any;
\* in the middle of nothing, and putpkt still finds its ack first.
LEMMA CharacterSent ==
  ASSUME TypeOK, OnePacket, InTurn, AckFirst, NEW c \in {"+", "-", "^C"},
         ToStub(<<Char(c)>>), UNCHANGED <<rbuf, partial, own_buf, server, command>>,
         client' = "idle" /\ server = "putpkt" => client = "idle" \/ c = "+"
  PROVE  OnePacket' /\ InTurn' /\ AckFirst'
<1> DEFINE ts == <<Char(c)>>
<1>1. /\ ts \in Seq(Token) /\ Len(ts) = 1 /\ 1 \in DOMAIN ts /\ ts[1] = Char(c)
      /\ Char(c).t = c
  BY Written
<1>2. /\ DOMAIN Incoming = 1 .. Len(Incoming) /\ Len(Incoming) \in Nat
      /\ Len(rbuf) <= Len(Incoming) /\ Len(rbuf) \in Nat
      /\ DOMAIN Incoming' = 1 .. Len(Incoming) + 1
      /\ \A i \in DOMAIN Incoming : Incoming'[i] = Incoming[i]
      /\ Incoming'[Len(Incoming) + 1].t = c
  <2> HIDE DEF ts
  <2>1. ToStub(ts)
    BY DEF ts
  <2> QED BY <1>1, <2>1, IncomingGrows
<1>3. PICK n \in Nat : n = Len(Incoming)
  BY <1>2
<1>4. /\ \A i \in DOMAIN Incoming' : i \in Nat /\ ((i \in DOMAIN Incoming /\ i <= n) \/ i = n + 1)
      /\ \A i \in DOMAIN Incoming' : i = n + 1 => Incoming'[i].t = c
      /\ \A i \in DOMAIN Incoming : i \in DOMAIN Incoming' /\ Incoming'[i] = Incoming[i]
      /\ n + 1 \in DOMAIN Incoming' /\ Incoming'[n + 1].t = c
      /\ \A i \in DOMAIN Incoming' : i - 1 \in DOMAIN Incoming => i - 1 \in DOMAIN Incoming'
      /\ Len(rbuf) < n + 1
  BY <1>2, <1>3
<1>5. \A i \in DOMAIN Incoming' : Incoming'[i].t \in {"$", "#"} =>
        i \in DOMAIN Incoming /\ Incoming'[i] = Incoming[i]
  BY <1>4
<1>6. OnePacket'
  <2>1. \A i \in DOMAIN Incoming' : Incoming'[i].t \in {"+", "-", "^C", "$", "#"}
    BY <1>4 DEF OnePacket
  <2>2. \A i, j \in DOMAIN Incoming' : Incoming'[i].t = "$" /\ Incoming'[j].t = "$" => i = j
    BY <1>5 DEF OnePacket
  <2>3. \A i \in DOMAIN Incoming' : Incoming'[i].t = "$" =>
          /\ partial = <<>> /\ Incoming'[i].cmd = command
          /\ i + 1 \in DOMAIN Incoming' /\ Incoming'[i + 1] = GoodEnd
    BY <1>4, <1>5 DEF OnePacket
  <2>4. ASSUME NEW i \in DOMAIN Incoming', Incoming'[i].t = "#"
        PROVE  \/ i = 1 /\ partial # <<>>
               \/ i - 1 \in DOMAIN Incoming' /\ Incoming'[i - 1].t = "$"
    <3>1. i \in DOMAIN Incoming /\ Incoming[i].t = "#"
      BY <1>5, <2>4
    <3>2. \/ i = 1 /\ partial # <<>>
          \/ i - 1 \in DOMAIN Incoming /\ Incoming[i - 1].t = "$"
      BY <3>1 DEF OnePacket
    <3> QED BY <1>4, <3>2
  <2>5. partial # <<>> =>
          /\ server = "getpkt" /\ partial = <<[cmd |-> command, intact |-> TRUE]>>
          /\ 1 \in DOMAIN Incoming' /\ Incoming'[1] = GoodEnd
    BY <1>4 DEF OnePacket
  <2>6. partial' = partial /\ server' = server /\ command' = command
    OBVIOUS
  <2> HIDE DEF ts
  <2> QED BY <2>1, <2>2, <2>3, <2>4, <2>5, <2>6 DEF OnePacket, GoodEnd
<1>7. InTurn'
  <2>1. Underway <=> Underway'
    BY <1>4, <1>5 DEF Underway
  <2> QED BY <2>1 DEF InTurn
<1>8. AckFirst'
  <2>1. ASSUME server = "putpkt", NEW i \in DOMAIN Incoming', Incoming'[i].t = "$"
        PROVE  \E j \in Len(rbuf) + 1 .. i - 1 : Incoming'[j].t = "+"
    <3>1. i \in DOMAIN Incoming /\ Incoming[i].t = "$" /\ i <= n
      BY <1>2, <1>3, <1>5, <2>1
    <3>2. PICK j \in Len(rbuf) + 1 .. i - 1 : Incoming[j].t = "+"
      BY <2>1, <3>1 DEF AckFirst
    <3>3. j \in DOMAIN Incoming
      BY <1>2, <1>3, <3>1
    <3> QED BY <1>4, <3>2, <3>3
  <2>2. ASSUME server = "putpkt", client' = "idle"
        PROVE  \E j \in DOMAIN Incoming' : j > Len(rbuf) /\ Incoming'[j].t = "+"
    <3>1. CASE client = "idle"
      BY <1>4, <2>2, <3>1 DEF AckFirst
    <3>2. CASE c = "+"
      BY <1>4, <3>2, <1>2
    <3> QED BY <2>2, <3>1, <3>2
  <2> QED BY <2>1, <2>2 DEF AckFirst
<1> QED BY <1>6, <1>7, <1>8

\* A command of an idle debugger: nothing else is on its way, no reply there is
\* can be taken for its answer.
LEMMA SendsKeep ==
  ASSUME TypeOK, LinkInv, NEW kind \in Kinds, ClientSends(kind)
  PROVE  LinkInv'
<1> USE DEF stub
<1>1. /\ client = "idle" /\ command' = [id |-> command.id + 1, kind |-> kind]
      /\ ToStub(Packet(command'))
      /\ client' = IF client_no_ack THEN "reply" ELSE "ack"
      /\ UNCHANGED <<s2c, rbuf, partial, own_buf, server, no_ack_mode, client_no_ack, hung_up>>
  BY DEF ClientSends
<1>2. /\ OnePacket /\ InTurn /\ AckFirst /\ InStep /\ Outgoing /\ NoAckMode
      /\ own_buf.id \in Nat /\ command.id \in Nat /\ own_buf = command
  BY <1>1, Ids DEF LinkInv, InStep
<1>3. partial = <<>> /\ \A i \in DOMAIN Incoming : Incoming[i].t # "$"
  BY <1>2 DEF InTurn, Underway
<1>4. \A i \in DOMAIN Incoming : Incoming[i].t \in {"+", "-", "^C"}
  BY <1>2, <1>3 DEF OnePacket
<1>5. /\ command'.id = command.id + 1 /\ command'.kind = kind /\ kind # "none"
      /\ command' # own_buf
  <2>1. command'.id = command.id + 1 /\ command'.kind = kind
    BY <1>1
  <2>2. command'.id # own_buf.id
    BY <1>2, <2>1
  <2>3. kind # "none"
    BY LinkAssumption
  <2> QED BY <2>1, <2>2, <2>3
<1>6. PICK n \in Nat :
        /\ DOMAIN Incoming = 1 .. n /\ DOMAIN Incoming' = 1 .. n + 2
        /\ Len(rbuf) \in Nat /\ Len(rbuf) <= n
        /\ \A i \in 1 .. n : Incoming'[i] = Incoming[i]
        /\ Incoming'[n + 1] = [t |-> "$", cmd |-> command']
        /\ Incoming'[n + 2] = GoodEnd
  <2>1. command' \in Command
    BY ClientTypes, <1>1 DEF ClientNext, TypeOK
  <2> DEFINE ts == Packet(command')
  <2>2. ts \in Seq(Token)
    BY <2>1, Written
  <2>3. Len(ts) = 2 /\ ts[1] = [t |-> "$", cmd |-> command'] /\ ts[2] = GoodEnd
    BY DEF Packet, GoodEnd
  <2>4. DOMAIN ts = 1 .. Len(ts)
    BY <2>2, LenProperties
  <2> HIDE DEF ts
  <2>5. ToStub(ts) /\ rbuf' = rbuf
    BY <1>1 DEF ts
  <2>6. /\ DOMAIN Incoming = 1 .. Len(Incoming) /\ Len(Incoming) \in Nat
        /\ Len(rbuf) <= Len(Incoming) /\ Len(rbuf) \in Nat
        /\ DOMAIN Incoming' = 1 .. Len(Incoming) + Len(ts)
        /\ \A i \in DOMAIN Incoming : Incoming'[i] = Incoming[i]
        /\ \A i \in DOMAIN ts : Incoming'[Len(Incoming) + i] = ts[i]
    BY <2>2, <2>5, IncomingGrows
  <2>7. 1 \in DOMAIN ts /\ 2 \in DOMAIN ts
    BY <2>3, <2>4
  <2> QED BY <2>3, <2>6, <2>7
<1>7. /\ \A i \in DOMAIN Incoming' : i \in Nat /\ (i <= n \/ i = n + 1 \/ i = n + 2)
      /\ \A i \in DOMAIN Incoming' : i <= n => Incoming'[i].t \in {"+", "-", "^C"}
      /\ Incoming'[n + 1].t = "$" /\ Incoming'[n + 1].cmd = command' /\ Incoming'[n + 2].t = "#"
      /\ n + 1 \in DOMAIN Incoming' /\ n + 2 \in DOMAIN Incoming'
  <2>1. GoodEnd.t = "#"
    BY DEF GoodEnd
  <2>2. \A i \in DOMAIN Incoming' : i <= n => i \in DOMAIN Incoming /\ Incoming'[i] = Incoming[i]
    BY <1>6
  <2> QED BY <1>4, <1>6, <2>1, <2>2
<1>8. OnePacket'
  <2>1. \A i \in DOMAIN Incoming' : Incoming'[i].t = "$" => i = n + 1
    BY <1>7
  <2>2. \A i \in DOMAIN Incoming' : Incoming'[i].t = "#" => i = n + 2
    BY <1>7
  <2>3. \A i \in DOMAIN Incoming' : Incoming'[i].t \in {"+", "-", "^C", "$", "#"}
    BY <1>7
  <2>4. (n + 1) + 1 = n + 2 /\ (n + 2) - 1 = n + 1
    OBVIOUS
  <2>5. partial' = <<>>
    BY <1>1, <1>3
  <2> QED BY <1>6, <1>7, <2>1, <2>2, <2>3, <2>4, <2>5 DEF OnePacket
<1>9. InTurn'
  <2>1. Underway'
    BY <1>7 DEF Underway
  <2> QED BY <1>1, <1>2, <1>5, <2>1 DEF InTurn
<1>10. AckFirst'
  <2> SUFFICES ASSUME server = "putpkt", NEW i \in DOMAIN Incoming', Incoming'[i].t = "$"
               PROVE  \E j \in Len(rbuf) + 1 .. i - 1 : Incoming'[j].t = "+"
    BY <1>1 DEF AckFirst
  <2>1. i = n + 1
    BY <1>7
  <2>2. PICK j \in DOMAIN Incoming : j > Len(rbuf) /\ Incoming[j].t = "+"
    BY <1>1, <1>2 DEF AckFirst
  <2> QED BY <1>6, <2>1, <2>2
<1>11. \A i \in DOMAIN s2c : ~ Answers(i)'
  <2> SUFFICES ASSUME NEW i \in DOMAIN s2c, s2c[i].t = "reply", s2c[i].re = command.id + 1
               PROVE  FALSE
    BY <1>1, <1>5 DEF Answers
  <2>1. s2c[i].re \in 1 .. own_buf.id
    BY <1>2 DEF Outgoing
  <2>2. own_buf.id = command.id
    BY <1>2
  <2> QED BY <1>2, <2>1, <2>2
<1>12. InStep'
  BY <1>1, <1>2, <1>5 DEF InStep
<1>13. Outgoing'
  <2>1. Acked => own_buf.id = 0
    BY <1>1, <1>2 DEF Outgoing
  <2>2. client_no_ack => \A i \in DOMAIN s2c : s2c[i].t # "reply"
    BY <1>1, <1>2 DEF NoAckMode
  <2>3. ASSUME NEW i \in DOMAIN s2c, NEW j \in DOMAIN s2c, s2c[i].t = "+", s2c[j].t = "reply"
        PROVE  FALSE
    <3>1. own_buf.id = 0
      BY <2>1, <2>3 DEF Acked
    <3>2. s2c[j].re \in 1 .. own_buf.id
      BY <1>2, <2>3 DEF Outgoing
    <3> QED BY <3>1, <3>2
  <2>4. Acked' <=> Acked
    BY <1>1 DEF Acked
  <2>5. client' = "reply" => client_no_ack
    BY <1>1
  <2>6. client' # "idle"
    BY <1>1
  <2>7. \A i \in DOMAIN s2c : \/ s2c[i].t = "+"
                              \/ s2c[i].t = "reply" /\ s2c[i].ok /\ s2c[i].re \in 1 .. own_buf.id
    BY <1>2 DEF Outgoing
  <2> QED BY <1>1, <1>11, <2>1, <2>2, <2>3, <2>4, <2>5, <2>6, <2>7 DEF Outgoing
<1>14. Owed'
  BY <1>1, <1>5 DEF Owed
<1>15. NoAckMode'
  <2>1. no_ack_mode => client_no_ack
    BY <1>1, <1>2 DEF NoAckMode
  <2>2. client_no_ack => client' = "reply"
    BY <1>1
  <2> QED BY <1>1, <1>2, <1>11, <2>1, <2>2 DEF NoAckMode
<1> QED BY <1>8, <1>9, <1>10, <1>12, <1>13, <1>14, <1>15 DEF LinkInv

\* The debugger takes the first of what comes.
LEMMA OutgoingRead ==
  ASSUME TypeOK, s2c # <<>>, s2c' = Tail(s2c)
  PROVE  /\ 1 \in DOMAIN s2c /\ Head(s2c) = s2c[1]
         /\ \A i \in Int : i \in DOMAIN s2c' <=> i > 0 /\ i + 1 \in DOMAIN s2c
         /\ \A i \in DOMAIN s2c' : i \in Nat \ {0} /\ i + 1 \in DOMAIN s2c /\ s2c'[i] = s2c[i + 1]
         /\ DOMAIN s2c \subseteq Nat \ {0}
<1>1. s2c \in Seq(Token)
  BY DEF TypeOK
<1>2. Len(s2c) \in Nat /\ DOMAIN s2c = 1 .. Len(s2c)
  BY <1>1, LenProperties
<1>3. /\ 1 \in DOMAIN s2c /\ Head(s2c) = s2c[1]
      /\ DOMAIN s2c' = 1 .. Len(s2c) - 1
      /\ \A i \in DOMAIN s2c' : i + 1 \in DOMAIN s2c /\ s2c'[i] = s2c[i + 1]
  BY <1>1, TailShifts
<1> QED BY <1>2, <1>3

\* Reading what comes leaves the rest of it, and what is said of all of it.
LEMMA OutgoingLess ==
  ASSUME TypeOK, Outgoing, s2c # <<>>, s2c' = Tail(s2c),
         UNCHANGED <<own_buf, command, server>>,
         client' = "ack" => client = "ack",
         client' = "reply" => client = "reply" \/ (client = "ack" /\ s2c[1].t = "+"),
         client' = "idle" => client = "reply" /\ Answers(1)
  PROVE  /\ Outgoing'
         /\ \A i \in DOMAIN s2c' : i + 1 \in DOMAIN s2c /\ i + 1 # 1 /\ (Answers(i)' <=> Answers(i + 1))
         /\ \A i \in DOMAIN s2c : i # 1 => i - 1 \in DOMAIN s2c' /\ s2c'[i - 1] = s2c[i]
         /\ \A i \in DOMAIN s2c : i # 1 /\ Answers(i) => \E j \in DOMAIN s2c' : Answers(j)'
         /\ client' = "idle" => ~ Acked'
<1>1. /\ 1 \in DOMAIN s2c
      /\ \A i \in Int : i \in DOMAIN s2c' <=> i > 0 /\ i + 1 \in DOMAIN s2c
      /\ \A i \in DOMAIN s2c' : i \in Nat \ {0} /\ i + 1 \in DOMAIN s2c /\ s2c'[i] = s2c[i + 1]
      /\ DOMAIN s2c \subseteq Nat \ {0}
  BY OutgoingRead
<1>2. ASSUME NEW i \in DOMAIN s2c'
      PROVE  i + 1 \in DOMAIN s2c /\ i + 1 # 1 /\ (Answers(i)' <=> Answers(i + 1))
  BY <1>1 DEF Answers
<1>3. ASSUME NEW i \in DOMAIN s2c, i # 1
      PROVE  /\ i - 1 \in DOMAIN s2c' /\ s2c'[i - 1] = s2c[i]
             /\ Answers(i) => Answers(i - 1)'
  <2>1. i - 1 \in Int /\ i - 1 > 0 /\ (i - 1) + 1 = i
    BY <1>1, <1>3
  <2>2. i - 1 \in DOMAIN s2c' /\ s2c'[i - 1] = s2c[i]
    BY <1>1, <2>1
  <2> QED BY <2>2 DEF Answers
<1>4. Acked' => Acked
  BY <1>1 DEF Acked
<1>5. client' = "idle" => ~ Acked'
  <2> SUFFICES ASSUME Answers(1), NEW j \in DOMAIN s2c', s2c'[j].t = "+" PROVE FALSE
    BY DEF Acked
  <2>1. j + 1 \in DOMAIN s2c /\ s2c[j + 1].t = "+" /\ j \in Nat \ {0}
    BY <1>1
  <2>2. j + 1 < 1
    BY <1>1, <2>1 DEF Outgoing
  <2> QED BY <2>1, <2>2
<1>6. \A i \in DOMAIN s2c' : \/ s2c'[i].t = "+"
                             \/ s2c'[i].t = "reply" /\ s2c'[i].ok /\ s2c'[i].re \in 1 .. own_buf.id
  BY <1>1 DEF Outgoing
<1>7. ASSUME NEW i \in DOMAIN s2c', NEW j \in DOMAIN s2c', Answers(i)', s2c'[j].t = "+"
      PROVE  j < i
  <2>1. j + 1 < i + 1
    BY <1>1, <1>2, <1>7 DEF Outgoing
  <2> QED BY <1>1, <2>1
<1>8. \A i \in DOMAIN s2c' : Answers(i)' => own_buf = command /\ server \notin {"handle", "mywait", "answer"}
  BY <1>2 DEF Outgoing
<1>9. (Pending \/ client' = "idle") /\ Acked' => own_buf.id = 0
  BY <1>4, <1>5 DEF Outgoing
<1>10. ASSUME client' \in {"reply", "idle"}, NEW i \in DOMAIN s2c', s2c'[i].t = "reply"
       PROVE  Answers(i)'
  <2>1. s2c[i + 1].t = "reply" /\ i + 1 \in DOMAIN s2c
    BY <1>1, <1>10
  <2>2. CASE client = "reply"
    BY <1>2, <2>1, <2>2 DEF Outgoing
  <2>3. CASE client = "ack" /\ s2c[1].t = "+"
    <3>1. 1 < i + 1
      BY <1>1
    <3>2. Answers(i + 1)
      BY <1>1, <2>1, <2>3, <3>1 DEF Outgoing
    <3> QED BY <1>2, <3>2
  <2> QED BY <1>10, <2>2, <2>3
<1>11. ASSUME client' = "ack", NEW i \in DOMAIN s2c', NEW j \in DOMAIN s2c',
              s2c'[i].t = "+", i < j, s2c'[j].t = "reply"
       PROVE  Answers(j)'
  <2>1. /\ i + 1 \in DOMAIN s2c /\ s2c[i + 1].t = "+" /\ j + 1 \in DOMAIN s2c
        /\ s2c[j + 1].t = "reply" /\ i + 1 < j + 1
    BY <1>1, <1>11
  <2>2. Answers(j + 1)
    BY <1>11, <2>1 DEF Outgoing
  <2> QED BY <1>2, <2>2
<1>12. Pending' <=> Pending
  BY DEF Pending
<1>13. Outgoing'
  BY <1>6, <1>7, <1>8, <1>9, <1>10, <1>11, <1>12 DEF Outgoing
<1> QED BY <1>2, <1>3, <1>5, <1>13

\* Waiting for its ack the debugger finds it, or an old reply.
LEMMA ReadsAckKeep ==
  ASSUME TypeOK, LinkInv, ClientReadsAck
  PROVE  LinkInv'
<1> USE DEF stub
<1>1. /\ client = "ack" /\ s2c # <<>> /\ s2c' = Tail(s2c)
      /\ UNCHANGED <<rbuf, partial, own_buf, server, no_ack_mode, command, client_no_ack, hung_up>>
  BY DEF ClientReadsAck
<1>2. /\ OnePacket /\ InTurn /\ AckFirst /\ InStep /\ Outgoing /\ Owed /\ NoAckMode
  BY DEF LinkInv
<1>3. 1 \in DOMAIN s2c /\ Head(s2c) = s2c[1]
  BY <1>1, OutgoingRead
<1>4. s2c[1].t = "+" \/ (s2c[1].t = "reply" /\ s2c[1].ok)
  BY <1>2, <1>3 DEF Outgoing
<1>5. /\ s2c[1].t = "+" => client' = "reply" /\ UNCHANGED c2s
      /\ s2c[1].t = "reply" => client' = "ack" /\ ToStub(<<Char("+")>>)
  BY <1>1, <1>3, <1>4 DEF ClientReadsAck
<1>6. /\ Outgoing'
      /\ \A i \in DOMAIN s2c' : i + 1 \in DOMAIN s2c /\ i + 1 # 1 /\ (Answers(i)' <=> Answers(i + 1))
      /\ \A i \in DOMAIN s2c : i # 1 => i - 1 \in DOMAIN s2c' /\ s2c'[i - 1] = s2c[i]
      /\ \A i \in DOMAIN s2c : i # 1 /\ Answers(i) => \E j \in DOMAIN s2c' : Answers(j)'
  BY <1>1, <1>2, <1>4, <1>5, OutgoingLess
<1>7. OnePacket' /\ InTurn' /\ AckFirst'
  <2>1. CASE s2c[1].t = "+"
    <3>1. Incoming' = Incoming
      BY <1>1, <1>5, <2>1 DEF Incoming
    <3> QED BY <1>1, <1>2, <1>5, <2>1, <3>1 DEF OnePacket, InTurn, AckFirst, Underway, GoodEnd
  <2>2. CASE s2c[1].t = "reply"
    BY <1>1, <1>2, <1>5, <2>2, CharacterSent
  <2> QED BY <1>4, <2>1, <2>2
<1>8. InStep'
  <2>1. s2c[1].t = "+" => (Pending => own_buf.id = 0)
    BY <1>2, <1>3 DEF Outgoing, Acked
  <2>2. Pending' <=> Pending
    BY <1>1 DEF Pending
  <2>3. client' = "reply" => s2c[1].t = "+"
    BY <1>4, <1>5
  <2>4. client' \in {"ack", "reply"}
    BY <1>4, <1>5
  <2> QED BY <1>1, <1>2, <2>1, <2>2, <2>3, <2>4 DEF InStep
<1>9. own_buf = command => \A i \in DOMAIN s2c : Answers(i) => i # 1
  <2> SUFFICES ASSUME own_buf = command, Answers(1) PROVE FALSE
    OBVIOUS
  <2>1. PICK j \in DOMAIN s2c : s2c[j].t = "+"
    BY <1>1, <1>2 DEF Owed, Acked
  <2>2. j < 1
    BY <1>2, <1>3, <2>1 DEF Outgoing
  <2> QED BY <1>1, <2>2, OutgoingRead
<1>10. Owed'
  <2>1. ASSUME client' = "ack", own_buf = command
        PROVE  Acked'
    <3>1. PICK j \in DOMAIN s2c : s2c[j].t = "+"
      BY <1>1, <1>2, <2>1 DEF Owed, Acked
    <3>2. j # 1
      BY <1>4, <1>5, <2>1, <3>1
    <3> QED BY <1>6, <3>1, <3>2 DEF Acked
  <2>2. ASSUME own_buf = command, server \in {"getpkt", "putpkt", "exited"},
               command.kind \notin {"failing", "kill", "empty"}
        PROVE  \E i \in DOMAIN s2c' : Answers(i)'
    <3>1. PICK i \in DOMAIN s2c : Answers(i)
      BY <1>1, <1>2, <2>2 DEF Owed
    <3> QED BY <1>6, <1>9, <2>2, <3>1
  <2> QED BY <1>1, <2>1, <2>2 DEF Owed
<1>11. NoAckMode'
  <2>1. ~ client_no_ack /\ client' # "idle"
    BY <1>1, <1>2, <1>4, <1>5 DEF NoAckMode
  <2>2. no_ack_mode => \A i, j \in DOMAIN s2c' : Answers(i)' /\ Answers(j)' => i = j
    <3> SUFFICES ASSUME no_ack_mode, NEW i \in DOMAIN s2c', NEW j \in DOMAIN s2c',
                        Answers(i)', Answers(j)'
                 PROVE  i = j
      OBVIOUS
    <3>1. i + 1 = j + 1
      BY <1>2, <1>6 DEF NoAckMode
    <3>2. i \in Nat /\ j \in Nat
      BY <1>1, OutgoingRead
    <3> QED BY <3>1, <3>2
  <2>3. no_ack_mode => server # "putpkt" /\ own_buf = command /\ command.kind = "noack"
    BY <1>1, <1>2, <2>1 DEF NoAckMode
  <2>4. own_buf.kind = "noack" /\ server # "handle" => no_ack_mode
    BY <1>2 DEF NoAckMode
  <2> QED BY <1>1, <2>1, <2>2, <2>3, <2>4 DEF NoAckMode
<1> QED BY <1>6, <1>7, <1>8, <1>10, <1>11 DEF LinkInv

\* Waiting for its answer the debugger finds it, or the ack of an earlier packet.
LEMMA ReadsReplyKeep ==
  ASSUME TypeOK, LinkInv, ClientReadsReply
  PROVE  LinkInv'
<1> USE DEF stub
<1>1. /\ client = "reply" /\ s2c # <<>> /\ s2c' = Tail(s2c)
      /\ UNCHANGED <<rbuf, partial, own_buf, server, no_ack_mode, command, hung_up>>
  BY DEF ClientReadsReply
<1>2. /\ OnePacket /\ InTurn /\ AckFirst /\ InStep /\ Outgoing /\ Owed /\ NoAckMode
  BY DEF LinkInv
<1>3. 1 \in DOMAIN s2c /\ Head(s2c) = s2c[1]
  BY <1>1, OutgoingRead
<1>4. s2c[1].t = "+" \/ (s2c[1].t = "reply" /\ s2c[1].ok /\ Answers(1))
  BY <1>1, <1>2, <1>3 DEF Outgoing
<1>5. CASE s2c[1].t = "+"
  <2>1. UNCHANGED <<c2s, client, client_no_ack>>
    BY <1>3, <1>5 DEF ClientReadsReply
  <2>2. /\ Outgoing'
        /\ \A i \in DOMAIN s2c' : i + 1 \in DOMAIN s2c /\ i + 1 # 1 /\ (Answers(i)' <=> Answers(i + 1))
        /\ \A i \in DOMAIN s2c : i # 1 /\ Answers(i) => \E j \in DOMAIN s2c' : Answers(j)'
    BY <1>1, <1>2, <2>1, OutgoingLess
  <2>3. Incoming' = Incoming
    BY <1>1, <2>1 DEF Incoming
  <2>4. OnePacket' /\ InTurn' /\ AckFirst'
    BY <1>1, <1>2, <2>1, <2>3 DEF OnePacket, InTurn, AckFirst, Underway, GoodEnd
  <2>5. InStep'
    BY <1>1, <1>2, <2>1 DEF InStep, Pending
  <2>6. Owed'
    <3> SUFFICES ASSUME own_buf = command, server \in {"getpkt", "putpkt", "exited"},
                        command.kind \notin {"failing", "kill", "empty"}
                 PROVE  \E i \in DOMAIN s2c' : Answers(i)'
      BY <1>1, <2>1 DEF Owed
    <3>1. PICK i \in DOMAIN s2c : Answers(i)
      BY <1>1, <1>2 DEF Owed
    <3>2. i # 1
      BY <1>5, <3>1 DEF Answers
    <3> QED BY <2>2, <3>1, <3>2
  <2>7. NoAckMode'
    <3>1. no_ack_mode => \A i, j \in DOMAIN s2c' : Answers(i)' /\ Answers(j)' => i = j
      <4> SUFFICES ASSUME no_ack_mode, NEW i \in DOMAIN s2c', NEW j \in DOMAIN s2c',
                          Answers(i)', Answers(j)'
                   PROVE  i = j
        OBVIOUS
      <4>1. i + 1 = j + 1
        BY <1>2, <2>2 DEF NoAckMode
      <4>2. i \in Nat /\ j \in Nat
        BY <1>1, OutgoingRead
      <4> QED BY <4>1, <4>2
    <3> QED BY <1>1, <1>2, <2>1, <3>1 DEF NoAckMode
  <2> QED BY <2>2, <2>4, <2>5, <2>6, <2>7 DEF LinkInv
<1>6. CASE s2c[1].t = "reply" /\ s2c[1].ok /\ Answers(1)
  <2>1. /\ client' = "idle"
        /\ client_no_ack' = (client_no_ack \/ command.kind = "noack")
        /\ IF client_no_ack THEN ToStub(<<>>) ELSE ToStub(<<Char("+")>>)
    BY <1>3, <1>6 DEF ClientReadsReply
  <2>2. /\ Outgoing' /\ ~ Acked'
        /\ \A i \in DOMAIN s2c' : i + 1 \in DOMAIN s2c /\ i + 1 # 1 /\ (Answers(i)' <=> Answers(i + 1))
    BY <1>1, <1>2, <1>6, <2>1, OutgoingLess
  <2>3. own_buf = command /\ server \notin {"handle", "mywait", "answer"}
    BY <1>2, <1>3, <1>6 DEF Outgoing
  <2>4. OnePacket' /\ InTurn' /\ AckFirst'
    <3>1. CASE client_no_ack
      <4>1. c2s \o <<>> = c2s
        BY DEF TypeOK
      <4>2. Incoming' = Incoming
        BY <1>1, <2>1, <3>1, <4>1 DEF Incoming, ToStub
      <4>3. server # "putpkt"
        BY <1>2, <3>1 DEF NoAckMode
      <4> QED BY <1>1, <1>2, <4>2, <4>3 DEF OnePacket, InTurn, AckFirst, Underway, GoodEnd
    <3>2. CASE ~ client_no_ack
      BY <1>1, <1>2, <2>1, <3>2, CharacterSent
    <3> QED BY <3>1, <3>2
  <2>5. InStep'
    BY <1>1, <1>2, <2>1, <2>3 DEF InStep
  <2>6. Owed'
    BY <2>1 DEF Owed
  <2>7. NoAckMode'
    <3>1. no_ack_mode => server # "putpkt" /\ (client_no_ack \/ command.kind = "noack")
      BY <1>1, <1>2 DEF NoAckMode
    <3>2. client_no_ack' => no_ack_mode
      BY <1>2, <2>1, <2>3 DEF NoAckMode
    <3>3. no_ack_mode => \A i \in DOMAIN s2c' : ~ Answers(i)'
      BY <1>2, <1>3, <1>6, <2>2 DEF NoAckMode
    <3>4. no_ack_mode => \A i \in DOMAIN s2c' : s2c'[i].t # "reply"
      BY <2>1, <2>2, <3>3 DEF Outgoing
    <3>5. own_buf.kind = "noack" /\ server # "handle" => no_ack_mode
      BY <1>2 DEF NoAckMode
    <3>6. no_ack_mode => client_no_ack'
      BY <2>1, <3>1
    <3> QED BY <1>1, <2>1, <3>1, <3>2, <3>3, <3>4, <3>5, <3>6 DEF NoAckMode
  <2> QED BY <2>2, <2>4, <2>5, <2>6, <2>7 DEF LinkInv
<1> QED BY <1>4, <1>5, <1>6

\* Its patience ends only when the stub has no answer to repeat, or when the
\* stub waits for the ack of one: no command is ever sent twice.
LEMMA TimesOutKeeps ==
  ASSUME TypeOK, LinkInv, ClientTimesOut
  PROVE  LinkInv' /\ (client' = "idle" => command.kind = "failing")
<1> USE DEF stub
<1>1. /\ c2s = <<>> /\ s2c = <<>>
      /\ server = "putpkt" \/ (server = "getpkt" /\ rbuf = <<>>)
      /\ UNCHANGED <<s2c, rbuf, partial, own_buf, server, no_ack_mode, command, client_no_ack, hung_up>>
  BY DEF ClientTimesOut
<1>2. /\ OnePacket /\ InTurn /\ AckFirst /\ InStep /\ Outgoing /\ Owed /\ NoAckMode
  BY DEF LinkInv
<1>3. own_buf = command
  <2>1. DOMAIN Incoming = 1 .. Len(rbuf) /\ Len(rbuf) \in Nat
    <3>1. Len(c2s) = 0
      BY <1>1
    <3> QED BY <3>1, IncomingIs
  <2>2. CASE server = "putpkt"
    <3>1. \A i \in DOMAIN Incoming : Incoming[i].t # "$"
      BY <1>2, <2>1, <2>2 DEF AckFirst
    <3>2. partial = <<>>
      BY <1>2, <2>2 DEF OnePacket
    <3> QED BY <1>2, <3>1, <3>2 DEF InTurn, Underway
  <2>3. CASE server = "getpkt" /\ rbuf = <<>>
    <3>1. DOMAIN Incoming = {}
      BY <2>1, <2>3
    <3> QED BY <1>2, <3>1 DEF OnePacket, InTurn, Underway
  <2> QED BY <1>1, <2>2, <2>3
<1>4. DOMAIN s2c = {}
  <2>1. s2c \in Seq(Token) /\ Len(s2c) = 0
    BY <1>1 DEF TypeOK
  <2> QED BY <2>1, LenProperties
<1>5. client # "ack"
  BY <1>2, <1>3, <1>4 DEF Owed, Acked
<1>6. CASE client = "reply" /\ server = "putpkt"
  <2>1. UNCHANGED client /\ ToStub(<<Char("-")>>)
    BY <1>6 DEF ClientTimesOut
  <2>2. OnePacket' /\ InTurn' /\ AckFirst'
    BY <1>1, <1>2, <2>1, CharacterSent
  <2>3. InStep' /\ Outgoing' /\ Owed' /\ NoAckMode'
    BY <1>1, <1>2, <2>1 DEF InStep, Outgoing, Owed, NoAckMode, Answers, Pending, Acked
  <2> QED BY <1>6, <2>1, <2>2, <2>3 DEF LinkInv
<1>7. CASE client = "reply" /\ server = "getpkt"
  <2>1. client' = "idle" /\ UNCHANGED c2s
    BY <1>7 DEF ClientTimesOut
  <2>2. Incoming' = Incoming
    BY <1>1, <2>1 DEF Incoming
  <2>3. OnePacket' /\ InTurn' /\ AckFirst'
    BY <1>1, <1>2, <1>7, <2>2, UntouchedLine
  <2>4. command.kind = "failing"
    <3>1. command.kind \in {"failing", "kill", "empty"}
      BY <1>2, <1>3, <1>4, <1>7 DEF Owed
    <3>2. command.kind \notin {"kill", "empty"}
      BY <1>2, <1>3, <1>7 DEF InStep
    <3> QED BY <3>1, <3>2
  <2>5. InStep' /\ Outgoing' /\ Owed'
    BY <1>1, <1>2, <1>3, <1>4, <1>7, <2>1 DEF InStep, Outgoing, Owed, Answers, Acked
  <2>6. NoAckMode'
    BY <1>1, <1>2, <1>3, <1>4, <1>7, <2>1, <2>4 DEF NoAckMode
  <2> QED BY <2>3, <2>4, <2>5, <2>6 DEF LinkInv
<1> QED BY <1>5, <1>6, <1>7 DEF ClientTimesOut

LEMMA InterruptsKeep ==
  ASSUME TypeOK, LinkInv, ClientInterrupts
  PROVE  LinkInv'
<1> USE DEF stub
<1>1. /\ UNCHANGED <<rbuf, partial, own_buf, server, command, client>>
      /\ UNCHANGED <<s2c, no_ack_mode, client_no_ack, hung_up>>
      /\ ToStub(<<Char("^C")>>)
  BY DEF ClientInterrupts
<1>2. OnePacket' /\ InTurn' /\ AckFirst'
  BY <1>1, CharacterSent DEF LinkInv
<1>3. InStep' /\ Outgoing' /\ Owed' /\ NoAckMode'
  BY <1>1 DEF LinkInv, InStep, Outgoing, Owed, NoAckMode, Answers, Pending, Acked
<1> QED BY <1>2, <1>3 DEF LinkInv

\* The debugger leaves.
LEMMA ClosesKeep ==
  ASSUME TypeOK, LinkInv, ClientHangsUp \/ ClientSeesEOF
  PROVE  LinkInv'
<1> USE DEF stub, line
<1>1. /\ client' = "closed"
      /\ UNCHANGED <<c2s, s2c, rbuf, partial, own_buf, server, no_ack_mode, command, client_no_ack>>
  BY DEF ClientHangsUp, ClientSeesEOF
<1>2. Incoming' = Incoming
  BY <1>1 DEF Incoming
<1>3. OnePacket' /\ InTurn' /\ AckFirst'
  BY <1>1, <1>2 DEF LinkInv, OnePacket, InTurn, AckFirst, Underway, GoodEnd
<1>4. InStep' /\ Outgoing' /\ Owed' /\ NoAckMode'
  BY <1>1 DEF LinkInv, InStep, Outgoing, Owed, NoAckMode, Answers, Pending, Acked
<1> QED BY <1>3, <1>4 DEF LinkInv

-----------------------------------------------------------------------------
(* The theorems.                                                           *)

\* Nothing is on its way at first but the '+' that remote_open's peer sees.
LEMMA InitInv == ASSUME Init PROVE Inv
<1>1. DOMAIN Incoming = {} /\ partial = <<>> /\ own_buf = command /\ command.id = 0
      /\ command.kind = "none"
  BY DEF Init, Incoming, NoCommand
<1>2. TypeOK
  <2>1. s2c \in Seq(Token)
    BY Written, Empty, OneToken DEF Init
  <2>2. NoCommand \in Command /\ 0 \in 0 .. MaxInterrupts /\ 0 \in 0 .. MaxNoise
    BY LinkAssumption DEF NoCommand, Command
  <2> QED BY <2>1, <2>2, Empty DEF Init, TypeOK
<1>3. \A i \in DOMAIN s2c : s2c[i].t = "+"
  BY Written DEF Init
<1>4. OnePacket /\ InTurn /\ AckFirst
  BY <1>1 DEF OnePacket, InTurn, AckFirst, Underway, Init
<1>5. InStep /\ Owed
  BY <1>1 DEF InStep, Owed, Init
<1>6. Outgoing /\ NoAckMode
  BY <1>1, <1>3 DEF Outgoing, NoAckMode, Answers, Init
<1> QED BY <1>2, <1>4, <1>5, <1>6 DEF Inv, LinkInv

\* Every step keeps the types.
LEMMA StepTypes == ASSUME TypeOK, [Next]_vars PROVE TypeOK'
<1>1. CASE StubNext
  BY <1>1, GetpktTypes, PutpktTypes DEF StubNext
<1>2. CASE InferiorStops
  BY <1>2, PutpktTypes
<1>3. CASE UNCHANGED vars
  BY <1>3 DEF vars, TypeOK
<1> QED BY <1>1, <1>2, <1>3, ClientTypes, NoiseTypes DEF Next

\* Every step of a line that loses nothing keeps the invariant.
LEMMA StepKeeps ==
  ASSUME Inv, [Next]_vars, noise' = 0
  PROVE  noise = 0 /\ LinkInv'
<1>1. TypeOK /\ TypeOK'
  BY StepTypes DEF Inv
<1>2. CASE LineNoise
  <2>1. noise \in Nat /\ noise' = noise + 1
    BY <1>1, <1>2, LinkAssumption DEF LineNoise, TypeOK
  <2> QED BY <2>1
<1>3. CASE ~ LineNoise
  <2>1. noise' = noise
    BY <1>3 DEF Next, StubNext, ClientNext, vars, ReadcharRefills, GetpktEOF, GetpktScans,
       GetpktBody, GetpktEnds, HandlePacket, PutpktWrites, PutpktReads, PutpktEOF,
       InferiorStops, ClientSends, ClientReadsAck, ClientReadsReply, ClientTimesOut,
       ClientInterrupts, ClientHangsUp, ClientSeesEOF
  <2>2. LinkInv /\ noise = 0
    BY <2>1 DEF Inv
  <2>3. CASE StubNext
    BY <1>1, <2>2, <2>3, RefillsKeep, EOFKeeps, ScansKeep, BodyNever, EndsKeep, HandleKeeps,
       WritesKeep, ReadsKeep, PutpktEOFKeeps DEF StubNext
  <2>4. CASE InferiorStops
    BY <1>1, <2>2, <2>4, StopsKeep
  <2>5. CASE ClientNext
    BY <1>1, <2>2, <2>5, SendsKeep, ReadsAckKeep, ReadsReplyKeep, TimesOutKeeps,
       InterruptsKeep, ClosesKeep DEF ClientNext
  <2>6. CASE UNCHANGED vars
    <3>1. OnePacket' /\ InTurn' /\ AckFirst'
      <4>1. Incoming' = Incoming
        BY <2>6 DEF vars, Incoming
      <4>2. OnePacket'
        BY <2>2, <2>6, <4>1 DEF vars, LinkInv, OnePacket
      <4>3. InTurn'
        BY <2>2, <2>6, <4>1 DEF vars, LinkInv, InTurn, Underway
      <4>4. AckFirst'
        BY <2>2, <2>6, <4>1 DEF vars, LinkInv, AckFirst
      <4> QED BY <4>2, <4>3, <4>4
    <3>2. InStep'
      BY <2>2, <2>6 DEF vars, LinkInv, InStep, Pending
    <3>3. Outgoing'
      BY <2>2, <2>6 DEF vars, LinkInv, Outgoing, Answers, Pending, Acked
    <3>4. Owed'
      BY <2>2, <2>6 DEF vars, LinkInv, Owed, Answers, Acked
    <3>5. NoAckMode'
      BY <2>2, <2>6 DEF vars, LinkInv, NoAckMode, Answers
    <3> QED BY <2>2, <3>1, <3>2, <3>3, <3>4, <3>5 DEF LinkInv
  <2> QED BY <1>3, <2>2, <2>3, <2>4, <2>5, <2>6 DEF Next
<1> QED BY <1>2, <1>3

\* The inductive invariant of the packet layer.
THEOREM RemoteLinkInv == Spec => []Inv
<1>1. Init => Inv
  BY InitInv
<1>2. Inv /\ [Next]_vars => Inv'
  BY StepTypes, StepKeeps DEF Inv
<1> QED BY <1>1, <1>2, PTL DEF Spec

\* Every variable keeps to its values, on a noisy line too.
THEOREM RemoteLinkType == Spec => []TypeOK
<1>1. Inv => TypeOK
  BY DEF Inv
<1> QED BY <1>1, RemoteLinkInv, PTL

\* As long as the line has lost nothing, the reply the debugger is about to take
\* is the answer to its command.
THEOREM AnswersMatchUntilNoise == Spec => [](noise = 0 => AnswersMatch)
<1>1. Inv => (noise = 0 => AnswersMatch)
  <2> SUFFICES ASSUME Inv, noise = 0, client = "reply", s2c # <<>>, Head(s2c).t = "reply"
               PROVE  Head(s2c).re = command.id
    BY DEF AnswersMatch
  <2>1. Head(s2c) = s2c[1] /\ 1 \in DOMAIN s2c
    BY TailShifts DEF Inv, TypeOK
  <2> QED BY <2>1 DEF Inv, LinkInv, Outgoing, Answers
<1> QED BY <1>1, RemoteLinkInv, PTL

\* On a TCP connection that is always so.
THEOREM AnswersAlwaysMatch == ASSUME MaxNoise = 0 PROVE Spec => []AnswersMatch
<1>1. Inv => noise = 0
  BY DEF Inv, TypeOK
<1> QED BY <1>1, AnswersMatchUntilNoise, RemoteLinkInv, PTL

\* On a TCP connection every command the stub carries out is newer than the one
\* before.
THEOREM CommandsCarriedOutOnce == ASSUME MaxNoise = 0 PROVE Spec => AtMostOnce
<1>1. ASSUME Inv, [Next]_vars
      PROVE  [server' = "handle" /\ server # "handle" => own_buf'.id > own_buf.id]_vars
  <2> SUFFICES ASSUME Next, server' = "handle", server # "handle"
               PROVE  own_buf'.id > own_buf.id
    BY <1>1 DEF vars
  <2>1. TypeOK /\ TypeOK' /\ noise = 0
    BY <1>1, StepTypes DEF Inv, TypeOK
  <2>2. LinkInv
    BY <1>1, <2>1 DEF Inv
  <2>3. GetpktEnds
    BY DEF Next, StubNext, ClientNext, ReadcharRefills, GetpktEOF, GetpktScans, GetpktBody,
       HandlePacket, PutpktWrites, PutpktReads, PutpktEOF, AfterReply, InferiorStops,
       ClientSends, ClientReadsAck, ClientReadsReply, ClientTimesOut, ClientInterrupts,
       ClientHangsUp, ClientSeesEOF, LineNoise, stub
  <2>4. own_buf' = command /\ own_buf.id < command.id
    BY <2>1, <2>2, <2>3, EndsKeep
  <2> QED BY <2>1, <2>4, Ids
<1> QED BY <1>1, RemoteLinkInv, PTL DEF Spec, AtMostOnce

\* On a TCP connection, in no-ack mode too, only a command that has no answer is
\* ever given up.
THEOREM AnswersArrive == ASSUME MaxNoise = 0 PROVE Spec => RepliesDelivered
<1>1. ASSUME Inv, [Next]_vars
      PROVE  [client = "reply" /\ client' = "idle" /\ s2c = <<>> => command.kind = "failing"]_vars
  <2> SUFFICES ASSUME Next, client = "reply", client' = "idle", s2c = <<>>
               PROVE  command.kind = "failing"
    BY <1>1 DEF vars
  <2>1. TypeOK /\ LinkInv
    BY <1>1 DEF Inv, TypeOK
  <2>2. ClientTimesOut
    BY DEF Next, StubNext, ClientNext, ReadcharRefills, GetpktEOF, GetpktScans, GetpktBody,
       GetpktEnds, HandlePacket, PutpktWrites, PutpktReads, PutpktEOF, InferiorStops,
       ClientSends, ClientReadsAck, ClientReadsReply, ClientInterrupts, ClientHangsUp,
       ClientSeesEOF, LineNoise, debugger
  <2> QED BY <2>1, <2>2, TimesOutKeeps
<1> QED BY <1>1, RemoteLinkInv, PTL DEF Spec, RepliesDelivered
=============================================================================
