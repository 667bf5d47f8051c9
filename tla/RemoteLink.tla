----------------------------- MODULE RemoteLink -----------------------------
(***************************************************************************)
(* The packet layer of the stub (getpkt, putpkt and readchar of            *)
(* remote-utils.c) with the loop that drives it (packet_loop of server.c), *)
(* talking to a debugger over a TCP connection or a noisy serial line.     *)
(*                                                                         *)
(* A packet "$body#cs" is two tokens, "$" with its command and "#" with    *)
(* what the checksum says, enough for a reader to stop in the middle of    *)
(* one; a reply is one token.  putpkt looks for its ack with a read of its *)
(* own, which does not see the characters readchar has already buffered.   *)
(***************************************************************************)
EXTENDS Integers, Sequences, SequencesExt

CONSTANTS
  Kinds,          \* the kinds of command the debugger sends
  Greeting,       \* TRUE: a TCP connection, opened with a '+'
  EndsAlone,      \* TRUE: a resumed inferior stops sooner or later by itself
  MayHangUp,      \* TRUE: the debugger may close the connection
  MaxCommands,    \* bound: commands in a session
  MaxInterrupts,  \* bound: ^C the debugger types
  MaxNoise        \* bound: tokens the line garbles or loses

\* query    answered at once
\* resume   answered when the inferior stops
\* noack    QStartNoAckMode
\* failing  ends in error(), which goes back to the loop without an answer
\* kill     the stub exits without an answer
\* empty    a packet without a body, at which the loop ends
ASSUME LinkAssumption ==
  /\ Kinds \subseteq {"query", "resume", "noack", "failing", "kill", "empty"}
  /\ {Greeting, EndsAlone, MayHangUp} \subseteq BOOLEAN
  /\ {MaxCommands, MaxInterrupts, MaxNoise} \subseteq Nat

VARIABLES
  c2s, s2c,       \* the line: a queue each way
  rbuf,           \* readchar's static buffer
  partial,        \* the packet getpkt is in the middle of, <<>> or <<packet>>
  own_buf,        \* the last command getpkt returned
  server,         \* where the stub is
  status,         \* how the inferior last stopped, "T", or "W" when it is gone
  no_ack_mode,
  sigint,         \* a SIGINT is pending for the inferior
  client,         \* "idle", "ack" or "reply" (waiting for it), "closed"
  command,        \* its last command
  client_no_ack,
  hung_up,        \* it has closed the connection
  interrupts, noise

line     == <<c2s, s2c>>
stub     == <<rbuf, partial, own_buf, server, status, no_ack_mode, sigint>>
debugger == <<client, command, client_no_ack, hung_up, interrupts>>
vars     == <<c2s, s2c, rbuf, partial, own_buf, server, status, no_ack_mode, sigint,
              client, command, client_no_ack, hung_up, interrupts, noise>>

Command    == [id : 0 .. MaxCommands, kind : Kinds \cup {"none"}]
Char(c)    == [t |-> c]
Packet(c)  == <<[t |-> "$", cmd |-> c], [t |-> "#", sum |-> "good"]>>
Reply(ok)  == [t |-> "reply", re |-> own_buf.id, ok |-> ok]
Token == [t : {"+", "-", "^C", "?"}] \cup [t : {"$"}, cmd : Command]
           \cup [t : {"#"}, sum : {"good", "bad", "nohex"}]
           \cup [t : {"reply"}, re : 0 .. MaxCommands, ok : BOOLEAN]

NoCommand == [id |-> 0, kind |-> "none"]

-----------------------------------------------------------------------------
\* remote_open: a TCP connection starts with a '+' nobody asked for.
Init ==
  /\ c2s = <<>> /\ s2c = IF Greeting THEN <<Char("+")>> ELSE <<>>
  /\ rbuf = <<>> /\ partial = <<>> /\ own_buf = NoCommand
  /\ server = "getpkt" /\ status = "T" /\ no_ack_mode = FALSE /\ sigint = FALSE
  /\ client = "idle" /\ command = NoCommand /\ client_no_ack = FALSE
  /\ hung_up = FALSE /\ interrupts = 0 /\ noise = 0

ToStub(tokens)   == c2s' = c2s \o tokens
ToClient(tokens) == s2c' = IF hung_up THEN s2c ELSE s2c \o tokens

-----------------------------------------------------------------------------
\* The stub.

\* readchar with an empty buffer: takes whatever has arrived.
ReadcharRefills ==
  /\ server = "getpkt" /\ rbuf = <<>>
  /\ \E n \in 1 .. Len(c2s) : /\ rbuf' = SubSeq(c2s, 1, n)
                              /\ c2s' = SubSeq(c2s, n + 1, Len(c2s))
  /\ UNCHANGED <<s2c, partial, own_buf, server, status, no_ack_mode, sigint, debugger, noise>>

\* readchar at end of file: getpkt returns -1, or error() and then -1, and
\* packet_loop ends.
GetpktEOF ==
  /\ server = "getpkt" /\ rbuf = <<>> /\ c2s = <<>> /\ hung_up
  /\ server' = "exited"
  /\ UNCHANGED <<line, rbuf, partial, own_buf, status, no_ack_mode, sigint, debugger, noise>>

GetpktReads == server = "getpkt" /\ rbuf # <<>> /\ rbuf' = Tail(rbuf)

\* getpkt looking for '$': anything else is discarded, ^C too.
GetpktScans ==
  /\ GetpktReads
  /\ partial = <<>>
  /\ partial' = IF Head(rbuf).t = "$" THEN <<[cmd |-> Head(rbuf).cmd, intact |-> TRUE]>>
                                      ELSE <<>>
  /\ UNCHANGED <<line, own_buf, server, status, no_ack_mode, sigint, debugger, noise>>

\* getpkt inside a packet: what comes before the '#' is body.
GetpktBody ==
  /\ GetpktReads
  /\ partial # <<>> /\ Head(rbuf).t # "#"
  /\ partial' = <<[partial[1] EXCEPT !.intact = FALSE]>>
  /\ UNCHANGED <<line, own_buf, server, status, no_ack_mode, sigint, debugger, noise>>

\* Fault for the runs to find: the test of the flag the wrong way round.
AcksReversed == no_ack_mode

AckWanted == ~ no_ack_mode

\* getpkt at the '#': a good packet is acknowledged outside no-ack mode and
\* handed on, unless it is empty, which packet_loop takes for the end of the
\* connection; a bad one is refused in either mode; a checksum that is not hex
\* ends in error(), which starts over without a word.
GetpktEnds ==
  /\ GetpktReads
  /\ partial # <<>> /\ Head(rbuf).t = "#"
  /\ partial' = <<>>
  /\ IF Head(rbuf).sum = "good" /\ partial[1].intact
     THEN /\ own_buf' = partial[1].cmd
          /\ server' = IF own_buf'.kind = "empty" THEN "exited" ELSE "handle"
          /\ ToClient(IF AckWanted THEN <<Char("+")>> ELSE <<>>)
     ELSE /\ ToClient(IF Head(rbuf).sum = "nohex" THEN <<>> ELSE <<Char("-")>>)
          /\ UNCHANGED <<own_buf, server>>
  /\ UNCHANGED <<c2s, status, no_ack_mode, sigint, debugger, noise>>

\* handle_packet: QStartNoAckMode takes effect here, before its OK is sent.
HandlePacket ==
  /\ server = "handle"
  /\ server' = CASE own_buf.kind = "resume"  -> "mywait"
                 [] own_buf.kind = "failing" -> "getpkt"
                 [] own_buf.kind = "kill"    -> "exited"
                 [] OTHER                    -> "answer"
  /\ no_ack_mode' = (no_ack_mode \/ own_buf.kind = "noack")
  /\ UNCHANGED <<line, rbuf, partial, own_buf, status, sigint, debugger, noise>>

\* waitpid returns.  The stub does not look at the line before it does.
\* (External: the inferior, which a pending SIGINT stops at once.)
InferiorStops ==
  /\ server = "mywait"
  /\ EndsAlone \/ sigint
  /\ server' = "answer"
  /\ status' \in {"T", "W"}
  /\ sigint' = FALSE
  /\ UNCHANGED <<line, rbuf, partial, own_buf, no_ack_mode, debugger, noise>>

\* Fault for the runs to find: a loop that expects to restart a program.
AfterReplyRestarts == IF status = "W" THEN "restart" ELSE "getpkt"

\* After putpkt: handle_terminated_inferior exits when the inferior is gone.
AfterReply == IF status = "W" THEN "exited" ELSE "getpkt"

\* Faults for the runs to find: an ack awaited in no-ack mode too, any character
\* taken for an ack, and a reply repeated on '-' alone.
AlwaysAwaitsAck == TRUE
AnythingAcks(tok) == TRUE
RepeatsOnNak(tok) == tok.t = "-"

\* putpkt's loop: whether an ack is awaited, what is one, and what sends the
\* reply again.
AwaitsAck    == ~ no_ack_mode
Acks(tok)    == tok.t = "+"
Repeats(tok) == tok.t # "+"

\* putpkt writes the reply; in no-ack mode that is all.  A write to a closed
\* connection may fail, which nobody looks at.
PutpktWrites ==
  /\ server = "answer"
  /\ ToClient(<<Reply(TRUE)>>)
  /\ server' \in IF AwaitsAck THEN {"putpkt"} \cup (IF hung_up THEN {AfterReply} ELSE {})
                 ELSE {AfterReply}
  /\ UNCHANGED <<c2s, rbuf, partial, own_buf, status, no_ack_mode, sigint, debugger, noise>>

\* putpkt reads one character from the line: anything but '+' sends the reply
\* again, and ^C signals the inferior besides, which is not running.
PutpktReads ==
  /\ server = "putpkt" /\ c2s # <<>>
  /\ c2s' = Tail(c2s)
  /\ sigint' = (sigint \/ Head(c2s).t = "^C")
  /\ server' = IF Acks(Head(c2s)) THEN AfterReply ELSE "putpkt"
  /\ ToClient(IF Repeats(Head(c2s)) /\ server' = "putpkt" THEN <<Reply(TRUE)>> ELSE <<>>)
  /\ UNCHANGED <<rbuf, partial, own_buf, status, no_ack_mode, debugger, noise>>

\* Fault for the runs to find: end of file taken for a missing ack.
PutpktRetriesAtEOF ==
  /\ server = "putpkt" /\ c2s = <<>> /\ hung_up
  /\ server' = "answer"
  /\ UNCHANGED <<line, rbuf, partial, own_buf, status, no_ack_mode, sigint, debugger, noise>>

\* putpkt at end of file returns -1, which nobody looks at.
PutpktEOF ==
  /\ server = "putpkt" /\ c2s = <<>> /\ hung_up
  /\ server' = AfterReply
  /\ UNCHANGED <<line, rbuf, partial, own_buf, status, no_ack_mode, sigint, debugger, noise>>

StubNext ==
  \/ ReadcharRefills \/ GetpktEOF \/ GetpktScans \/ GetpktBody \/ GetpktEnds
  \/ HandlePacket \/ PutpktWrites \/ PutpktReads \/ PutpktEOF

-----------------------------------------------------------------------------
\* The debugger: one command at a time, acknowledging as GDB does.  External.

ClientSends(kind) ==
  /\ client = "idle" /\ command.id < MaxCommands
  /\ kind = "noack" => ~ client_no_ack
  /\ command' = [id |-> command.id + 1, kind |-> kind]
  /\ ToStub(Packet(command'))
  /\ client' = IF client_no_ack THEN "reply" ELSE "ack"
  /\ UNCHANGED <<s2c, stub, client_no_ack, hung_up, interrupts, noise>>

\* Waiting for its ack: '-' sends the command again, a reply that turns up is
\* an old one, acknowledged and dropped.
ClientReadsAck ==
  /\ client = "ack" /\ s2c # <<>>
  /\ s2c' = Tail(s2c)
  /\ CASE Head(s2c).t = "+"     -> client' = "reply" /\ UNCHANGED c2s
       [] Head(s2c).t = "-"     -> client' = client /\ ToStub(Packet(command))
       [] Head(s2c).t = "reply" -> /\ client' = client
                                   /\ ToStub(<<Char(IF Head(s2c).ok THEN "+" ELSE "-")>>)
       [] OTHER                 -> UNCHANGED <<client, c2s>>
  /\ UNCHANGED <<stub, command, client_no_ack, hung_up, interrupts, noise>>

\* Waiting for the answer: the OK to QStartNoAckMode is the last it acknowledges.
ClientReadsReply ==
  /\ client = "reply" /\ s2c # <<>>
  /\ s2c' = Tail(s2c)
  /\ IF Head(s2c).t = "reply"
     THEN /\ ToStub(CASE ~ Head(s2c).ok -> <<Char("-")>>
                      [] client_no_ack  -> <<>>
                      [] OTHER          -> <<Char("+")>>)
          /\ client' = IF Head(s2c).ok THEN "idle" ELSE client
          /\ client_no_ack' = (client_no_ack \/ (Head(s2c).ok /\ command.kind = "noack"))
     ELSE UNCHANGED <<c2s, client, client_no_ack>>
  /\ UNCHANGED <<stub, command, hung_up, interrupts, noise>>

\* Nothing is under way and the stub is blocked in read: the debugger's patience
\* ends.  It sends the command again, or asks for the reply again; when the
\* stub has no reply to repeat it gives the command up.
ClientTimesOut ==
  /\ c2s = <<>> /\ s2c = <<>>
  /\ server = "putpkt" \/ (server = "getpkt" /\ rbuf = <<>>)
  /\ \/ client = "ack" /\ ToStub(Packet(command)) /\ UNCHANGED client
     \/ client = "reply" /\ server = "putpkt" /\ ToStub(<<Char("-")>>) /\ UNCHANGED client
     \/ client = "reply" /\ server = "getpkt" /\ client' = "idle" /\ UNCHANGED c2s
  /\ UNCHANGED <<s2c, stub, command, client_no_ack, hung_up, interrupts, noise>>

ClientInterrupts ==
  /\ client = "reply" /\ command.kind = "resume" /\ interrupts < MaxInterrupts
  /\ ToStub(<<Char("^C")>>)
  /\ interrupts' = interrupts + 1
  /\ UNCHANGED <<s2c, stub, client, command, client_no_ack, hung_up, noise>>

ClientHangsUp ==
  /\ MayHangUp /\ client # "closed"
  /\ client' = "closed" /\ hung_up' = TRUE
  /\ UNCHANGED <<line, stub, command, client_no_ack, interrupts, noise>>

\* The stub has closed the connection, or has been silent for too long.
ClientSeesEOF ==
  /\ client # "closed" /\ server = "exited" /\ s2c = <<>>
  /\ client' = "closed"
  /\ UNCHANGED <<line, stub, command, client_no_ack, hung_up, interrupts, noise>>

-----------------------------------------------------------------------------
\* A serial line garbles characters, or loses them.  External.
Garbled(tok) == CASE tok.t = "#"     -> {[tok EXCEPT !.sum = s] : s \in {"bad", "nohex"}}
                  [] tok.t = "reply" -> {[tok EXCEPT !.ok = FALSE]}
                  [] OTHER           -> {Char("?")}

Disturbed(queue) == {RemoveAt(queue, i) : i \in DOMAIN queue}
                      \cup UNION {{ReplaceAt(queue, i, tok) : tok \in Garbled(queue[i])}
                                    : i \in DOMAIN queue}

LineNoise ==
  /\ noise < MaxNoise /\ noise' = noise + 1
  /\ \/ c2s' \in Disturbed(c2s) /\ UNCHANGED s2c
     \/ s2c' \in Disturbed(s2c) /\ UNCHANGED c2s
  /\ UNCHANGED <<stub, debugger>>

ClientNext ==
  \/ \E kind \in Kinds : ClientSends(kind)
  \/ ClientReadsAck \/ ClientReadsReply \/ ClientTimesOut
  \/ ClientInterrupts \/ ClientHangsUp \/ ClientSeesEOF

Next == StubNext \/ InferiorStops \/ ClientNext \/ LineNoise

\* The stub is one thread that never blocks but in read and waitpid; the
\* debugger reads what arrives and does not wait for ever.
Fairness == /\ WF_vars(StubNext) /\ WF_vars(InferiorStops)
            /\ WF_vars(ClientReadsAck) /\ WF_vars(ClientReadsReply)
            /\ WF_vars(ClientTimesOut) /\ WF_vars(ClientSeesEOF)

Spec == Init /\ [][Next]_vars /\ Fairness

-----------------------------------------------------------------------------
TypeOK ==
  /\ c2s \in Seq(Token) /\ s2c \in Seq(Token) /\ rbuf \in Seq(Token)
  /\ partial \in {<<>>} \cup {<<p>> : p \in [cmd : Command, intact : BOOLEAN]}
  /\ own_buf \in Command /\ command \in Command
  /\ server \in {"getpkt", "handle", "mywait", "answer", "putpkt", "exited"}
  /\ status \in {"T", "W"}
  /\ {no_ack_mode, sigint, client_no_ack, hung_up} \subseteq BOOLEAN
  /\ client \in {"idle", "ack", "reply", "closed"}
  /\ interrupts \in 0 .. MaxInterrupts /\ noise \in 0 .. MaxNoise

\* The reply the debugger is about to take for the answer to its command is
\* the answer to that command, whatever was sent twice, lost or interrupted
\* (getpkt, putpkt).
AnswersMatch ==
  client = "reply" /\ s2c # <<>> /\ Head(s2c).t = "reply" /\ Head(s2c).ok =>
    Head(s2c).re = command.id

\* The stub never carries out a command twice, nor an old one after a newer:
\* a continue or a memory write happens once (getpkt's acks on a line that
\* loses nothing).
AtMostOnce == [][server' = "handle" /\ server # "handle" => own_buf'.id > own_buf.id]_vars

\* The debugger and the stub do not wait for each other for ever: a command is
\* answered, or abandoned, or the session ends (putpkt's wait for an ack,
\* getpkt's wait for a packet, the switch to no-ack mode).
NeverStuck == client \in {"ack", "reply"} ~> client \in {"idle", "closed"}

\* A reply that the line loses or garbles is repeated until the debugger has
\* it: only a command that has no answer is ever given up (putpkt's loop).
RepliesDelivered ==
  [][client = "reply" /\ client' = "idle" /\ s2c = <<>> => command.kind = "failing"]_vars

\* When the debugger hangs up the stub ends, wherever it was (the EOF paths of
\* getpkt and putpkt).
EndsOnHangUp == hung_up ~> server = "exited"

\* While the inferior runs a ^C reaches it and stops it (remote-utils.c:432).
InterruptStops ==
  server = "mywait" /\ (\E i \in DOMAIN c2s : c2s[i].t = "^C") ~> server # "mywait"

\* The OK to QStartNoAckMode is acknowledged like any reply before the stub
\* goes on (server.c:260, remote-utils.c:45).
NoAckReplyAcked ==
  [][own_buf.kind = "noack" /\ server # "getpkt" /\ server' = "getpkt" =>
       server = "putpkt" /\ c2s # <<>> /\ Head(c2s).t = "+"]_vars
=============================================================================
