--------------------------- MODULE SessionProofs ---------------------------
(***************************************************************************)
(* Proofs about Session for every program, entry point, set of sites and   *)
(* number of interrupts: the safety properties, from one inductive         *)
(* invariant.                                                              *)
(***************************************************************************)
EXTENDS Session, SequenceLemmas

-----------------------------------------------------------------------------
(* The inductive invariant.                                                *)

Token        == Request \cup [t : {"+", "^C"}]
IsRequest(tok) == tok.t \notin {"+", "^C"}
Asked        == \E i \in DOMAIN line : IsRequest(line[i])
Acked        == \E i \in DOMAIN out : out[i].t = "+"

\* Until remote_open returns there is no connection to use.
Starting == {"start", "exec", "attach", "entry", "to entry", "open"}
Unopened ==
  server \in Starting =>
    /\ line = <<>> /\ out = <<>> /\ client = "closed" /\ ~ hung_up
    /\ planted = {} /\ own_buf = Blank

\* remote_open's greeting is still to be read, or has been taken for the ack
\* of a request that the stub has not read.
Greeted == \/ client = "idle" /\ Acked
           \/ Asked /\ (Acked \/ client = "reply")

\* That can only be the debugger's first request.
GreetedFirst ==
  Greeted => /\ server = "getpkt" /\ own_buf = Blank
             /\ \A i \in DOMAIN out : i = 1
             /\ client = "reply" => DOMAIN out = {}

\* A debugger that has hung up does nothing more.
Left == hung_up => client = "closed"

\* The debugger has at most one request on its way.
OneRequest ==
  /\ \A i, j \in DOMAIN line : IsRequest(line[i]) /\ IsRequest(line[j]) => i = j
  /\ client = "idle" => ~ Asked

\* An ack on its way is the one the debugger waits for, or it comes first:
\* the greeting, or the ack that the greeting has been taken for.
Acks ==
  /\ client \in {"idle", "reply"} => \A i \in DOMAIN out : out[i].t = "+" => i = 1
  /\ client = "ack" => \A i, j \in DOMAIN out :
                         out[i].t = "+" /\ out[j].t = "+" => i = j \/ (i \in {1, 2} /\ j \in {1, 2})

\* A ^C behind a request is behind a resumption.
NoneBehind ==
  \A i, j \in DOMAIN line : IsRequest(line[i]) /\ i < j /\ line[j].t = "^C" => Resumes(line[i].t)

\* The debugger's breakpoints are those of the list, but for the request on
\* its way, which is polite.
ListsAgree ==
  server \in {"getpkt", "mywait", "answer", "putpkt"} =>
    /\ (\A i \in DOMAIN line : line[i].t \notin {"Z0", "z0"}) => Planted = planted
    /\ \A i \in DOMAIN line :
         /\ line[i].t = "Z0" => line[i].where \notin Planted /\ planted = Planted \cup {line[i].where}
         /\ line[i].t = "z0" => planted = Planted \ {line[i].where}
         /\ line[i].t = "D"  => planted = {}

\* While the stub works on a request the debugger waits for the reply to it.
Awaited ==
  server \in {"mywait", "answer"} =>
    /\ ~ Asked /\ client # "idle"
    /\ client = "reply" => \A i \in DOMAIN out : out[i].t = "+"
    /\ client = "ack" => \A i, j \in DOMAIN out : out[i].t = "+" /\ i < j => out[j].t = "+"

\* A debugger that has the reply has acknowledged it before it asks again, so
\* that putpkt never takes a request for an ack.
AckAhead ==
  server = "putpkt" =>
    /\ client = "idle" => \E i \in DOMAIN line : line[i].t = "+"
    /\ \A j \in DOMAIN line : IsRequest(line[j]) => \E i \in DOMAIN line : i < j /\ line[i].t = "+"

\* Once the thread is freed only the reply to D is left to do, and no ^C can
\* meet it.
FreedLast ==
  current_inferior = "freed" =>
    /\ server \in {"answer", "putpkt", "last", "exited"}
    /\ server \in {"answer", "putpkt"} =>
         own_buf.to = "D" /\ \A i \in DOMAIN line : line[i].t # "^C"

\* One breakpoint per location; as long as there is a process its traps are
\* those of the list, with the instructions saved.  Once the stub listens, its
\* own is none of them.
Listed(bps, m) ==
  /\ \A a \in 0 .. End : m[a] = IF \E i \in DOMAIN bps : bps[i].pc = a THEN "trap" ELSE "insn"
  /\ \A i \in DOMAIN bps : bps[i].old = "insn"
Distinct(bps) == \A i, j \in DOMAIN bps : bps[i].pc = bps[j].pc => i = j
TrapsListed ==
  /\ Distinct(breakpoints)
  /\ life \notin {"zombie", "reaped"} => Listed(breakpoints, mem)
  /\ server \in {"start", "exec", "attach", "entry", "open"} => breakpoints = <<>>
  /\ server = "to entry" => Planted = {Entry}

\* The stub works on a process that has stopped, and knows how.
Waits ==
  /\ server \in {"entry", "open", "getpkt", "answer", "putpkt"} =>
       life \notin {"none", "running", "trapped"}
  /\ server = "start" => life \in IF attached THEN {"running", "zombie"} ELSE {"none"}
  /\ life = "free" => current_inferior = "freed" /\ breakpoints = <<>>
  /\ life = "trapped" => event.how = "T"
  /\ life = "zombie" => Gone(event)

\* StatusTruthful, from the first wait to the last.
StatusKept ==
  /\ server \in {"entry", "to entry", "open", "getpkt", "mywait", "answer", "putpkt"}
  /\ current_inferior = "live"
  => (Gone(status) <=> life = "reaped")

LineInv    == /\ Unopened /\ GreetedFirst /\ Left /\ OneRequest /\ Acks /\ NoneBehind
              /\ Awaited /\ AckAhead /\ ListsAgree
ProcessInv == FreedLast /\ TrapsListed /\ Waits /\ StatusKept /\ TrapsExplained
Inv        == TypeOK /\ LineInv /\ ProcessInv /\ InterruptsOnce

-----------------------------------------------------------------------------
\* The fields of what the debugger sends and of what it is sent.
LEMMA TokenTypes ==
  ASSUME NEW tok \in Token
  PROVE  /\ tok.t \in (Types \cup {"+", "^C"})
         /\ tok.t \in {"Z0", "z0"} => tok.where \in 0 .. End
BY SessionAssumption DEF Token, Request, Types

\* The lists and queues of the state.
LEMMA QueueTypes ==
  ASSUME TypeOK
  PROVE  /\ breakpoints \in Seq(Breakpoint)
         /\ line \in Seq(Token)
         /\ out \in Seq(Reply \cup [t : {"+"}])
BY DEF TypeOK, Token

\* How many ^C are unread is a number.
LEMMA UnreadType ==
  ASSUME TypeOK
  PROVE  /\ Unread \in Nat /\ unanswered \in 0 .. MaxInterrupts
         /\ IsFiniteSet({i \in DOMAIN line : line[i].t = "^C"})
<1>1. DOMAIN line = 1 .. Len(line) /\ Len(line) \in Nat
  BY LenProperties DEF TypeOK
<1>2. IsFiniteSet(1 .. Len(line))
  BY <1>1, FS_Interval
<1>3. IsFiniteSet({i \in DOMAIN line : line[i].t = "^C"})
  BY <1>1, <1>2, FS_Subset
<1>4. unanswered \in 0 .. MaxInterrupts
  BY DEF TypeOK
<1> QED BY <1>3, <1>4, FS_CardinalityType DEF Unread

\* The stub reads one token.
LEMMA LineRead ==
  ASSUME TypeOK, line # <<>>, line' = Tail(line)
  PROVE  /\ Head(line) \in Token /\ Head(line) = line[1] /\ 1 \in DOMAIN line
         /\ line' \in Seq(Token)
         /\ \A i \in DOMAIN line' : i \in Nat /\ i + 1 \in DOMAIN line /\ i + 1 # 1 /\ line'[i] = line[i + 1]
         /\ \A i \in DOMAIN line : i \in Nat /\ i >= 1
         /\ \A i \in DOMAIN line : i = 1 \/ (i - 1 \in DOMAIN line' /\ line'[i - 1] = line[i])
         /\ Unread' = Unread - (IF Head(line).t = "^C" THEN 1 ELSE 0)
<1> DEFINE I == {i \in DOMAIN line : line[i].t = "^C"}
           J == {i \in DOMAIN line' : line'[i].t = "^C"}
<1>1. line \in Seq(Token)
  BY QueueTypes
<1>2. /\ Head(line) \in Token /\ Head(line) = line[1] /\ 1 \in DOMAIN line
      /\ line' \in Seq(Token)
      /\ DOMAIN line = 1 .. Len(line) /\ Len(line) \in Nat
      /\ DOMAIN line' = 1 .. Len(line) - 1
      /\ \A i \in DOMAIN line' : i + 1 \in DOMAIN line /\ line'[i] = line[i + 1]
  BY <1>1, TailShifts, LenProperties
<1>3. I \in SUBSET Int /\ IsFiniteSet(I) /\ Cardinality(I) = Unread /\ Unread \in Nat
  BY <1>2, UnreadType DEF Unread
<1>4. IsFiniteSet(I \ {1}) /\ Cardinality(I \ {1}) = IF 1 \in I THEN Unread - 1 ELSE Unread
  BY <1>3, FS_RemoveElement
<1>5. J = {i - 1 : i \in I \ {1}}
  <2>1. ASSUME NEW j \in J
        PROVE  j + 1 \in I \ {1} /\ j = (j + 1) - 1
    BY <1>2
  <2>2. ASSUME NEW i \in I \ {1}
        PROVE  i - 1 \in J
    <3>1. i - 1 \in DOMAIN line' /\ (i - 1) + 1 = i
      BY <1>2
    <3> QED BY <1>2, <3>1
  <2> QED BY <2>1, <2>2
<1>6. Cardinality(J) = Cardinality(I \ {1})
  BY <1>3, <1>4, <1>5, ShiftCounts
<1>7. Unread' = Cardinality(J) /\ (1 \in I <=> Head(line).t = "^C")
  BY <1>2 DEF Unread
<1> HIDE DEF I, J
<1>8. Unread' = Unread - (IF Head(line).t = "^C" THEN 1 ELSE 0)
  BY <1>3, <1>4, <1>6, <1>7
<1>9. ASSUME NEW i \in DOMAIN line, i # 1
      PROVE  i - 1 \in DOMAIN line' /\ line'[i - 1] = line[i]
  <2>1. i - 1 \in DOMAIN line' /\ (i - 1) + 1 = i
    BY <1>2, <1>9
  <2> QED BY <1>2, <2>1
<1> QED BY <1>2, <1>8, <1>9

\* The debugger sends one token.
LEMMA LineWritten ==
  ASSUME TypeOK, NEW tok \in Token, line' = Append(line, tok)
  PROVE  /\ line' \in Seq(Token) /\ Len(line) \in Nat
         /\ DOMAIN line = 1 .. Len(line) /\ DOMAIN line' = 1 .. Len(line) + 1
         /\ \A i \in DOMAIN line : i \in DOMAIN line' /\ line'[i] = line[i]
         /\ line'[Len(line) + 1] = tok
         /\ \A i \in DOMAIN line' : i \in DOMAIN line \/ i = Len(line) + 1
         /\ Unread' = Unread + (IF tok.t = "^C" THEN 1 ELSE 0)
<1> DEFINE I == {i \in DOMAIN line : line[i].t = "^C"}
           J == {i \in DOMAIN line' : line'[i].t = "^C"}
           n == Len(line) + 1
<1>1. line \in Seq(Token)
  BY QueueTypes
<1>2. /\ line' \in Seq(Token) /\ line' # <<>>
      /\ DOMAIN line = 1 .. Len(line) /\ Len(line) \in Nat
      /\ DOMAIN line' = 1 .. n
      /\ \A i \in DOMAIN line : line'[i] = line[i]
      /\ line'[n] = tok
  BY <1>1, AppendGrows
<1>3. IsFiniteSet(I) /\ Cardinality(I) = Unread /\ Unread \in Nat
  BY UnreadType DEF Unread
<1>4. n \notin I /\ n \notin DOMAIN line
  BY <1>2
<1>5. J = IF tok.t = "^C" THEN I \cup {n} ELSE I
  BY <1>2, <1>4
<1>6. Cardinality(I \cup {n}) = Unread + 1
  BY <1>3, <1>4, FS_AddElement
<1>7. Unread' = Cardinality(J)
  BY DEF Unread
<1> HIDE DEF I, J
<1>8. Unread' = Unread + (IF tok.t = "^C" THEN 1 ELSE 0)
  BY <1>3, <1>5, <1>6, <1>7
<1> QED BY <1>2, <1>8

\* The stub sends a reply or an ack, the debugger reads one.
LEMMA OutWritten ==
  ASSUME TypeOK, NEW msg \in (Reply \cup [t : {"+"}]), ToClient(msg)
  PROVE  /\ out' \in Seq(Reply \cup [t : {"+"}])
         /\ Len(out) \in Nat /\ DOMAIN out = 1 .. Len(out)
         /\ \A i \in DOMAIN out' : \/ i \in DOMAIN out /\ out'[i] = out[i]
                                   \/ i = Len(out) + 1 /\ out'[i] = msg
<1> DEFINE S == Reply \cup [t : {"+"}]
<1>1. out \in Seq(S) /\ Len(out) \in Nat /\ DOMAIN out = 1 .. Len(out)
  BY QueueTypes, LenProperties
<1> HIDE DEF S
<1>2. CASE hung_up
  BY <1>1, <1>2 DEF ToClient, S
<1>3. CASE ~ hung_up
  <2>1. out' = Append(out, msg) /\ msg \in S
    BY <1>3 DEF ToClient, S
  <2>2. /\ out' \in Seq(S) /\ DOMAIN out' = 1 .. Len(out) + 1
        /\ \A i \in DOMAIN out : out'[i] = out[i]
        /\ out'[Len(out) + 1] = msg
    BY <1>1, <2>1, AppendGrows
  <2>3. \A i \in DOMAIN out' : i \in DOMAIN out \/ i = Len(out) + 1
    BY <1>1, <2>2
  <2> QED BY <1>1, <2>2, <2>3 DEF S
<1> QED BY <1>2, <1>3 DEF S

\* The debugger reads one.
LEMMA OutRead ==
  ASSUME TypeOK, out # <<>>, out' = Tail(out)
  PROVE  /\ Head(out) \in (Reply \cup [t : {"+"}]) /\ Head(out) = out[1] /\ 1 \in DOMAIN out
         /\ out' \in Seq(Reply \cup [t : {"+"}])
         /\ \A i \in DOMAIN out' : i \in Nat /\ i + 1 \in DOMAIN out /\ i + 1 # 1 /\ out'[i] = out[i + 1]
<1> DEFINE S == Reply \cup [t : {"+"}]
<1>1. out \in Seq(S)
  BY QueueTypes
<1> HIDE DEF S
<1>2. /\ Head(out) \in S /\ Head(out) = out[1] /\ 1 \in DOMAIN out
      /\ out' \in Seq(S) /\ DOMAIN out' = 1 .. Len(out) - 1 /\ Len(out) \in Nat
      /\ \A i \in DOMAIN out' : i + 1 \in DOMAIN out /\ out'[i] = out[i + 1]
  BY <1>1, TailShifts, LenProperties
<1>3. \A i \in DOMAIN out' : i \in Nat /\ i + 1 # 1
  BY <1>2
<1> QED BY <1>2, <1>3 DEF S

-----------------------------------------------------------------------------
(* Breakpoints and the traps in memory.                                    *)

\* Planting keeps list and memory together.
LEMMA SetBreakpointAtInv ==
  ASSUME TypeOK, TrapsListed, life # "none",
         NEW where \in 0 .. End, where \notin Planted, SetBreakpointAt(where)
  PROVE  /\ breakpoints' \in Seq(Breakpoint) /\ breakpoints' # <<>>
         /\ mem' \in [0 .. End -> {"insn", "trap"}]
         /\ Planted' = Planted \cup {where}
         /\ Distinct(breakpoints')
         /\ life \notin {"zombie", "reaped"} => Listed(breakpoints', mem')
<1> DEFINE bp == [pc |-> where, old |-> Contents(where)]
           n  == Len(breakpoints)
<1>1. Contents(where) \in {"insn", "trap", "zero"}
  BY DEF Contents, TypeOK
<1>2. bp \in Breakpoint /\ bp.pc = where /\ bp.old = Contents(where)
  BY <1>1 DEF Breakpoint
<1>3. breakpoints' = <<bp>> \o breakpoints /\ mem' = Written(where, "trap")
  BY DEF SetBreakpointAt
<1> HIDE DEF bp
<1>4. /\ breakpoints' \in Seq(Breakpoint)
      /\ DOMAIN breakpoints = 1 .. n /\ n \in Nat
      /\ DOMAIN breakpoints' = 1 .. n + 1 /\ Len(breakpoints') = n + 1
      /\ \A j \in 1 .. n + 1 : breakpoints'[j] = IF j = 1 THEN bp ELSE breakpoints[j - 1]
  BY <1>2, <1>3, QueueTypes, PushShifts, LenProperties
<1>5. breakpoints' # <<>>
  BY <1>4, EmptySeq
<1>6. mem' \in [0 .. End -> {"insn", "trap"}]
  BY <1>3 DEF Written, TypeOK
<1>7. /\ breakpoints'[1] = bp
      /\ \A j \in DOMAIN breakpoints : j + 1 \in DOMAIN breakpoints' /\ breakpoints'[j + 1] = breakpoints[j]
      /\ \A j \in DOMAIN breakpoints' : j = 1 \/ (j - 1 \in DOMAIN breakpoints /\ breakpoints'[j] = breakpoints[j - 1])
  BY <1>4
<1>8. Planted' = Planted \cup {where}
  BY <1>2, <1>4, <1>7 DEF Planted
<1>9. Distinct(breakpoints')
  <2>1. SUFFICES ASSUME NEW j \in DOMAIN breakpoints', NEW k \in DOMAIN breakpoints',
                        breakpoints'[j].pc = breakpoints'[k].pc
                 PROVE  j = k
    BY DEF Distinct
  <2>2. CASE j = 1 \/ k = 1
    BY <1>2, <1>7, <2>1, <2>2 DEF Planted
  <2>3. CASE j # 1 /\ k # 1
    <3>1. Distinct(breakpoints)
      BY DEF TrapsListed
    <3>2. j - 1 = k - 1
      BY <1>7, <2>1, <2>3, <3>1 DEF Distinct
    <3> QED BY <1>4, <3>2
  <2> QED BY <2>2, <2>3
<1>10. ASSUME life \notin {"zombie", "reaped"}
       PROVE  Listed(breakpoints', mem')
  <2>1. Alive /\ Listed(breakpoints, mem)
    BY <1>10 DEF Alive, TrapsListed, TypeOK, Lives
  <2>2. Contents(where) = "insn"
    BY <2>1 DEF Contents, Listed, Planted
  <2>3. \A i \in DOMAIN breakpoints' : breakpoints'[i].old = "insn"
    BY <1>2, <1>7, <2>1, <2>2 DEF Listed
  <2>4. mem' = [mem EXCEPT ![where] = "trap"]
    BY <1>3, <2>1 DEF Written
  <2>5. \A a \in 0 .. End : (\E i \in DOMAIN breakpoints' : breakpoints'[i].pc = a)
                              <=> (a = where \/ \E i \in DOMAIN breakpoints : breakpoints[i].pc = a)
    BY <1>8 DEF Planted
  <2> QED BY <2>1, <2>3, <2>4, <2>5 DEF Listed, TypeOK
<1> QED BY <1>4, <1>5, <1>6, <1>8, <1>9, <1>10

\* Lifting does.
LEMMA DeleteBreakpointAtInv ==
  ASSUME TypeOK, TrapsListed, life # "none",
         NEW where \in 0 .. End, DeleteBreakpointAt(where)
  PROVE  /\ breakpoints' \in Seq(Breakpoint)
         /\ mem' \in [0 .. End -> {"insn", "trap"}]
         /\ Planted' = Planted \ {where}
         /\ Distinct(breakpoints')
         /\ life \notin {"zombie", "reaped"} => Listed(breakpoints', mem')
         /\ breakpoints = <<>> => breakpoints' = <<>>
<1> DEFINE n == Len(breakpoints)
<1>1. CASE where \notin Planted
  BY <1>1 DEF DeleteBreakpointAt, TypeOK, TrapsListed, Planted
<1>2. CASE where \in Planted
  <2>1. PICK i \in DOMAIN breakpoints :
          /\ breakpoints[i].pc = where
          /\ breakpoints' = RemoveAt(breakpoints, i)
          /\ mem' = Written(where, breakpoints[i].old)
    BY <1>2 DEF DeleteBreakpointAt
  <2> DEFINE was(j) == IF j < i THEN j ELSE j + 1
  <2>2. /\ breakpoints' \in Seq(Breakpoint)
        /\ DOMAIN breakpoints = 1 .. n /\ n \in Nat
        /\ DOMAIN breakpoints' = 1 .. n - 1
        /\ \A j \in 1 .. n - 1 : breakpoints'[j] = breakpoints[was(j)]
    <3>1. breakpoints \in Seq(Breakpoint)
      BY QueueTypes
    <3>2. DOMAIN breakpoints = 1 .. n /\ n \in Nat
      BY <3>1, LenProperties
    <3>3. /\ RemoveAt(breakpoints, i) \in Seq(Breakpoint)
          /\ Len(RemoveAt(breakpoints, i)) = n - 1
          /\ \A j \in 1 .. n - 1 :
               RemoveAt(breakpoints, i)[j] = IF j < i THEN breakpoints[j] ELSE breakpoints[j + 1]
      <4>1. i \in 1 .. Len(breakpoints)
        BY <2>1, <3>2
      <4> QED BY <3>1, <4>1, RemoveAtShifts
    <3>4. DOMAIN RemoveAt(breakpoints, i) = 1 .. n - 1
      BY <3>3, LenProperties
    <3>5. \A j \in 1 .. n - 1 : RemoveAt(breakpoints, i)[j] = breakpoints[was(j)]
      BY <3>3
    <3> HIDE DEF was
    <3> QED BY <2>1, <3>1, <3>2, <3>3, <3>4, <3>5
  <2>3. \A j \in DOMAIN breakpoints' :
          was(j) \in DOMAIN breakpoints /\ was(j) # i /\ breakpoints'[j] = breakpoints[was(j)]
    BY <2>2
  <2>4. ASSUME NEW k \in DOMAIN breakpoints, k # i
        PROVE  \E j \in DOMAIN breakpoints' : was(j) = k
    <3>1. CASE k < i
      BY <2>2, <2>4, <3>1
    <3>2. CASE ~ (k < i)
      <4>1. k - 1 \in DOMAIN breakpoints' /\ was(k - 1) = k
        BY <2>2, <2>4, <3>2
      <4> QED BY <4>1
    <3> QED BY <3>1, <3>2
  <2>5. \A j, k \in DOMAIN breakpoints' : was(j) = was(k) => j = k
    BY <2>2
  <2> HIDE DEF was
  <2>6. Planted' = Planted \ {where}
    <3>1. Distinct(breakpoints)
      BY DEF TrapsListed
    <3> QED BY <2>1, <2>3, <2>4, <3>1 DEF Planted, Distinct
  <2>7. Distinct(breakpoints')
    BY <2>3, <2>5 DEF TrapsListed, Distinct
  <2>8. /\ life \notin {"zombie", "reaped"} => Listed(breakpoints', mem')
        /\ mem' \in [0 .. End -> {"insn", "trap"}]
    <3>1. CASE life \in {"zombie", "reaped"}
      BY <2>1, <3>1 DEF Written, Alive, TypeOK
    <3>2. CASE life \notin {"zombie", "reaped"}
      <4>1. Alive /\ Listed(breakpoints, mem)
        BY <3>2 DEF Alive, TrapsListed, TypeOK, Lives
      <4>2. breakpoints[i].old = "insn" /\ mem' = [mem EXCEPT ![where] = "insn"]
        BY <2>1, <4>1 DEF Listed, Written
      <4>3. \A k \in DOMAIN breakpoints' : breakpoints'[k].old = "insn"
        BY <2>3, <4>1 DEF Listed
      <4>4. \A a \in 0 .. End : (\E k \in DOMAIN breakpoints' : breakpoints'[k].pc = a)
                                  <=> (a # where /\ \E k \in DOMAIN breakpoints : breakpoints[k].pc = a)
        BY <2>6 DEF Planted
      <4> QED BY <4>1, <4>2, <4>3, <4>4 DEF Listed, TypeOK
    <3> QED BY <3>1, <3>2
  <2>9. breakpoints # <<>>
    BY <2>1, <2>2, EmptySeq
  <2> QED BY <2>2, <2>6, <2>7, <2>8, <2>9
<1> QED BY <1>1, <1>2

\* A list that plants nothing is empty.
LEMMA NonePlanted ==
  ASSUME breakpoints \in Seq(Breakpoint), Planted = {}
  PROVE  breakpoints = <<>>
<1>1. breakpoints # <<>> => 1 \in DOMAIN breakpoints
  BY TailShifts
<1> QED BY <1>1 DEF Planted

-----------------------------------------------------------------------------
\* The connection, by what a step does with it.

\* Before remote_open returns nothing is.
LEMMA NotYetOpen ==
  ASSUME Inv, server \in Starting, server' \in Starting \cup {"exited"},
         UNCHANGED <<line, out, client, planted, hung_up, own_buf>>
  PROVE  LineInv' /\ Unread' = Unread
<1>1. /\ line = <<>> /\ out = <<>> /\ client = "closed" /\ ~ hung_up /\ planted = {}
      /\ own_buf = Blank /\ own_buf' = own_buf
      /\ line' = line /\ out' = out /\ client' = client /\ planted' = planted /\ hung_up' = hung_up
  BY DEF Inv, LineInv, Unopened
<1>2. ~ Asked' /\ ~ Acked'
  BY <1>1 DEF Asked, Acked
<1>3. Unopened' /\ GreetedFirst' /\ Left' /\ OneRequest' /\ Acks' /\ NoneBehind'
  BY <1>1, <1>2 DEF Unopened, GreetedFirst, Greeted, Left, OneRequest, Acks, NoneBehind
<1>4. Awaited' /\ AckAhead' /\ ListsAgree'
  BY DEF Starting, Awaited, AckAhead, ListsAgree
<1>5. Unread' = Unread
  BY <1>1 DEF Unread
<1> QED BY <1>3, <1>4, <1>5 DEF LineInv

\* packet_loop goes on, or ends, with nothing sent or read.
LEMMA LineQuiet ==
  ASSUME Inv, UNCHANGED <<line, out, client, planted, hung_up>>, Planted' = Planted,
         \/ server = "getpkt" /\ line = <<>> /\ hung_up /\ server' = "exited"
         \/ server = "mywait" /\ server' \in {"answer", "getpkt", "exited"}
         \/ server = "putpkt" /\ server' \in {"getpkt", "last", "exited"}
         \/ server \in {"kill", "last"} /\ server' = "exited"
  PROVE  LineInv' /\ Unread' = Unread
<1>1. /\ line' = line /\ out' = out /\ client' = client /\ planted' = planted /\ hung_up' = hung_up
      /\ LineInv
  BY DEF Inv
<1>2. (Asked' <=> Asked) /\ (Acked' <=> Acked) /\ Unread' = Unread
  BY <1>1 DEF Asked, Acked, Unread
<1>3. ~ Greeted
  <2>1. CASE server = "getpkt"
    BY <1>1, <2>1 DEF LineInv, Greeted, Left, Asked
  <2>2. CASE server # "getpkt"
    BY <1>1, <2>2 DEF LineInv, GreetedFirst
  <2> QED BY <2>1, <2>2
<1>4. GreetedFirst'
  BY <1>1, <1>2, <1>3 DEF GreetedFirst, Greeted
<1>5. Unopened' /\ Left' /\ OneRequest'
  <2>1. server' \notin Starting
    BY DEF Starting
  <2>2. Unopened'
    BY <2>1 DEF Unopened
  <2>3. Left'
    BY <1>1, <1>2 DEF LineInv, Left
  <2>4. OneRequest'
    BY <1>1, <1>2 DEF LineInv, OneRequest
  <2> QED BY <2>2, <2>3, <2>4
<1>6. Acks' /\ NoneBehind'
  <2>1. Acks'
    BY <1>1 DEF LineInv, Acks
  <2>2. NoneBehind'
    BY <1>1 DEF LineInv, NoneBehind
  <2> QED BY <2>1, <2>2
<1>7. Awaited' /\ AckAhead'
  BY <1>1, <1>2 DEF LineInv, Awaited, AckAhead
<1>8. ListsAgree'
  BY <1>1 DEF LineInv, ListsAgree
<1> QED BY <1>2, <1>4, <1>5, <1>6, <1>7, <1>8 DEF LineInv

\* getpkt takes the request, the only one, and acknowledges it.  What it asks
\* of the list is what the debugger counts on.
LEMMA RequestTaken ==
  ASSUME Inv, NEW types \in SUBSET Types, Received(types),
         UNCHANGED <<client, planted, hung_up>>, server' \in {"answer", "mywait", "kill"}
  PROVE  /\ Head(line) \in Token /\ server = "getpkt" /\ Head(line).t \in types
         /\ own_buf' \in Reply /\ own_buf'.to = Head(line).t
         /\ line' \in Seq(Token) /\ out' \in Seq(Reply \cup [t : {"+"}])
         /\ Head(line).t = "D" => planted = {} /\ \A i \in DOMAIN line' : line'[i].t # "^C"
         /\ Head(line).t = "Z0" => /\ Head(line).where \notin Planted
                                   /\ planted = Planted \cup {Head(line).where}
         /\ Head(line).t = "z0" => planted = Planted \ {Head(line).where}
         /\ Head(line).t \notin {"Z0", "z0"} => planted = Planted
         /\ Planted' = planted => LineInv'
         /\ Unread' = Unread
<1>1. /\ TypeOK /\ LineInv /\ server = "getpkt" /\ line # <<>> /\ line' = Tail(line)
      /\ Head(line).t \in types /\ ToClient(Char("+"))
      /\ own_buf' = [t |-> "reply", to |-> Head(line).t, status |-> status]
  BY DEF Inv, Received
<1>2. /\ Head(line) \in Token /\ Head(line) = line[1] /\ 1 \in DOMAIN line
      /\ line' \in Seq(Token)
      /\ \A i \in DOMAIN line' : i \in Nat /\ i + 1 \in DOMAIN line /\ i + 1 # 1 /\ line'[i] = line[i + 1]
      /\ Unread' = Unread - (IF Head(line).t = "^C" THEN 1 ELSE 0)
  BY <1>1, LineRead
<1>3. IsRequest(line[1]) /\ Head(line).t # "^C" /\ Asked /\ Unread' = Unread
  <2>1. IsRequest(line[1]) /\ Head(line).t # "^C"
    BY <1>1, <1>2 DEF IsRequest, Types
  <2>2. Unread \in Nat
    BY <1>1, UnreadType
  <2> QED BY <1>2, <2>1, <2>2 DEF Asked
<1>4. \A i \in DOMAIN line' : ~ IsRequest(line'[i])
  <2>1. ASSUME NEW i \in DOMAIN line' PROVE ~ IsRequest(line'[i])
    BY <1>1, <1>2, <1>3 DEF LineInv, OneRequest
  <2> QED BY <2>1
<1>5. ASSUME Head(line).t = "D"
      PROVE  planted = {} /\ \A i \in DOMAIN line' : line'[i].t # "^C"
  <2>1. planted = {}
    BY <1>1, <1>2, <1>5 DEF LineInv, ListsAgree
  <2>2. ASSUME NEW i \in DOMAIN line' PROVE line'[i].t # "^C"
    <3>1. 1 < i + 1 /\ i + 1 \in DOMAIN line
      BY <1>2
    <3> QED BY <1>1, <1>2, <1>3, <1>5, <3>1 DEF LineInv, NoneBehind, Resumes
  <2> QED BY <2>1, <2>2
<1>6. /\ Head(line).t = "Z0" => /\ Head(line).where \notin Planted
                                /\ planted = Planted \cup {Head(line).where}
      /\ Head(line).t = "z0" => planted = Planted \ {Head(line).where}
  BY <1>1, <1>2 DEF LineInv, ListsAgree
<1>7. ASSUME Head(line).t \notin {"Z0", "z0"} PROVE planted = Planted
  <2>1. ASSUME NEW i \in DOMAIN line PROVE line[i].t \notin {"Z0", "z0"}
    BY <1>1, <1>2, <1>3, <1>7, <2>1 DEF LineInv, OneRequest, IsRequest
  <2> QED BY <1>1, <2>1 DEF LineInv, ListsAgree
<1>8. Char("+") \in (Reply \cup [t : {"+"}]) /\ Char("+").t = "+"
  BY DEF Char
<1>9. /\ out' \in Seq(Reply \cup [t : {"+"}])
      /\ Len(out) \in Nat /\ DOMAIN out = 1 .. Len(out)
      /\ \A i \in DOMAIN out' : \/ i \in DOMAIN out /\ out'[i] = out[i]
                                \/ i = Len(out) + 1 /\ out'[i] = Char("+")
  BY <1>1, <1>8, OutWritten
<1>10. client # "idle" /\ (client = "reply" => Len(out) = 0) /\ (Acked => Len(out) = 1)
  <2>1. client # "idle"
    BY <1>1, <1>3 DEF LineInv, OneRequest
  <2>2. client = "reply" => Len(out) = 0
    <3>1. client = "reply" => DOMAIN out = {}
      BY <1>1, <1>3 DEF LineInv, GreetedFirst, Greeted
    <3>2. Len(out) # 0 => 1 \in DOMAIN out
      BY <1>9
    <3> QED BY <3>1, <3>2
  <2>3. Acked => Len(out) = 1
    <3>1. Acked => (\A i \in DOMAIN out : i = 1) /\ \E i \in DOMAIN out : TRUE
      BY <1>1, <1>3 DEF LineInv, GreetedFirst, Greeted, Acked
    <3>2. Len(out) > 1 => 2 \in DOMAIN out
      BY <1>9
    <3> QED BY <1>9, <3>1, <3>2
  <2> QED BY <2>1, <2>2, <2>3
<1>11. Acks'
  <2>1. ASSUME client = "reply", NEW i \in DOMAIN out' PROVE i = 1
    BY <1>9, <1>10, <2>1
  <2>2. ASSUME client = "ack", NEW i \in DOMAIN out', NEW j \in DOMAIN out',
               out'[i].t = "+", out'[j].t = "+"
        PROVE  i = j \/ (i \in {1, 2} /\ j \in {1, 2})
    <3>1. CASE Acked
      <4>1. Len(out) = 1
        BY <1>10, <3>1
      <4>2. /\ i \in 1 .. Len(out) \/ i = Len(out) + 1
            /\ j \in 1 .. Len(out) \/ j = Len(out) + 1
        BY <1>9, <2>2
      <4> QED BY <4>1, <4>2
    <3>2. CASE ~ Acked
      BY <1>9, <2>2, <3>2 DEF Acked
    <3> QED BY <3>1, <3>2
  <2> QED BY <1>10, <2>1, <2>2 DEF Acks
<1>12. Awaited'
  <2>1. ASSUME client = "reply", NEW i \in DOMAIN out' PROVE out'[i].t = "+"
    BY <1>8, <1>9, <1>10, <2>1
  <2>2. ASSUME client = "ack", NEW i \in DOMAIN out', NEW j \in DOMAIN out',
               out'[i].t = "+", i < j
        PROVE  out'[j].t = "+"
    <3>1. CASE Acked
      <4>1. Len(out) = 1
        BY <1>10, <3>1
      <4>2. i \in 1 .. Len(out) \/ i = Len(out) + 1
        BY <1>9, <2>2
      <4>3. j \notin 1 .. Len(out)
        BY <2>2, <4>1, <4>2
      <4> QED BY <1>8, <1>9, <2>2, <4>3
    <3>2. CASE ~ Acked
      <4>1. i = Len(out) + 1
        BY <1>9, <2>2, <3>2 DEF Acked
      <4>2. j <= Len(out) + 1
        BY <1>9
      <4> QED BY <1>9, <2>2, <4>1, <4>2
    <3> QED BY <3>1, <3>2
  <2> QED BY <1>4, <1>10, <2>1, <2>2 DEF Awaited, Asked
<1>13. GreetedFirst'
  BY <1>4, <1>10 DEF GreetedFirst, Greeted, Asked
<1>14. OneRequest' /\ NoneBehind'
  BY <1>4, <1>10 DEF OneRequest, NoneBehind, Asked
<1>15. Unopened' /\ Left' /\ AckAhead'
  BY <1>1 DEF LineInv, Unopened, Starting, Left, AckAhead
<1>16. Planted' = planted => ListsAgree'
  BY <1>4 DEF ListsAgree, IsRequest
<1>17. own_buf' \in Reply /\ own_buf'.to = Head(line).t
  BY <1>1 DEF Reply, TypeOK
<1>18. Planted' = planted => LineInv'
  BY <1>11, <1>12, <1>13, <1>14, <1>15, <1>16 DEF LineInv
<1> QED BY <1>1, <1>2, <1>3, <1>5, <1>6, <1>7, <1>9, <1>17, <1>18

\* putpkt and getpkt read what is no request.
LEMMA CharTaken ==
  ASSUME Inv, server \in {"getpkt", "putpkt"}, line # <<>>, line' = Tail(line),
         Head(line).t \in {"+", "^C"}, UNCHANGED <<client, planted, breakpoints>>
  PROVE  /\ line' \in Seq(Token)
         /\ \A i \in DOMAIN line' : i + 1 \in DOMAIN line /\ line'[i] = line[i + 1]
         /\ Asked' => Asked
         /\ OneRequest' /\ NoneBehind' /\ ListsAgree'
         /\ server = "putpkt" /\ Head(line).t # "+" => AckAhead'
         /\ Unread' = Unread - (IF Head(line).t = "^C" THEN 1 ELSE 0)
<1>1. TypeOK /\ LineInv
  BY DEF Inv
<1>2. /\ Head(line) = line[1] /\ 1 \in DOMAIN line
      /\ line' \in Seq(Token)
      /\ \A i \in DOMAIN line' : i \in Nat /\ i + 1 \in DOMAIN line /\ i + 1 # 1 /\ line'[i] = line[i + 1]
      /\ \A i \in DOMAIN line : i = 1 \/ (i - 1 \in DOMAIN line' /\ line'[i - 1] = line[i])
      /\ \A i \in DOMAIN line : i \in Nat /\ i >= 1
      /\ Unread' = Unread - (IF Head(line).t = "^C" THEN 1 ELSE 0)
  BY <1>1, LineRead
<1>3. Asked' => Asked
  BY <1>2 DEF Asked
<1>4. OneRequest'
  <2>1. ASSUME NEW i \in DOMAIN line', NEW j \in DOMAIN line', IsRequest(line'[i]), IsRequest(line'[j])
        PROVE  i = j
    <3>1. i + 1 = j + 1
      BY <1>1, <1>2, <2>1 DEF LineInv, OneRequest
    <3> QED BY <1>2, <3>1
  <2>2. client = "idle" => ~ Asked'
    BY <1>1, <1>3 DEF LineInv, OneRequest
  <2> QED BY <2>1, <2>2 DEF OneRequest
<1>5. NoneBehind'
  <2>1. \A i, j \in DOMAIN line' : i < j => i + 1 < j + 1
    BY <1>2
  <2> QED BY <1>1, <1>2, <2>1 DEF LineInv, NoneBehind
<1>6. ListsAgree'
  <2>1. /\ (\A i \in DOMAIN line : line[i].t \notin {"Z0", "z0"}) => Planted = planted
        /\ \A i \in DOMAIN line :
             /\ line[i].t = "Z0" => line[i].where \notin Planted /\ planted = Planted \cup {line[i].where}
             /\ line[i].t = "z0" => planted = Planted \ {line[i].where}
             /\ line[i].t = "D"  => planted = {}
    BY <1>1 DEF LineInv, ListsAgree
  <2>2. Planted' = Planted /\ planted' = planted
    BY DEF Planted
  <2>3. (\A i \in DOMAIN line' : line'[i].t \notin {"Z0", "z0"})
          => \A i \in DOMAIN line : line[i].t \notin {"Z0", "z0"}
    <3>1. ASSUME \A i \in DOMAIN line' : line'[i].t \notin {"Z0", "z0"}, NEW i \in DOMAIN line
          PROVE  line[i].t \notin {"Z0", "z0"}
      BY <1>2, <3>1
    <3> QED BY <3>1
  <2> QED BY <1>2, <2>1, <2>2, <2>3 DEF ListsAgree
<1>7. ASSUME server = "putpkt", Head(line).t # "+" PROVE AckAhead'
  <2>1. ASSUME client = "idle" PROVE \E i \in DOMAIN line' : line'[i].t = "+"
    <3>1. PICK i \in DOMAIN line : line[i].t = "+"
      BY <1>1, <1>7, <2>1 DEF LineInv, AckAhead
    <3>2. i - 1 \in DOMAIN line' /\ line'[i - 1].t = "+"
      BY <1>2, <1>7, <3>1
    <3> QED BY <3>2
  <2>2. ASSUME NEW j \in DOMAIN line', IsRequest(line'[j])
        PROVE  \E i \in DOMAIN line' : i < j /\ line'[i].t = "+"
    <3>1. j + 1 \in DOMAIN line /\ IsRequest(line[j + 1]) /\ j \in Nat
      BY <1>2, <2>2
    <3>2. PICK i \in DOMAIN line : i < j + 1 /\ line[i].t = "+"
      BY <1>1, <1>7, <3>1 DEF LineInv, AckAhead
    <3>3. i # 1 /\ i \in Nat
      BY <1>2, <1>7, <3>2
    <3>4. i - 1 \in DOMAIN line' /\ line'[i - 1].t = "+" /\ i - 1 < j
      BY <1>2, <3>1, <3>2, <3>3
    <3> QED BY <3>4
  <2> QED BY <2>1, <2>2 DEF AckAhead
<1> QED BY <1>2, <1>3, <1>4, <1>5, <1>6, <1>7

\* What a status says.
LEMMA StatusValues ==
  /\ {Stopped(sig) : sig \in {"TRAP", "STOP", "SEGV", "INT"}} \subseteq Statuses
  /\ {Died(sig) : sig \in {"TRAP", "SEGV", "INT", "KILL"}} \subseteq Statuses
  /\ Exited \in Statuses /\ Unknown \in Statuses
  /\ \A sig : Stopped(sig).how = "T" /\ Stopped(sig).sig = sig /\ ~ Gone(Stopped(sig))
  /\ \A sig : Gone(Died(sig)) /\ Gone(Exited) /\ ~ Gone(Unknown)
  /\ \A s : s.how = "T" => ~ Gone(s)
BY DEF Stopped, Died, Exited, Unknown, Statuses, Gone

\* The buffer after a reply is typed.
LEMMA BlankType == Blank \in Reply
BY StatusValues DEF Blank, Reply, Types

\* A reply is sent, or sent again.
LEMMA ReplyWritten ==
  ASSUME Inv, ToClient(own_buf), UNCHANGED client
  PROVE  out' \in Seq(Reply \cup [t : {"+"}]) /\ Acks' /\ (Acked' => Acked)
<1>1. TypeOK /\ own_buf \in (Reply \cup [t : {"+"}]) /\ own_buf.t = "reply"
  BY DEF Inv, TypeOK, Reply
<1>2. /\ out' \in Seq(Reply \cup [t : {"+"}])
      /\ \A i \in DOMAIN out' : \/ i \in DOMAIN out /\ out'[i] = out[i]
                                \/ out'[i] = own_buf
  BY <1>1, OutWritten
<1>3. \A i \in DOMAIN out' : out'[i].t = "+" => i \in DOMAIN out /\ out'[i] = out[i]
  BY <1>1, <1>2
<1>4. Acks'
  BY <1>3 DEF Inv, LineInv, Acks
<1>5. Acked' => Acked
  BY <1>3 DEF Acked
<1> QED BY <1>2, <1>4, <1>5

-----------------------------------------------------------------------------
(* The parts of the invariant a step leaves alone when it leaves alone     *)
(* what they are about.                                                    *)

\* The list and the memory stay as they are.
LEMMA TrapsKept ==
  ASSUME TrapsListed, UNCHANGED <<breakpoints, mem>>,
         server' \in Starting => server' = server,
         life' \notin {"zombie", "reaped"} => life \notin {"zombie", "reaped"}
  PROVE  TrapsListed'
<1>1. Distinct(breakpoints') /\ Planted' = Planted
  BY DEF TrapsListed, Planted
<1>2. life' \notin {"zombie", "reaped"} => Listed(breakpoints', mem')
  BY DEF TrapsListed
<1> QED BY <1>1, <1>2 DEF TrapsListed, Starting

\* Nothing happens to stub and process.
LEMMA StubQuiet ==
  ASSUME Inv, UNCHANGED <<stub, process>>
  PROVE  /\ TrapsListed' /\ Waits' /\ StatusKept'
         /\ planted' = planted \/ server # "mywait" => TrapsExplained'
<1> USE DEF stub, process, Inv, ProcessInv
<1>1. TrapsListed'
  BY TrapsKept
<1>2. Waits' /\ StatusKept'
  BY DEF Waits, StatusKept, Gone
<1>3. planted' = planted \/ server # "mywait" => TrapsExplained'
  BY DEF TrapsExplained
<1> QED BY <1>1, <1>2, <1>3

\* Nothing happens to the connection.
LEMMA LineStays ==
  ASSUME Inv, UNCHANGED <<stub, line, out, client, planted, hung_up>>
  PROVE  LineInv' /\ FreedLast' /\ Unread' = Unread /\ Unread \in Nat
<1>1. /\ line' = line /\ out' = out /\ client' = client /\ planted' = planted /\ hung_up' = hung_up
      /\ server' = server /\ breakpoints' = breakpoints /\ own_buf' = own_buf
      /\ current_inferior' = current_inferior /\ LineInv /\ FreedLast
  BY DEF Inv, ProcessInv, stub
<1>2. (Asked' <=> Asked) /\ (Acked' <=> Acked) /\ Unread' = Unread /\ Planted' = Planted
  BY <1>1 DEF Asked, Acked, Unread, Planted
<1>3. Unopened' /\ GreetedFirst' /\ Left' /\ OneRequest'
  BY <1>1, <1>2 DEF LineInv, Unopened, GreetedFirst, Greeted, Left, OneRequest
<1>4. Acks' /\ NoneBehind' /\ Awaited' /\ AckAhead'
  BY <1>1, <1>2 DEF LineInv, Acks, NoneBehind, Awaited, AckAhead
<1>5. ListsAgree' /\ FreedLast'
  BY <1>1, <1>2 DEF LineInv, ListsAgree, FreedLast
<1>6. Unread \in Nat
  BY UnreadType DEF Inv
<1> QED BY <1>2, <1>3, <1>4, <1>5, <1>6 DEF LineInv

\* No ^C is typed, read or taken.
LEMMA SameInterrupts ==
  ASSUME Inv, Unread' = Unread, UNCHANGED <<sigint, unanswered>>
  PROVE  InterruptsOnce'
BY DEF Inv, InterruptsOnce

-----------------------------------------------------------------------------
(* The steps of the stub that leave the connection alone.                  *)

\* The list gets its thread, with the process stopped or dead.
LEMMA StartInferiorInv == ASSUME Inv, StartInferior PROVE Inv'
<1> USE DEF StartInferior, DarwinCreateInferior, debugger, Inv, ProcessInv
<1>1. TypeOK'
  BY SessionAssumption, StatusValues, BlankType DEF TypeOK, Lives
<1>2. LineInv' /\ Unread' = Unread
  BY NotYetOpen DEF Starting
<1>3. InterruptsOnce'
  BY <1>2 DEF InterruptsOnce, TypeOK
<1>4. FreedLast'
  BY DEF FreedLast, Waits
<1>5. TrapsListed'
  BY DEF TrapsListed, Listed, Distinct, Planted, Waits
<1>6. Waits' /\ StatusKept'
  BY StatusValues DEF Waits, StatusKept, TypeOK, Lives
<1>7. TrapsExplained'
  BY DEF TrapsExplained, Waits
<1> QED BY <1>1, <1>2, <1>3, <1>4, <1>5, <1>6, <1>7

\* The same for a process that runs already.
LEMMA AttachInferiorInv == ASSUME Inv, AttachInferior PROVE Inv'
<1> USE DEF AttachInferior, DarwinAttach, debugger, Inv, ProcessInv
<1>1. TypeOK'
  BY SessionAssumption, StatusValues, BlankType DEF TypeOK, Lives
<1>2. LineInv' /\ Unread' = Unread
  BY NotYetOpen DEF Starting
<1>3. InterruptsOnce'
  BY <1>2 DEF InterruptsOnce, TypeOK
<1>4. FreedLast'
  BY DEF FreedLast, Waits
<1>5. TrapsListed'
  BY DEF TrapsListed, Listed, Distinct, Planted, Waits
<1>6. Waits' /\ StatusKept'
  BY StatusValues DEF Waits, StatusKept, TypeOK, Lives
<1>7. TrapsExplained'
  BY DEF TrapsExplained, Waits
<1> QED BY <1>1, <1>2, <1>3, <1>4, <1>5, <1>6, <1>7

\* The stub exits.
LEMMA AttachNobodyInv == ASSUME Inv, AttachNobody PROVE Inv'
<1> USE DEF AttachNobody, process, debugger, Inv, ProcessInv
<1>1. TypeOK'
  BY SessionAssumption, StatusValues, BlankType DEF TypeOK, Lives
<1>2. LineInv' /\ Unread' = Unread
  BY NotYetOpen DEF Starting
<1>3. InterruptsOnce'
  BY <1>2 DEF InterruptsOnce, TypeOK
<1>4. FreedLast'
  BY DEF FreedLast, Waits
<1>5. TrapsListed'
  BY DEF TrapsListed, Listed, Distinct, Planted, Waits
<1>6. Waits' /\ StatusKept'
  BY StatusValues DEF Waits, StatusKept, TypeOK, Lives
<1>7. TrapsExplained'
  BY DEF TrapsExplained, Waits
<1> QED BY <1>1, <1>2, <1>3, <1>4, <1>5, <1>6, <1>7

\* In a handler the loop starts over, on a process that is dead.
LEMMA MywaitFailsInv == ASSUME Inv, MywaitFails PROVE Inv'
<1> USE DEF MywaitFails, InWait, debugger, Inv, ProcessInv
<1>1. TypeOK'
  BY SessionAssumption, StatusValues, BlankType DEF TypeOK, Lives
<1>2. LineInv' /\ Unread' = Unread
  BY NotYetOpen, LineQuiet DEF Starting, Planted
<1>3. InterruptsOnce'
  BY <1>2 DEF InterruptsOnce, TypeOK
<1>4. FreedLast'
  BY DEF FreedLast, Waits
<1>5. TrapsListed'
  BY DEF TrapsListed, Listed, Distinct, Planted, Waits
<1>6. Waits' /\ StatusKept'
  BY StatusValues DEF Waits, StatusKept, TypeOK, Lives
<1>7. TrapsExplained'
  BY DEF TrapsExplained, Waits
<1> QED BY <1>1, <1>2, <1>3, <1>4, <1>5, <1>6, <1>7

\* The connection is closed and the stub exits.
LEMMA GetpktEOFInv == ASSUME Inv, GetpktEOF PROVE Inv'
<1> USE DEF GetpktEOF, process, debugger, Inv, ProcessInv
<1>1. TypeOK'
  BY SessionAssumption, StatusValues, BlankType DEF TypeOK, Lives
<1>2. LineInv' /\ Unread' = Unread
  BY LineQuiet DEF Planted
<1>3. InterruptsOnce'
  BY <1>2 DEF InterruptsOnce, TypeOK
<1>4. FreedLast'
  BY DEF FreedLast, Waits
<1>5. TrapsListed'
  BY DEF TrapsListed, Listed, Distinct, Planted, Waits
<1>6. Waits' /\ StatusKept'
  BY StatusValues DEF Waits, StatusKept, TypeOK, Lives
<1>7. TrapsExplained'
  BY DEF TrapsExplained, Waits
<1> QED BY <1>1, <1>2, <1>3, <1>4, <1>5, <1>6, <1>7

\* The thread is freed on the way out.
LEMMA DarwinKillInv == ASSUME Inv, DarwinKill PROVE Inv'
<1> USE DEF DarwinKill, debugger, Inv, ProcessInv
<1>1. TypeOK'
  BY SessionAssumption, StatusValues, BlankType DEF TypeOK, Lives
<1>2. LineInv' /\ Unread' = Unread
  BY LineQuiet DEF Planted
<1>3. InterruptsOnce'
  BY <1>2 DEF InterruptsOnce, TypeOK
<1>4. FreedLast'
  BY DEF FreedLast, Waits
<1>5. TrapsListed'
  BY DEF TrapsListed, Listed, Distinct, Planted, Waits
<1>6. Waits' /\ StatusKept'
  BY StatusValues DEF Waits, StatusKept, TypeOK, Lives
<1>7. TrapsExplained'
  BY DEF TrapsExplained, Waits
<1> QED BY <1>1, <1>2, <1>3, <1>4, <1>5, <1>6, <1>7

\* The program let go has ended.
LEMMA LastWaitInv == ASSUME Inv, LastWait PROVE Inv'
<1> USE DEF LastWait, debugger, Inv, ProcessInv
<1>1. TypeOK'
  BY SessionAssumption, StatusValues, BlankType DEF TypeOK, Lives
<1>2. LineInv' /\ Unread' = Unread
  BY LineQuiet DEF Planted
<1>3. InterruptsOnce'
  BY <1>2 DEF InterruptsOnce, TypeOK
<1>4. FreedLast'
  BY DEF FreedLast, Waits
<1>5. TrapsListed'
  BY DEF TrapsListed, Listed, Distinct, Planted, Waits
<1>6. Waits' /\ StatusKept'
  BY StatusValues DEF Waits, StatusKept, TypeOK, Lives
<1>7. TrapsExplained'
  BY DEF TrapsExplained, Waits
<1> QED BY <1>1, <1>2, <1>3, <1>4, <1>5, <1>6, <1>7

\* The handler of D goes on to its end without an ack, too.
LEMMA PutpktFailsInv == ASSUME Inv, PutpktFails PROVE Inv'
<1> USE DEF PutpktFails, PutpktReturns, AfterReply, process, debugger, Inv, ProcessInv
<1>1. TypeOK'
  BY SessionAssumption, StatusValues, BlankType DEF TypeOK, Lives
<1>2. LineInv' /\ Unread' = Unread
  BY LineQuiet DEF Planted
<1>3. InterruptsOnce'
  BY <1>2 DEF InterruptsOnce, TypeOK
<1>4. FreedLast'
  BY DEF FreedLast, Waits
<1>5. TrapsListed'
  BY DEF TrapsListed, Listed, Distinct, Planted, Waits
<1>6. Waits' /\ StatusKept'
  BY StatusValues DEF Waits, StatusKept, TypeOK, Lives
<1>7. TrapsExplained'
  BY DEF TrapsExplained, Waits
<1> QED BY <1>1, <1>2, <1>3, <1>4, <1>5, <1>6, <1>7

-----------------------------------------------------------------------------
(* The program and the kernel.                                              *)

\* What the program does changes its life, the stop to be told, the pc and the
\* SIGINT only.
LEMMA ProcessTypes ==
  ASSUME TypeOK, UNCHANGED <<stub, mem, step, line, out, client, planted, told_gone, hung_up>>,
         life' \in Lives, event' \in Statuses, pc' \in 0 .. End, sigint' \in BOOLEAN,
         unanswered' \in 0 .. MaxInterrupts
  PROVE  TypeOK'
<1>1. /\ server' = server /\ attached' = attached /\ status' = status
      /\ breakpoints' = breakpoints /\ current_inferior' = current_inferior
      /\ own_buf' = own_buf /\ mem' = mem /\ step' = step /\ line' = line /\ out' = out
      /\ client' = client /\ planted' = planted /\ told_gone' = told_gone /\ hung_up' = hung_up
  BY DEF stub
<1>2. /\ server' \in {"start", "exec", "attach", "entry", "to entry", "open", "getpkt",
                     "mywait", "answer", "putpkt", "kill", "last", "exited"}
      /\ attached' \in BOOLEAN /\ status' \in Statuses /\ breakpoints' \in Seq(Breakpoint)
      /\ current_inferior' \in {"NULL", "live", "freed"} /\ own_buf' \in Reply
  BY <1>1 DEF TypeOK
<1>3. mem' \in [0 .. End -> {"insn", "trap"}] /\ step' \in BOOLEAN
  BY <1>1 DEF TypeOK
<1>4. /\ line' \in Seq(Request \cup [t : {"+", "^C"}])
      /\ out' \in Seq(Reply \cup [t : {"+"}])
      /\ client' \in {"idle", "ack", "reply", "closed"} /\ planted' \subseteq Sites
      /\ told_gone' \in BOOLEAN /\ hung_up' \in BOOLEAN
  BY <1>1 DEF TypeOK
<1> QED BY <1>2, <1>3, <1>4 DEF TypeOK

\* One SIGINT, one stop.
LEMMA TakesInterruptInv == ASSUME Inv, TakesInterrupt PROVE Inv'
<1>1. /\ LineInv' /\ FreedLast' /\ Unread' = Unread /\ Unread \in Nat
      /\ UNCHANGED <<stub, mem, step, line, out, client, planted, told_gone, hung_up>>
  BY LineStays DEF TakesInterrupt, Traced, Halts, stub
<1>2. /\ unanswered \in 0 .. MaxInterrupts /\ pc \in 0 .. End
      /\ sigint => 1 + Unread <= unanswered
  BY DEF Inv, TypeOK, InterruptsOnce
<1>3. InterruptsOnce'
  BY <1>1, <1>2 DEF Inv, InterruptsOnce, TakesInterrupt, Traced, Halts
<1>4. unanswered' \in 0 .. MaxInterrupts
  BY <1>1, <1>2, <1>3, SessionAssumption DEF InterruptsOnce, TakesInterrupt, Traced, Halts
<1>5. pc' \in 0 .. End
  <2>1. pc' = pc \/ (pc < End /\ pc' = pc + 1)
    BY Zenon DEF TakesInterrupt, Traced, Halts
  <2> QED BY <1>2, <2>1, SessionAssumption
<1>6. life' \in Lives /\ event' \in Statuses /\ sigint' \in BOOLEAN
  BY StatusValues DEF Inv, TypeOK, Lives, TakesInterrupt, Traced, Halts
<1>7. TypeOK'
  <2>1. TypeOK
    BY DEF Inv
  <2> QED BY <1>1, <1>4, <1>5, <1>6, <2>1, ProcessTypes
<1>8. TrapsListed'
  BY TrapsKept DEF Inv, ProcessInv, TakesInterrupt, Traced, Halts, stub
<1>9. Waits' /\ StatusKept'
  BY StatusValues
     DEF Inv, ProcessInv, Waits, StatusKept, TypeOK, Lives, TakesInterrupt, Traced, Halts,
         stub
<1>10. TrapsExplained'
  BY StatusValues
     DEF Inv, ProcessInv, TrapsExplained, TrapsListed, Listed, Planted, TypeOK,
         TakesInterrupt, Traced, Halts, stub
<1> QED BY <1>1, <1>3, <1>7, <1>8, <1>9, <1>10 DEF Inv, ProcessInv

\* A traced program stops at a trap of the list, which is the debugger's.
LEMMA ExecutesInv == ASSUME Inv, Executes PROVE Inv'
<1>1. /\ LineInv' /\ FreedLast' /\ Unread' = Unread /\ Unread \in Nat
      /\ UNCHANGED <<stub, mem, step, sigint, line, out, client, planted, told_gone, hung_up>>
  BY LineStays DEF Executes, Traced, Halts, Ends, debugger, stub
<1>2. /\ unanswered \in 0 .. MaxInterrupts /\ pc \in 0 .. End
      /\ sigint => 1 + Unread <= unanswered
  BY DEF Inv, TypeOK, InterruptsOnce
<1>3. InterruptsOnce'
  BY <1>1, <1>2 DEF Inv, InterruptsOnce, Executes, Traced, Halts, Ends, debugger
<1>4. unanswered' \in 0 .. MaxInterrupts
  BY <1>1, <1>2, <1>3, SessionAssumption
     DEF InterruptsOnce, Executes, Traced, Halts, Ends, debugger
<1>5. pc' \in 0 .. End
  <2>1. pc' = pc \/ (pc < End /\ pc' = pc + 1)
    BY Zenon DEF Executes, Traced, Halts, Ends, debugger
  <2> QED BY <1>2, <2>1, SessionAssumption
<1>6. life' \in Lives /\ event' \in Statuses /\ sigint' \in BOOLEAN
  BY StatusValues DEF Inv, TypeOK, Lives, Executes, Traced, Halts, Ends, debugger
<1>7. TypeOK'
  <2>1. TypeOK
    BY DEF Inv
  <2> QED BY <1>1, <1>4, <1>5, <1>6, <2>1, ProcessTypes
<1>8. TrapsListed'
  BY TrapsKept DEF Inv, ProcessInv, Executes, Traced, Halts, Ends,
     debugger, stub
<1>9. Waits' /\ StatusKept'
  BY StatusValues
     DEF Inv, ProcessInv, Waits, StatusKept, TypeOK, Lives, Executes, Traced, Halts, Ends,
         debugger, stub
<1>10. TrapsExplained'
  <2>1. server = "mywait" => Planted = planted
    BY DEF Inv, LineInv, Awaited, Asked, IsRequest, ListsAgree
  <2>2. mem[pc] = "trap" /\ life = "running" => pc \in Planted
    BY <1>2 DEF Inv, ProcessInv, TrapsListed, Listed, Planted
  <2> QED BY <1>1, <2>1, <2>2, StatusValues
             DEF Inv, ProcessInv, TrapsExplained, Executes, Traced, Halts, Ends, stub
<1> QED BY <1>1, <1>3, <1>7, <1>8, <1>9, <1>10 DEF Inv, ProcessInv

\* A program on its own ends, it does not stop.
LEMMA ExecutesFreelyInv == ASSUME Inv, ExecutesFreely PROVE Inv'
<1>1. /\ LineInv' /\ FreedLast' /\ Unread' = Unread /\ Unread \in Nat
      /\ UNCHANGED <<stub, mem, step, sigint, line, out, client, planted, told_gone, hung_up>>
  BY LineStays DEF ExecutesFreely, OnItsOwn, Ends, debugger, stub
<1>2. /\ unanswered \in 0 .. MaxInterrupts /\ pc \in 0 .. End
      /\ sigint => 1 + Unread <= unanswered
  BY DEF Inv, TypeOK, InterruptsOnce
<1>3. InterruptsOnce'
  BY <1>1, <1>2 DEF Inv, InterruptsOnce, ExecutesFreely, OnItsOwn, Ends, debugger
<1>4. unanswered' \in 0 .. MaxInterrupts
  BY <1>1, <1>2, <1>3, SessionAssumption
     DEF InterruptsOnce, ExecutesFreely, OnItsOwn, Ends, debugger
<1>5. pc' \in 0 .. End
  <2>1. pc' = pc \/ (pc < End /\ pc' = pc + 1)
    BY Zenon DEF ExecutesFreely, OnItsOwn, Ends, debugger
  <2> QED BY <1>2, <2>1, SessionAssumption
<1>6. life' \in Lives /\ event' \in Statuses /\ sigint' \in BOOLEAN
  BY StatusValues DEF Inv, TypeOK, Lives, ExecutesFreely, OnItsOwn, Ends, debugger
<1>7. TypeOK'
  <2>1. TypeOK
    BY DEF Inv
  <2> QED BY <1>1, <1>4, <1>5, <1>6, <2>1, ProcessTypes
<1>8. TrapsListed'
  BY TrapsKept DEF Inv, ProcessInv, ExecutesFreely, OnItsOwn, Ends,
     debugger, stub
<1>9. Waits' /\ StatusKept'
  BY StatusValues
     DEF Inv, ProcessInv, Waits, StatusKept, TypeOK, Lives, ExecutesFreely, OnItsOwn, Ends,
         debugger, stub
<1>10. TrapsExplained'
  BY StatusValues
     DEF Inv, ProcessInv, TrapsExplained, TrapsListed, Listed, Planted, TypeOK,
         ExecutesFreely, OnItsOwn, Ends, debugger, stub
<1> QED BY <1>1, <1>3, <1>7, <1>8, <1>9, <1>10 DEF Inv, ProcessInv

\* A dead process has no traps to explain.
LEMMA KilledFromOutsideInv == ASSUME Inv, KilledFromOutside PROVE Inv'
<1>1. /\ LineInv' /\ FreedLast' /\ Unread' = Unread /\ Unread \in Nat
      /\ UNCHANGED <<stub, mem, step, sigint, line, out, client, planted, told_gone, hung_up>>
  BY LineStays DEF KilledFromOutside, Ends, Alive, debugger, stub
<1>2. /\ unanswered \in 0 .. MaxInterrupts /\ pc \in 0 .. End
      /\ sigint => 1 + Unread <= unanswered
  BY DEF Inv, TypeOK, InterruptsOnce
<1>3. InterruptsOnce'
  BY <1>1, <1>2 DEF Inv, InterruptsOnce, KilledFromOutside, Ends, Alive, debugger
<1>4. unanswered' \in 0 .. MaxInterrupts
  BY <1>1, <1>2, <1>3, SessionAssumption
     DEF InterruptsOnce, KilledFromOutside, Ends, Alive, debugger
<1>5. pc' \in 0 .. End
  <2>1. pc' = pc \/ (pc < End /\ pc' = pc + 1)
    BY Zenon DEF KilledFromOutside, Ends, Alive, debugger
  <2> QED BY <1>2, <2>1, SessionAssumption
<1>6. life' \in Lives /\ event' \in Statuses /\ sigint' \in BOOLEAN
  BY StatusValues DEF Inv, TypeOK, Lives, KilledFromOutside, Ends, Alive, debugger
<1>7. TypeOK'
  <2>1. TypeOK
    BY DEF Inv
  <2> QED BY <1>1, <1>4, <1>5, <1>6, <2>1, ProcessTypes
<1>8. TrapsListed'
  BY TrapsKept DEF Inv, ProcessInv, KilledFromOutside, Ends, Alive,
     debugger, stub
<1>9. Waits' /\ StatusKept'
  BY StatusValues
     DEF Inv, ProcessInv, Waits, StatusKept, TypeOK, Lives, KilledFromOutside, Ends, Alive,
         debugger, stub
<1>10. TrapsExplained'
  BY StatusValues
     DEF Inv, ProcessInv, TrapsExplained, TrapsListed, Listed, Planted, TypeOK,
         KilledFromOutside, Ends, Alive, debugger, stub
<1> QED BY <1>1, <1>3, <1>7, <1>8, <1>9, <1>10 DEF Inv, ProcessInv

-----------------------------------------------------------------------------
(* The steps of the stub that move breakpoints or connect.                 *)

\* The trap of run_to_entry_point is the first.
LEMMA RunToEntryPointInv == ASSUME Inv, RunToEntryPoint PROVE Inv'
<1>1. /\ server = "entry" /\ TypeOK /\ TrapsListed /\ life # "none" /\ breakpoints = <<>>
      /\ UNCHANGED <<attached, status, current_inferior, own_buf, pc, sigint, line, out, debugger>>
      /\ line = <<>> /\ out = <<>> /\ client = "closed" /\ ~ hung_up
  BY DEF RunToEntryPoint, Inv, LineInv, ProcessInv, Unopened, Starting, TrapsListed, Waits
<1>2. CASE server' = "open" /\ UNCHANGED <<breakpoints, mem, life, event, step>>
  <2>1. TypeOK'
    BY <1>1, <1>2 DEF TypeOK, debugger
  <2>2. LineInv' /\ Unread' = Unread
    BY <1>1, <1>2, NotYetOpen DEF Starting, debugger
  <2>3. InterruptsOnce'
    BY <1>1, <2>2, SameInterrupts DEF debugger
  <2>4. FreedLast' /\ TrapsExplained'
    BY <1>1, <1>2 DEF Inv, ProcessInv, FreedLast, TrapsExplained
  <2>5. TrapsListed' /\ Waits' /\ StatusKept'
    BY <1>1, <1>2
       DEF Inv, ProcessInv, TrapsListed, Listed, Distinct, Planted, Waits, StatusKept, Gone
  <2> QED BY <2>1, <2>2, <2>3, <2>4, <2>5 DEF Inv, ProcessInv
<1>3. CASE SetBreakpointAt(Entry) /\ DarwinResume(FALSE, "none") /\ server' = "to entry"
  <2>1. Entry \in 0 .. End /\ Entry \notin Planted
    BY <1>1, SessionAssumption, EmptySeq DEF Planted
  <2>2. /\ breakpoints' \in Seq(Breakpoint) /\ mem' \in [0 .. End -> {"insn", "trap"}]
        /\ Distinct(breakpoints') /\ Planted' = Planted \cup {Entry}
        /\ life \notin {"zombie", "reaped"} => Listed(breakpoints', mem')
    BY <1>1, <1>3, <2>1, SetBreakpointAtInv
  <2>3. \/ life # "stopped" /\ UNCHANGED <<life, event, step>>
        \/ life = "stopped" /\ life' = "running" /\ step' = FALSE /\ UNCHANGED event
    BY <1>3 DEF DarwinResume
  <2>4. TypeOK'
    BY <1>1, <1>3, <2>2, <2>3 DEF TypeOK, Lives, debugger
  <2>5. LineInv' /\ Unread' = Unread
    BY <1>1, <1>3, NotYetOpen DEF Starting, debugger
  <2>6. InterruptsOnce'
    BY <1>1, <2>5, SameInterrupts DEF debugger
  <2>7. FreedLast' /\ TrapsExplained'
    BY <1>1, <1>3 DEF Inv, ProcessInv, FreedLast, TrapsExplained
  <2>8. TrapsListed'
    <3>1. Planted = {}
      BY <1>1 DEF Planted
    <3> QED BY <1>3, <2>2, <2>3, <3>1 DEF TrapsListed
  <2>9. Waits' /\ StatusKept'
    BY <1>1, <1>3, <2>3 DEF Inv, ProcessInv, Waits, FreedLast, StatusKept, Gone
  <2> QED BY <2>4, <2>5, <2>6, <2>7, <2>8, <2>9 DEF Inv, ProcessInv
<1> QED BY <1>2, <1>3 DEF RunToEntryPoint

\* Wherever the program has stopped on its first run, that trap is the only
\* one and goes.
LEMMA MywaitInv == ASSUME Inv, Mywait PROVE Inv'
<1>1. /\ TypeOK /\ TrapsListed /\ InWait /\ life \in {"trapped", "zombie"}
      /\ status' = event /\ server' = AfterWait(server)
      /\ life' = IF life = "trapped" THEN "stopped" ELSE "reaped"
      /\ event' = Unknown /\ step' = FALSE
      /\ UNCHANGED <<attached, current_inferior, pc, sigint, line, out, debugger>>
  BY DEF Mywait, Waited, Inv, ProcessInv
<1>2. /\ breakpoints' \in Seq(Breakpoint) /\ mem' \in [0 .. End -> {"insn", "trap"}]
      /\ Distinct(breakpoints')
      /\ Planted' = IF server = "to entry" THEN {} ELSE Planted
      /\ life \notin {"zombie", "reaped"} => Listed(breakpoints', mem')
      /\ breakpoints = <<>> => breakpoints' = <<>>
  <2>1. CASE server = "to entry"
    <3>1. DeleteBreakpointAt(Entry) /\ Entry \in 0 .. End
      BY <2>1, SessionAssumption DEF Mywait, LiftEntryBreakpoint
    <3>2. Planted = {Entry}
      BY <1>1, <2>1 DEF TrapsListed
    <3> QED BY <1>1, <2>1, <3>1, <3>2, DeleteBreakpointAtInv
  <2>2. CASE server # "to entry"
    <3>1. UNCHANGED <<breakpoints, mem>>
      BY <2>2 DEF Mywait
    <3>2. Planted' = Planted
      BY <3>1 DEF Planted
    <3>3. breakpoints \in Seq(Breakpoint) /\ mem \in [0 .. End -> {"insn", "trap"}]
      BY <1>1 DEF TypeOK
    <3>4. Distinct(breakpoints) /\ (life \notin {"zombie", "reaped"} => Listed(breakpoints, mem))
      BY <1>1 DEF TrapsListed
    <3> QED BY <2>2, <3>1, <3>2, <3>3, <3>4
  <2> QED BY <2>1, <2>2
<1>3. own_buf' \in Reply
  BY <1>1 DEF Mywait, TypeOK, Reply
<1>4. server' \in {"entry", "open", "answer"} /\ (server' = "entry" => server = "exec")
      /\ (server' = "open" => server \in {"attach", "to entry"})
  BY <1>1 DEF InWait, AfterWait
<1>5. TypeOK'
  BY <1>1, <1>2, <1>3, <1>4, StatusValues DEF TypeOK, Lives, debugger
<1>6. LineInv' /\ Unread' = Unread
  <2>1. CASE server = "mywait"
    BY <1>1, <1>2, <2>1, LineQuiet DEF debugger, AfterWait
  <2>2. CASE server # "mywait"
    <3>1. UNCHANGED own_buf
      BY <2>2 DEF Mywait
    <3> QED BY <1>1, <2>2, <3>1, NotYetOpen DEF debugger, InWait, AfterWait, Starting
  <2> QED BY <2>1, <2>2
<1>7. InterruptsOnce'
  BY <1>1, <1>6, SameInterrupts DEF debugger
<1>8. FreedLast' /\ TrapsExplained'
  BY <1>1, <1>4 DEF Inv, ProcessInv, FreedLast, InWait, TrapsExplained
<1>9. TrapsListed'
  <2>1. server = "to entry" => breakpoints' = <<>>
    <3>1. ASSUME server = "to entry" PROVE Planted' = {} /\ breakpoints' \in Seq(Breakpoint)
      BY <1>2, <3>1
    <3>2. \A bps \in Seq(Breakpoint) : bps # <<>> => \E i \in DOMAIN bps : TRUE
      BY TailShifts
    <3> QED BY <3>1, <3>2 DEF Planted
  <2> QED BY <1>1, <1>2, <1>4, <2>1 DEF TrapsListed
<1>10. Waits' /\ StatusKept'
  BY <1>1, <1>4, StatusValues DEF Inv, ProcessInv, Waits, StatusKept
<1> QED BY <1>5, <1>6, <1>7, <1>8, <1>9, <1>10 DEF Inv, ProcessInv

\* The debugger connects with nothing sent, to find a greeting at most.
LEMMA RemoteOpenInv == ASSUME Inv, RemoteOpen PROVE Inv'
<1>1. /\ line = <<>> /\ out = <<>> /\ client = "closed" /\ ~ hung_up /\ planted = {}
      /\ server = "open" /\ breakpoints = <<>> /\ current_inferior # "freed"
      /\ UNCHANGED <<attached, status, breakpoints, current_inferior, own_buf, process,
                     line, planted, told_gone, hung_up, unanswered>>
  BY DEF RemoteOpen, Inv, LineInv, ProcessInv, Unopened, Starting, TrapsListed, FreedLast
<1>2. \/ /\ server' = "getpkt" /\ client' = "idle"
         /\ out' = <<>> \/ out' = <<Char("+")>>
      \/ server' = "exited" /\ client' = client /\ out' = out
  BY DEF RemoteOpen
<1>3. /\ out' \in Seq(Reply \cup [t : {"+"}])
      /\ \A i \in DOMAIN out' : i = 1
  <2>1. CASE out' = <<>>
    BY <2>1, EmptySeq
  <2>2. CASE out' = <<Char("+")>>
    <3>1. Char("+") \in (Reply \cup [t : {"+"}])
      BY DEF Char
    <3> QED BY <2>2, <3>1
  <2> QED BY <1>1, <1>2, <2>1, <2>2
<1>4. TypeOK'
  BY <1>1, <1>2, <1>3 DEF Inv, TypeOK, process
<1>5. LineInv' /\ Unread' = Unread
  <2>1. CASE server' = "exited" /\ client' = client /\ out' = out
    BY <1>1, <2>1, NotYetOpen DEF Starting
  <2>2. CASE server' = "getpkt" /\ client' = "idle"
    <3>1. ~ Asked' /\ Unread' = Unread
      BY <1>1 DEF Asked, Unread
    <3>2. own_buf' = Blank
      BY <1>1 DEF Inv, LineInv, Unopened, Starting
    <3>3. GreetedFirst'
      BY <1>3, <2>2, <3>2 DEF GreetedFirst
    <3>4. Unopened' /\ Left' /\ OneRequest' /\ Acks' /\ NoneBehind'
      BY <1>1, <1>3, <2>2, <3>1 DEF Unopened, Starting, Left, OneRequest, Acks, NoneBehind
    <3>5. Awaited' /\ AckAhead'
      BY <2>2 DEF Awaited, AckAhead
    <3>6. ListsAgree'
      BY <1>1 DEF ListsAgree, Planted
    <3> QED BY <3>1, <3>3, <3>4, <3>5, <3>6 DEF LineInv
  <2> QED BY <1>2, <2>1, <2>2
<1>6. FreedLast' /\ TrapsExplained' /\ InterruptsOnce'
  BY <1>1, <1>2, <1>5, SameInterrupts DEF FreedLast, TrapsExplained, process
<1>7. TrapsListed'
  BY <1>1, <1>2 DEF process, Inv, ProcessInv, TrapsListed, Listed, Distinct
<1>8. Waits' /\ StatusKept'
  BY <1>1, <1>2 DEF process, Inv, ProcessInv, Waits, StatusKept, Gone
<1> QED BY <1>4, <1>5, <1>6, <1>7, <1>8 DEF Inv, ProcessInv

-----------------------------------------------------------------------------
(* packet_loop.                                                            *)

\* What is discarded outside a packet is no request.
LEMMA GetpktSkipsInv == ASSUME Inv, GetpktSkips PROVE Inv'
<1>1. /\ server = "getpkt" /\ line # <<>> /\ line' = Tail(line) /\ Head(line).t \in {"+", "^C"}
      /\ UNCHANGED <<stub, process, out, debugger>>
  BY DEF GetpktSkips
<1>2. /\ line' \in Seq(Token) /\ OneRequest' /\ NoneBehind' /\ ListsAgree' /\ (Asked' => Asked)
      /\ Unread' = Unread - (IF Head(line).t = "^C" THEN 1 ELSE 0)
  BY <1>1, CharTaken DEF stub, debugger
<1>3. TypeOK'
  BY <1>1, <1>2 DEF Inv, TypeOK, Token, stub, process, debugger
<1>4. GreetedFirst'
  <2>1. Acked' <=> Acked
    BY <1>1 DEF Acked
  <2> QED BY <1>1, <1>2, <2>1 DEF Inv, LineInv, GreetedFirst, Greeted, stub, debugger
<1>5. Acks' /\ Left' /\ Awaited' /\ AckAhead'
  BY <1>1 DEF Inv, LineInv, Acks, Left, Awaited, AckAhead, stub, debugger
<1>6. Unopened' /\ FreedLast'
  BY <1>1 DEF Inv, LineInv, ProcessInv, Unopened, Starting, FreedLast, stub
<1>7. InterruptsOnce'
  <2>1. Unread \in Nat /\ unanswered \in 0 .. MaxInterrupts
    BY UnreadType DEF Inv
  <2> QED BY <1>1, <1>2, <2>1, SessionAssumption DEF Inv, InterruptsOnce, process, debugger
<1> QED BY <1>1, <1>2, <1>3, <1>4, <1>5, <1>6, <1>7, StubQuiet
           DEF Inv, LineInv, ProcessInv, debugger

\* What is answered at once.
LEMMA HandleQueryInv == ASSUME Inv, HandleQuery PROVE Inv'
<1>1. /\ Received({"?", "q"}) /\ server' = "answer"
      /\ UNCHANGED <<attached, status, breakpoints, current_inferior, process, debugger>>
  BY DEF HandleQuery
<1>2. /\ server = "getpkt" /\ own_buf' \in Reply
      /\ line' \in Seq(Token) /\ out' \in Seq(Reply \cup [t : {"+"}])
      /\ LineInv' /\ Unread' = Unread
  <2>1. {"?", "q"} \in SUBSET Types
    BY DEF Types
  <2>2. Planted' = Planted
    BY <1>1 DEF Planted
  <2> QED BY <1>1, <2>1, <2>2, RequestTaken DEF debugger
<1>3. TypeOK'
  BY <1>1, <1>2 DEF Inv, TypeOK, Token, process, debugger
<1>4. FreedLast' /\ TrapsExplained'
  BY <1>1, <1>2 DEF Inv, ProcessInv, FreedLast, TrapsExplained
<1>5. TrapsListed' /\ Waits' /\ StatusKept'
  BY <1>1, <1>2
     DEF Inv, ProcessInv, TrapsListed, Listed, Distinct, Planted, Waits, StatusKept, Gone, process
<1>6. InterruptsOnce'
  BY <1>1, <1>2, SameInterrupts DEF process, debugger
<1> QED BY <1>2, <1>3, <1>4, <1>5, <1>6 DEF Inv, ProcessInv

\* Z plants where the list has nothing, z takes the newest.
LEMMA HandleBreakpointInv == ASSUME Inv, HandleBreakpoint PROVE Inv'
<1> DEFINE where == Head(line).where
<1>1. /\ Received({"Z0", "z0"}) /\ server' = "answer"
      /\ UNCHANGED <<attached, status, current_inferior, life, event, pc, step, sigint, debugger>>
      /\ Head(line).t = "Z0" => SetBreakpointAt(where)
      /\ Head(line).t # "Z0" => DeleteBreakpointAt(where)
  BY DEF HandleBreakpoint
<1>2. /\ server = "getpkt" /\ own_buf' \in Reply
      /\ Head(line) \in Token /\ Head(line).t \in {"Z0", "z0"}
      /\ Head(line).t = "Z0" => where \notin Planted /\ planted = Planted \cup {where}
      /\ Head(line).t = "z0" => planted = Planted \ {where}
      /\ line' \in Seq(Token) /\ out' \in Seq(Reply \cup [t : {"+"}])
      /\ Planted' = planted => LineInv'
      /\ Unread' = Unread
  <2>1. {"Z0", "z0"} \in SUBSET Types
    BY DEF Types
  <2> QED BY <1>1, <2>1, RequestTaken DEF debugger
<1>3. where \in 0 .. End
  BY <1>2, TokenTypes
<1>4. TypeOK /\ TrapsListed /\ life # "none" /\ life # "free"
  BY <1>2 DEF Inv, ProcessInv, Waits, FreedLast
<1>5. /\ breakpoints' \in Seq(Breakpoint) /\ mem' \in [0 .. End -> {"insn", "trap"}]
      /\ Distinct(breakpoints') /\ Planted' = planted
      /\ life \notin {"zombie", "reaped"} => Listed(breakpoints', mem')
  <2>1. CASE Head(line).t = "Z0"
    BY <1>1, <1>2, <1>3, <1>4, <2>1, SetBreakpointAtInv
  <2>2. CASE Head(line).t # "Z0"
    BY <1>1, <1>2, <1>3, <1>4, <2>2, DeleteBreakpointAtInv
  <2> QED BY <2>1, <2>2
<1>6. TypeOK'
  BY <1>1, <1>2, <1>5 DEF Inv, TypeOK, Token, debugger
<1>7. FreedLast' /\ TrapsExplained'
  BY <1>1, <1>2 DEF Inv, ProcessInv, FreedLast, TrapsExplained
<1>8. TrapsListed'
  BY <1>1, <1>5 DEF TrapsListed
<1>9. Waits' /\ StatusKept'
  BY <1>1, <1>2, <1>4 DEF Inv, ProcessInv, Waits, StatusKept, Gone
<1>10. InterruptsOnce'
  BY <1>1, <1>2, SameInterrupts DEF debugger
<1> QED BY <1>2, <1>5, <1>6, <1>7, <1>8, <1>9, <1>10 DEF Inv, ProcessInv

\* The process runs, or is gone already and stays so.
LEMMA HandleResumeInv == ASSUME Inv, HandleResume PROVE Inv'
<1>1. /\ Received({"c", "s", "C", "S"}) /\ server' = "mywait"
      /\ UNCHANGED <<attached, status, breakpoints, current_inferior, pc, mem, sigint, debugger>>
      /\ DarwinResume(Head(line).t \in {"s", "S"}, IF Head(line).t \in {"C", "S"} THEN "INT" ELSE "none")
  BY DEF HandleResume
<1>2. /\ server = "getpkt" /\ own_buf' \in Reply
      /\ line' \in Seq(Token) /\ out' \in Seq(Reply \cup [t : {"+"}])
      /\ LineInv' /\ Unread' = Unread
  <2>1. {"c", "s", "C", "S"} \in SUBSET Types
    BY DEF Types
  <2>2. Planted' = Planted
    BY <1>1 DEF Planted
  <2> QED BY <1>1, <2>1, <2>2, RequestTaken DEF debugger
<1>3. \/ life # "stopped" /\ UNCHANGED <<life, event, step>>
      \/ life = "stopped" /\ life' = "running" /\ step' \in BOOLEAN /\ UNCHANGED event
      \/ life = "stopped" /\ life' = "zombie" /\ event' = Died("INT") /\ UNCHANGED step
  <2> DEFINE stepping == Head(line).t \in {"s", "S"}
             sig      == IF Head(line).t \in {"C", "S"} THEN "INT" ELSE "none"
  <2>1. stepping \in BOOLEAN /\ sig \in {"INT", "none"} /\ DarwinResume(stepping, sig)
    BY <1>1
  <2> HIDE DEF stepping, sig
  <2> QED BY <2>1 DEF DarwinResume
<1>4. TypeOK /\ life \notin {"none", "running", "trapped", "free"} /\ current_inferior # "freed"
  BY <1>2 DEF Inv, ProcessInv, Waits, FreedLast
<1>5. TypeOK'
  BY <1>1, <1>2, <1>3, StatusValues DEF Inv, TypeOK, Lives, Token, debugger
<1>6. FreedLast' /\ TrapsExplained'
  BY <1>1, <1>3, <1>4 DEF FreedLast, TrapsExplained
<1>7. TrapsListed'
  BY <1>1, <1>3 DEF Inv, ProcessInv, TrapsListed, Listed, Distinct
<1>8. Waits' /\ StatusKept'
  BY <1>1, <1>2, <1>3, <1>4, StatusValues DEF Inv, ProcessInv, Waits, StatusKept, Gone
<1>9. InterruptsOnce'
  BY <1>1, <1>2, SameInterrupts DEF debugger
<1> QED BY <1>2, <1>5, <1>6, <1>7, <1>8, <1>9 DEF Inv, ProcessInv

\* D finds the list empty: the debugger has lifted its breakpoints, and there
\* are no others.
LEMMA HandleDetachInv == ASSUME Inv, HandleDetach PROVE Inv'
<1>1. /\ Received({"D"}) /\ server' = "answer"
      /\ life' = (IF life = "stopped" THEN "free" ELSE life) /\ current_inferior' = "freed"
      /\ UNCHANGED <<attached, status, breakpoints, event, pc, mem, step, sigint, debugger>>
  BY DEF HandleDetach
<1>2. /\ server = "getpkt" /\ own_buf' \in Reply /\ own_buf'.to = "D"
      /\ Head(line).t = "D" /\ planted = {} /\ planted = Planted
      /\ line' \in Seq(Token) /\ out' \in Seq(Reply \cup [t : {"+"}])
      /\ \A i \in DOMAIN line' : line'[i].t # "^C"
      /\ LineInv' /\ Unread' = Unread
  <2>1. {"D"} \in SUBSET Types
    BY DEF Types
  <2>2. Planted' = Planted
    BY <1>1 DEF Planted
  <2> QED BY <1>1, <2>1, <2>2, RequestTaken DEF debugger
<1>3. TypeOK'
  BY <1>1, <1>2 DEF Inv, TypeOK, Lives, Token, debugger
<1>4. FreedLast' /\ TrapsExplained'
  BY <1>1, <1>2 DEF FreedLast, TrapsExplained
<1>5. TrapsListed'
  BY <1>1 DEF Inv, ProcessInv, TrapsListed, Listed, Distinct
<1>6. Waits' /\ StatusKept'
  <2>1. breakpoints = <<>>
    BY <1>2, NonePlanted DEF Inv, TypeOK
  <2> QED BY <1>1, <1>2, <2>1 DEF Inv, ProcessInv, Waits, StatusKept
<1>7. InterruptsOnce'
  BY <1>1, <1>2, SameInterrupts DEF debugger
<1> QED BY <1>2, <1>3, <1>4, <1>5, <1>6, <1>7 DEF Inv, ProcessInv

\* The process dies before its thread is freed.
LEMMA HandleKillInv == ASSUME Inv, HandleKill PROVE Inv'
<1>1. /\ Received({"k"}) /\ server' = "kill"
      /\ \/ life = "stopped" /\ life' = "zombie" /\ event' = Died("KILL")
         \/ life # "stopped" /\ UNCHANGED <<life, event>>
      /\ UNCHANGED <<attached, status, breakpoints, current_inferior, pc, mem, step, sigint, debugger>>
  BY DEF HandleKill
<1>2. /\ server = "getpkt" /\ own_buf' \in Reply
      /\ line' \in Seq(Token) /\ out' \in Seq(Reply \cup [t : {"+"}])
      /\ LineInv' /\ Unread' = Unread
  <2>1. {"k"} \in SUBSET Types
    BY DEF Types
  <2>2. Planted' = Planted
    BY <1>1 DEF Planted
  <2> QED BY <1>1, <2>1, <2>2, RequestTaken DEF debugger
<1>3. TypeOK'
  BY <1>1, <1>2, StatusValues DEF Inv, TypeOK, Lives, Token, debugger
<1>4. FreedLast' /\ TrapsExplained'
  BY <1>1, <1>2 DEF Inv, ProcessInv, FreedLast, TrapsExplained
<1>5. TrapsListed'
  BY <1>1 DEF Inv, ProcessInv, TrapsListed, Listed, Distinct
<1>6. Waits' /\ StatusKept'
  BY <1>1, <1>2, StatusValues DEF Inv, ProcessInv, Waits, FreedLast, StatusKept, Gone
<1>7. InterruptsOnce'
  BY <1>1, <1>2, SameInterrupts DEF debugger
<1> QED BY <1>2, <1>3, <1>4, <1>5, <1>6, <1>7 DEF Inv, ProcessInv

\* The reply goes out.
LEMMA PutpktWritesInv == ASSUME Inv, PutpktWrites PROVE Inv'
<1>1. /\ server = "answer" /\ ToClient(own_buf) /\ server' = "putpkt"
      /\ UNCHANGED <<attached, status, breakpoints, current_inferior, own_buf, process, line, debugger>>
  BY DEF PutpktWrites
<1>2. out' \in Seq(Reply \cup [t : {"+"}]) /\ Acks' /\ (Acked' => Acked)
  BY <1>1, ReplyWritten DEF debugger
<1>3. LineInv' /\ Unread' = Unread
  <2>1. ~ Asked /\ client # "idle" /\ LineInv
    BY <1>1 DEF Inv, LineInv, Awaited
  <2>2. ~ Asked' /\ Unread' = Unread /\ UNCHANGED <<client, planted, hung_up>> /\ Planted' = Planted
    BY <1>1, <2>1 DEF Asked, Unread, Planted, debugger
  <2>3. Unopened' /\ GreetedFirst' /\ Left' /\ Awaited'
    BY <1>1, <2>1, <2>2
       DEF LineInv, Unopened, Starting, GreetedFirst, Greeted, Left, Awaited
  <2>4. OneRequest' /\ NoneBehind' /\ AckAhead'
    BY <2>1, <2>2 DEF OneRequest, NoneBehind, AckAhead, Asked
  <2>5. ListsAgree'
    BY <1>1, <2>1, <2>2 DEF LineInv, ListsAgree
  <2> QED BY <1>2, <2>2, <2>3, <2>4, <2>5 DEF LineInv
<1>4. TypeOK'
  BY <1>1, <1>2 DEF Inv, TypeOK, process, debugger
<1>5. FreedLast' /\ TrapsExplained'
  BY <1>1 DEF Inv, ProcessInv, FreedLast, TrapsExplained
<1>6. TrapsListed' /\ Waits' /\ StatusKept'
  BY <1>1
     DEF Inv, ProcessInv, TrapsListed, Listed, Distinct, Planted, Waits, StatusKept, Gone, process
<1>7. InterruptsOnce'
  BY <1>1, <1>3, SameInterrupts DEF process, debugger
<1> QED BY <1>2, <1>3, <1>4, <1>5, <1>6, <1>7 DEF Inv, ProcessInv

\* A ^C in place of the ack becomes at most one SIGINT, and the reply to D
\* meets none.
LEMMA PutpktReadsInv == ASSUME Inv, PutpktReads PROVE Inv'
<1>1. /\ server = "putpkt" /\ line # <<>> /\ line' = Tail(line)
      /\ sigint' = (sigint \/ (Head(line).t = "^C" /\ Alive))
      /\ \/ Head(line).t = "+" /\ PutpktReturns /\ UNCHANGED out
         \/ Head(line).t # "+" /\ ToClient(own_buf) /\ UNCHANGED <<server, own_buf>>
      /\ UNCHANGED <<attached, status, breakpoints, current_inferior, life, event, pc, mem, step, debugger>>
  BY DEF PutpktReads, Signals
<1>2. /\ line' \in Seq(Token) /\ OneRequest' /\ NoneBehind' /\ ListsAgree' /\ (Asked' => Asked)
      /\ \A i \in DOMAIN line' : i + 1 \in DOMAIN line /\ line'[i] = line[i + 1]
      /\ Head(line).t # "+" => AckAhead'
      /\ Unread' = Unread - (IF Head(line).t = "^C" THEN 1 ELSE 0)
  <2>1. /\ Head(line) = line[1] /\ 1 \in DOMAIN line
        /\ \A i \in DOMAIN line : i \in Nat /\ i >= 1
    BY <1>1, LineRead DEF Inv
  <2>2. Head(line).t \in {"+", "^C"}
    BY <1>1, <2>1 DEF Inv, LineInv, AckAhead, IsRequest
  <2> QED BY <1>1, <2>2, CharTaken DEF debugger
<1>3. out' \in Seq(Reply \cup [t : {"+"}]) /\ Acks' /\ (Acked' => Acked)
  <2>1. CASE ToClient(own_buf)
    BY <1>1, <2>1, ReplyWritten DEF debugger
  <2>2. CASE UNCHANGED out
    BY <1>1, <2>2 DEF debugger, Inv, TypeOK, LineInv, Acks, Acked
  <2> QED BY <1>1, <2>1, <2>2
<1>4. \/ server' = "putpkt" /\ own_buf' = own_buf /\ Head(line).t # "+"
      \/ server' = AfterReply /\ own_buf' \in {Blank, own_buf}
  BY <1>1 DEF PutpktReturns
<1>5. TypeOK'
  <2>1. server' \in {"putpkt", "getpkt", "last", "exited"}
    BY <1>4 DEF AfterReply
  <2>2. own_buf' \in Reply /\ sigint' \in BOOLEAN
    BY <1>1, <1>4, BlankType DEF Inv, TypeOK
  <2> QED BY <1>1, <1>2, <1>3, <2>1, <2>2 DEF Inv, TypeOK, Token, debugger
<1>6. FreedLast' /\ TrapsExplained'
  BY <1>1, <1>2, <1>4 DEF AfterReply, Inv, ProcessInv, FreedLast, TrapsExplained
<1>7. TrapsListed'
  BY <1>1, <1>4 DEF AfterReply, Inv, ProcessInv, TrapsListed, Listed, Distinct, Planted
<1>8. Waits' /\ StatusKept'
  BY <1>1, <1>4 DEF AfterReply, Inv, ProcessInv, Waits, StatusKept, Gone
<1>9. InterruptsOnce'
  <2>1. Unread \in Nat /\ unanswered \in 0 .. MaxInterrupts
    BY UnreadType DEF Inv
  <2>2. sigint' => sigint \/ Head(line).t = "^C"
    BY <1>1, Zenon
  <2>3. unanswered' = unanswered /\ (IF sigint THEN 1 ELSE 0) + Unread <= unanswered
    BY <1>1 DEF Inv, InterruptsOnce, debugger
  <2>4. (IF sigint' THEN 1 ELSE 0) + Unread' <= unanswered
    BY <1>2, <2>1, <2>2, <2>3, SessionAssumption
  <2> QED BY <2>3, <2>4 DEF InterruptsOnce
<1>10. Unopened' /\ Left' /\ GreetedFirst' /\ Awaited' /\ AckAhead'
  BY <1>1, <1>2, <1>3, <1>4
     DEF AfterReply, debugger, Inv, LineInv, Unopened, Starting, Left, GreetedFirst, Greeted,
         Awaited, AckAhead
<1> QED BY <1>2, <1>3, <1>5, <1>6, <1>7, <1>8, <1>9, <1>10 DEF Inv, LineInv, ProcessInv

-----------------------------------------------------------------------------
(* The debugger.                                                           *)

\* One request, the only one on its way.
LEMMA ClientSendsInv == ASSUME Inv, NEW request \in Request, ClientSends(request) PROVE Inv'
<1> DEFINE n == Len(line) + 1
<1>1. /\ client = "idle" /\ client' = "ack" /\ Polite(request) /\ line' = Append(line, request)
      /\ UNCHANGED <<stub, process, out, told_gone, hung_up, unanswered>>
      /\ LineInv /\ TypeOK /\ ~ Asked
  BY DEF ClientSends, Inv, LineInv, OneRequest
<1>2. /\ request \in Token /\ IsRequest(request) /\ request.t # "^C"
      /\ request.t \in {"Z0", "z0"} => request.where \in Sites
  BY DEF Request, Token, IsRequest
<1>3. /\ line' \in Seq(Token) /\ Len(line) \in Nat
      /\ DOMAIN line = 1 .. Len(line) /\ DOMAIN line' = 1 .. n
      /\ \A i \in DOMAIN line : i \in DOMAIN line' /\ line'[i] = line[i]
      /\ line'[n] = request
      /\ \A i \in DOMAIN line' : i \in DOMAIN line \/ i = n
      /\ Unread' = Unread
  <2>1. Unread \in Nat
    BY <1>1, UnreadType
  <2> QED BY <1>1, <1>2, <2>1, LineWritten
<1>4. \A i \in DOMAIN line' : IsRequest(line'[i]) => i = n
  BY <1>1, <1>3 DEF Asked
<1>5. Asked' /\ (Acked' <=> Acked)
  BY <1>1, <1>2, <1>3 DEF Asked, Acked
<1>6. GreetedFirst'
  BY <1>1, <1>5 DEF LineInv, GreetedFirst, Greeted, stub
<1>7. OneRequest' /\ Left' /\ Unopened'
  BY <1>1, <1>4 DEF LineInv, OneRequest, Left, Unopened, stub
<1>8. Acks'
  BY <1>1 DEF LineInv, Acks
<1>9. NoneBehind'
  <2>1. \A i, j \in DOMAIN line' : i = n => ~ (i < j)
    BY <1>3
  <2> QED BY <1>4, <2>1 DEF NoneBehind
<1>10. Awaited'
  BY <1>1 DEF LineInv, Awaited, stub
<1>11. AckAhead'
  <2>1. SUFFICES ASSUME server = "putpkt", NEW j \in DOMAIN line', IsRequest(line'[j])
                 PROVE  \E i \in DOMAIN line' : i < j /\ line'[i].t = "+"
    BY <1>1 DEF AckAhead, stub
  <2>2. PICK i \in DOMAIN line : line[i].t = "+"
    BY <1>1, <2>1 DEF LineInv, AckAhead
  <2>3. i \in DOMAIN line' /\ line'[i].t = "+" /\ j = n /\ i < n
    BY <1>3, <1>4, <2>1, <2>2
  <2> QED BY <2>3
<1>12. planted' \subseteq Sites /\ ListsAgree'
  <2>1. server \in {"getpkt", "mywait", "answer", "putpkt"} => Planted = planted
    BY <1>1 DEF LineInv, ListsAgree, Asked, IsRequest
  <2>2. Planted' = Planted /\ server' = server
    BY <1>1 DEF Planted, stub
  <2>3. /\ request.t = "Z0" => request.where \notin planted /\ planted' = planted \cup {request.where}
        /\ request.t = "z0" => planted' = planted \ {request.where}
        /\ request.t = "D"  => planted = {}
        /\ request.t \notin {"Z0", "z0"} => planted' = planted
    BY DEF ClientSends, Polite
  <2>4. \A i \in DOMAIN line' : line'[i].t \in {"Z0", "z0", "D"} => line'[i] = request
    BY <1>3, <1>4 DEF IsRequest
  <2>5. (\A i \in DOMAIN line' : line'[i].t \notin {"Z0", "z0"}) => planted' = planted
    <3>1. n \in DOMAIN line'
      BY <1>3
    <3> QED BY <1>3, <2>3, <3>1
  <2>6. planted' \subseteq Sites
    <3>1. planted \subseteq Sites
      BY <1>1 DEF TypeOK
    <3>2. request.t = "Z0" => request.where \in Sites
      BY <1>2
    <3> QED BY <2>3, <3>1, <3>2
  <2> HIDE DEF n
  <2> QED BY <2>1, <2>2, <2>3, <2>4, <2>5, <2>6 DEF ListsAgree
<1>13. TypeOK'
  BY <1>1, <1>3, <1>12 DEF TypeOK, Token, stub, process
<1>14. FreedLast'
  BY <1>1, <1>2, <1>3 DEF Inv, ProcessInv, FreedLast, stub
<1>15. InterruptsOnce'
  BY <1>1, <1>3, SameInterrupts DEF process
<1>16. TrapsListed' /\ Waits' /\ StatusKept' /\ TrapsExplained'
  <2>1. server # "mywait"
    BY <1>1 DEF LineInv, Awaited
  <2> QED BY <1>1, <2>1, StubQuiet
<1> QED BY <1>6, <1>7, <1>8, <1>9, <1>10, <1>11, <1>12, <1>13, <1>14, <1>15, <1>16
           DEF Inv, LineInv, ProcessInv

\* An ack, or the greeting taken for one, ends the wait for it.
LEMMA ClientReadsAck ==
  ASSUME Inv, ClientReads, Head(out).t = "+"
  PROVE  Inv'
<1>1. /\ client \in {"ack", "reply"} /\ client' = "reply" /\ out # <<>> /\ out' = Tail(out)
      /\ UNCHANGED <<line, told_gone>>
      /\ UNCHANGED <<stub, process, planted, hung_up, unanswered>>
      /\ LineInv /\ TypeOK
  BY DEF ClientReads, Inv
<1>2. /\ Head(out) = out[1] /\ 1 \in DOMAIN out
      /\ out' \in Seq(Reply \cup [t : {"+"}])
      /\ \A i \in DOMAIN out' : i \in Nat /\ i + 1 \in DOMAIN out /\ i + 1 # 1 /\ out'[i] = out[i + 1]
  BY <1>1, OutRead
<1>3. Acked /\ (Asked' <=> Asked) /\ Unread' = Unread /\ Planted' = Planted
  BY <1>1, <1>2 DEF Acked, Asked, Unread, Planted, stub
<1>4. GreetedFirst'
  <2>1. SUFFICES ASSUME Asked PROVE GreetedFirst'
    BY <1>1, <1>3 DEF GreetedFirst, Greeted
  <2>2. server = "getpkt" /\ own_buf = Blank /\ \A i \in DOMAIN out : i = 1
    BY <1>1, <1>3, <2>1 DEF LineInv, GreetedFirst, Greeted
  <2>3. DOMAIN out' = {}
    BY <1>2, <2>2
  <2> QED BY <1>1, <2>2, <2>3 DEF GreetedFirst, stub
<1>5. Acks'
  <2>1. ASSUME NEW i \in DOMAIN out', out'[i].t = "+" PROVE i = 1
    <3>1. /\ i + 1 \in DOMAIN out /\ out[i + 1].t = "+" /\ i + 1 # 1 /\ i \in Nat
          /\ out[1].t = "+" /\ 1 \in DOMAIN out
      BY <1>2, <2>1
    <3>2. i + 1 \in {1, 2}
      BY <1>1, <3>1 DEF LineInv, Acks
    <3> QED BY <3>1, <3>2
  <2> QED BY <1>1, <2>1 DEF Acks
<1>6. OneRequest' /\ Left' /\ Unopened' /\ NoneBehind'
  BY <1>1, <1>3 DEF LineInv, OneRequest, Left, Unopened, NoneBehind, stub
<1>7. Awaited'
  <2>1. SUFFICES ASSUME server \in {"mywait", "answer"}, NEW i \in DOMAIN out'
                 PROVE  out'[i].t = "+"
    BY <1>1, <1>3 DEF LineInv, Awaited, stub
  <2>2. i + 1 \in DOMAIN out /\ 1 < i + 1 /\ out'[i] = out[i + 1] /\ out[1].t = "+" /\ 1 \in DOMAIN out
    BY <1>2
  <2> QED BY <1>1, <2>1, <2>2 DEF LineInv, Awaited
<1>8. AckAhead' /\ ListsAgree'
  BY <1>1, <1>3 DEF LineInv, AckAhead, ListsAgree, stub
<1>9. FreedLast'
  BY <1>1 DEF Inv, ProcessInv, FreedLast, stub
<1>10. TypeOK'
  BY <1>1, <1>2 DEF TypeOK, stub, process
<1>11. InterruptsOnce'
  BY <1>1, <1>3, SameInterrupts DEF process
<1> QED BY <1>1, <1>4, <1>5, <1>6, <1>7, <1>8, <1>9, <1>10, <1>11, StubQuiet
           DEF Inv, LineInv, ProcessInv

\* A reply is acknowledged, and is the one waited for unless an ack is.
LEMMA ClientReadsReply ==
  ASSUME Inv, ClientReads, Head(out).t # "+"
  PROVE  Inv'
<1> DEFINE n == Len(line) + 1
<1>1. /\ client \in {"ack", "reply"} /\ client' = (IF client = "ack" THEN "ack" ELSE "idle")
      /\ out # <<>> /\ out' = Tail(out) /\ line' = Append(line, Char("+"))
      /\ UNCHANGED <<stub, process, planted, hung_up, unanswered>>
      /\ told_gone' \in BOOLEAN
      /\ LineInv /\ TypeOK
  BY DEF ClientReads, Inv, TypeOK
<1>2. /\ Head(out) = out[1] /\ 1 \in DOMAIN out /\ out[1].t # "+"
      /\ out' \in Seq(Reply \cup [t : {"+"}])
      /\ \A i \in DOMAIN out' : i \in Nat /\ i + 1 \in DOMAIN out /\ i + 1 # 1 /\ out'[i] = out[i + 1]
  BY <1>1, OutRead
<1>3. /\ line' \in Seq(Token) /\ Len(line) \in Nat
      /\ DOMAIN line = 1 .. Len(line) /\ DOMAIN line' = 1 .. n
      /\ \A i \in DOMAIN line : i \in DOMAIN line' /\ line'[i] = line[i]
      /\ line'[n].t = "+"
      /\ \A i \in DOMAIN line' : i \in DOMAIN line \/ i = n
      /\ Unread' = Unread
  <2>1. Char("+") \in Token /\ Char("+").t = "+"
    BY DEF Token, Char
  <2>2. Unread \in Nat
    BY <1>1, UnreadType
  <2> QED BY <1>1, <2>1, <2>2, LineWritten
<1>4. n \in DOMAIN line' /\ \A i \in DOMAIN line' : line'[i].t # "+" => i \in DOMAIN line /\ line'[i] = line[i]
  BY <1>3
<1> HIDE DEF n
<1>5. (Asked' => Asked) /\ (Acked' => Acked) /\ Planted' = Planted
  BY <1>1, <1>2, <1>4 DEF Asked, Acked, Planted, IsRequest, stub
<1>6. ~ Greeted /\ ~ Greeted' /\ (client = "reply" => ~ Asked)
  <2>1. Greeted => DOMAIN out # {} /\ \A i \in DOMAIN out : i = 1
    BY <1>1, <1>2 DEF LineInv, GreetedFirst
  <2>2. Asked => Greeted \/ client # "reply"
    BY DEF Greeted
  <2>3. ~ (Greeted /\ client = "reply")
    BY <1>1, <1>2 DEF LineInv, GreetedFirst
  <2>4. ~ (Asked /\ Acked)
    <3>1. Asked /\ Acked => Greeted /\ \E i \in DOMAIN out : out[i].t = "+"
      BY DEF Greeted, Acked
    <3> QED BY <1>2, <2>1, <3>1
  <2>5. client = "reply" => ~ Acked'
    <3>1. ASSUME client = "reply", NEW i \in DOMAIN out' PROVE out'[i].t # "+"
      BY <1>1, <1>2, <3>1 DEF LineInv, Acks
    <3> QED BY <3>1 DEF Acked
  <2> QED BY <1>1, <1>5, <2>2, <2>3, <2>4, <2>5 DEF Greeted
<1>7. GreetedFirst' /\ Left' /\ Unopened'
  BY <1>1, <1>6 DEF LineInv, GreetedFirst, Left, Unopened, stub
<1>8. OneRequest'
  BY <1>1, <1>4, <1>5, <1>6 DEF LineInv, OneRequest, IsRequest
<1>9. Acks'
  <2>1. ASSUME client = "reply", NEW i \in DOMAIN out' PROVE out'[i].t # "+"
    BY <1>1, <1>2, <2>1 DEF LineInv, Acks
  <2>2. ASSUME client = "ack", NEW i \in DOMAIN out', NEW j \in DOMAIN out',
               out'[i].t = "+", out'[j].t = "+"
        PROVE  i = j
    <3>1. /\ i + 1 \in DOMAIN out /\ out[i + 1].t = "+" /\ i + 1 # 1 /\ i \in Nat
          /\ j + 1 \in DOMAIN out /\ out[j + 1].t = "+" /\ j + 1 # 1 /\ j \in Nat
      BY <1>2, <2>2
    <3>2. i + 1 = j + 1 \/ (i + 1 \in {1, 2} /\ j + 1 \in {1, 2})
      BY <1>1, <2>2, <3>1 DEF LineInv, Acks
    <3> QED BY <3>1, <3>2
  <2> QED BY <1>1, <2>1, <2>2 DEF Acks
<1>10. NoneBehind'
  BY <1>1, <1>4 DEF LineInv, NoneBehind, IsRequest
<1>11. Awaited'
  <2>1. SUFFICES ASSUME server \in {"mywait", "answer"} PROVE Awaited'
    BY <1>1 DEF Awaited, stub
  <2>2. client = "ack" /\ ~ Asked
    BY <1>1, <1>2, <2>1 DEF LineInv, Awaited
  <2>3. ASSUME NEW i \in DOMAIN out', NEW j \in DOMAIN out', out'[i].t = "+", i < j
        PROVE  out'[j].t = "+"
    <3>1. /\ i + 1 \in DOMAIN out /\ out[i + 1].t = "+" /\ i + 1 < j + 1
          /\ j + 1 \in DOMAIN out /\ out'[j] = out[j + 1]
      BY <1>2, <2>3
    <3> QED BY <1>1, <2>1, <2>2, <3>1 DEF LineInv, Awaited
  <2> QED BY <1>1, <1>5, <2>2, <2>3 DEF Awaited
<1>12. AckAhead'
  <2>1. SUFFICES ASSUME server = "putpkt", NEW j \in DOMAIN line', IsRequest(line'[j])
                 PROVE  \E i \in DOMAIN line' : i < j /\ line'[i].t = "+"
    BY <1>1, <1>3, <1>4 DEF AckAhead, stub
  <2>2. j \in DOMAIN line /\ IsRequest(line[j])
    BY <1>4, <2>1 DEF IsRequest
  <2>3. PICK i \in DOMAIN line : i < j /\ line[i].t = "+"
    BY <1>1, <2>1, <2>2 DEF LineInv, AckAhead
  <2> QED BY <1>3, <2>3
<1>13. ListsAgree'
  <2>1. (\A i \in DOMAIN line' : line'[i].t \notin {"Z0", "z0"})
          => \A i \in DOMAIN line : line[i].t \notin {"Z0", "z0"}
    BY <1>3
  <2> QED BY <1>1, <1>4, <1>5, <2>1 DEF LineInv, ListsAgree, stub
<1>14. FreedLast'
  BY <1>1, <1>4 DEF Inv, ProcessInv, FreedLast, stub
<1>15. TypeOK'
  BY <1>1, <1>2, <1>3 DEF TypeOK, Token, stub, process
<1>16. InterruptsOnce'
  BY <1>1, <1>3, SameInterrupts DEF process
<1> QED BY <1>1, <1>7, <1>8, <1>9, <1>10, <1>11, <1>12, <1>13, <1>14, <1>15, <1>16, StubQuiet
           DEF Inv, LineInv, ProcessInv

\* ^C is typed while a resumption runs, or is still to be read.
LEMMA ClientInterruptsInv == ASSUME Inv, ClientInterrupts PROVE Inv'
<1> DEFINE n == Len(line) + 1
<1>1. /\ client = "reply" /\ unanswered < MaxInterrupts
      /\ Resumes(own_buf.to) \/ \E i \in DOMAIN line : Resumes(line[i].t)
      /\ line' = Append(line, Char("^C")) /\ unanswered' = unanswered + 1
      /\ UNCHANGED <<stub, process, out, client, planted, told_gone, hung_up>>
      /\ LineInv /\ TypeOK
  BY DEF ClientInterrupts, Inv
<1>2. Char("^C") \in Token /\ Char("^C").t = "^C"
  BY DEF Token, Char
<1>3. /\ line' \in Seq(Token) /\ Len(line) \in Nat
      /\ DOMAIN line = 1 .. Len(line) /\ DOMAIN line' = 1 .. n
      /\ \A i \in DOMAIN line : i \in DOMAIN line' /\ line'[i] = line[i]
      /\ line'[n].t = "^C"
      /\ \A i \in DOMAIN line' : i \in DOMAIN line \/ i = n
      /\ Unread' = Unread + 1
  BY <1>1, <1>2, LineWritten
<1>4. \A i \in DOMAIN line' : line'[i].t # "^C" => i \in DOMAIN line /\ line'[i] = line[i]
  BY <1>3
<1>5. (Asked' <=> Asked) /\ (Acked' <=> Acked) /\ Planted' = Planted
  BY <1>1, <1>3, <1>4 DEF Asked, Acked, Planted, IsRequest, stub
<1>6. Asked => /\ server = "getpkt" /\ \E i \in DOMAIN line : Resumes(line[i].t)
  <2>1. Asked => server = "getpkt" /\ own_buf = Blank
    BY <1>1 DEF LineInv, GreetedFirst, Greeted
  <2> QED BY <1>1, <2>1 DEF Blank, Resumes
<1>7. GreetedFirst' /\ Left' /\ Unopened'
  BY <1>1, <1>5 DEF LineInv, GreetedFirst, Greeted, Left, Unopened, stub
<1>8. OneRequest' /\ Acks'
  BY <1>1, <1>4, <1>5 DEF LineInv, OneRequest, Acks, IsRequest
<1>9. NoneBehind'
  <2>1. SUFFICES ASSUME NEW i \in DOMAIN line', IsRequest(line'[i]) PROVE Resumes(line'[i].t)
    BY DEF NoneBehind
  <2>2. i \in DOMAIN line /\ line'[i] = line[i] /\ IsRequest(line[i])
    BY <1>4, <2>1 DEF IsRequest
  <2>3. PICK k \in DOMAIN line : Resumes(line[k].t)
    BY <1>6, <2>2 DEF Asked
  <2>4. IsRequest(line[k])
    BY <2>3 DEF Resumes, IsRequest
  <2> QED BY <1>1, <2>2, <2>3, <2>4 DEF LineInv, OneRequest
<1>10. Awaited'
  BY <1>1, <1>5 DEF LineInv, Awaited, stub
<1>11. AckAhead'
  BY <1>1, <1>3, <1>4 DEF LineInv, AckAhead, IsRequest, stub
<1>12. ListsAgree'
  <2>1. (\A i \in DOMAIN line' : line'[i].t \notin {"Z0", "z0"})
          => \A i \in DOMAIN line : line[i].t \notin {"Z0", "z0"}
    BY <1>3
  <2> QED BY <1>1, <1>4, <1>5, <2>1 DEF LineInv, ListsAgree, stub
<1>13. FreedLast'
  <2>1. server \in {"answer", "putpkt"} => Resumes(own_buf.to)
    <3>1. (\E i \in DOMAIN line : Resumes(line[i].t)) => Asked
      BY DEF Asked, Resumes, IsRequest
    <3> QED BY <1>1, <1>6, <3>1
  <2> QED BY <1>1, <2>1 DEF Inv, ProcessInv, FreedLast, Resumes, stub
<1>14. unanswered \in 0 .. MaxInterrupts /\ unanswered' \in 0 .. MaxInterrupts /\ Unread \in Nat
  <2>1. unanswered \in 0 .. MaxInterrupts /\ Unread \in Nat
    BY <1>1, UnreadType
  <2> QED BY <1>1, <2>1, SessionAssumption
<1>15. TypeOK'
  BY <1>1, <1>3, <1>14 DEF TypeOK, Token, stub, process
<1>16. InterruptsOnce'
  BY <1>1, <1>3, <1>14, SessionAssumption DEF Inv, InterruptsOnce, process
<1> QED BY <1>1, <1>7, <1>8, <1>9, <1>10, <1>11, <1>12, <1>13, <1>15, <1>16, StubQuiet
           DEF Inv, LineInv, ProcessInv

\* The debugger stops waiting, or is gone; nothing is sent or read.
LEMMA ClientTurns ==
  ASSUME Inv, UNCHANGED <<stub, process, line, out, planted, unanswered>>,
         \/ /\ client' = "idle" /\ client = "reply" /\ out = <<>> /\ line = <<>>
            /\ server = "getpkt" /\ UNCHANGED hung_up
         \/ client' = "closed" /\ server \notin Starting,
         told_gone' \in BOOLEAN, hung_up' \in BOOLEAN
  PROVE  Inv'
<1>1. /\ line' = line /\ out' = out /\ planted' = planted
      /\ server' = server /\ breakpoints' = breakpoints /\ own_buf' = own_buf
      /\ current_inferior' = current_inferior /\ LineInv /\ FreedLast /\ TypeOK
  BY DEF Inv, ProcessInv, stub
<1>2. (Asked' <=> Asked) /\ (Acked' <=> Acked) /\ Unread' = Unread /\ Planted' = Planted
  BY <1>1 DEF Asked, Acked, Unread, Planted
<1>3. client' \in {"idle", "closed"}
  OBVIOUS
<1>4. ASSUME client' = "closed", server \notin Starting
      PROVE  /\ Unopened' /\ GreetedFirst' /\ Left' /\ OneRequest'
             /\ Acks' /\ NoneBehind' /\ Awaited' /\ AckAhead'
  <2>1. Unopened' /\ GreetedFirst' /\ Left' /\ OneRequest'
    BY <1>1, <1>2, <1>4 DEF LineInv, Unopened, GreetedFirst, Greeted, Left, OneRequest
  <2>2. Acks' /\ NoneBehind' /\ Awaited' /\ AckAhead'
    <3>1. Acks'
      BY <1>1, <1>4 DEF LineInv, Acks
    <3>2. NoneBehind'
      BY <1>1 DEF LineInv, NoneBehind
    <3>3. Awaited' /\ AckAhead'
      BY <1>1, <1>2, <1>4 DEF LineInv, Awaited, AckAhead
    <3> QED BY <3>1, <3>2, <3>3
  <2> QED BY <2>1, <2>2
<1>5. ASSUME client' = "idle", client = "reply", out = <<>>, line = <<>>,
             server = "getpkt", UNCHANGED hung_up
      PROVE  /\ Unopened' /\ GreetedFirst' /\ Left' /\ OneRequest'
             /\ Acks' /\ NoneBehind' /\ Awaited' /\ AckAhead'
  <2>1. ~ Asked /\ ~ Acked
    BY <1>5 DEF Asked, Acked
  <2>2. Unopened' /\ GreetedFirst' /\ Left' /\ OneRequest'
    BY <1>1, <1>2, <1>5, <2>1
       DEF LineInv, Unopened, Starting, GreetedFirst, Greeted, Left, OneRequest
  <2>3. Acks' /\ NoneBehind' /\ Awaited' /\ AckAhead'
    <3>1. Acks'
      BY <1>1, <1>5 DEF LineInv, Acks
    <3>2. NoneBehind'
      BY <1>1 DEF LineInv, NoneBehind
    <3>3. Awaited' /\ AckAhead'
      BY <1>1, <1>2, <1>5 DEF LineInv, Awaited, AckAhead
    <3> QED BY <3>1, <3>2, <3>3
  <2> QED BY <2>2, <2>3
<1>6. /\ Unopened' /\ GreetedFirst' /\ Left' /\ OneRequest'
      /\ Acks' /\ NoneBehind' /\ Awaited' /\ AckAhead'
  <2> HIDE DEF Unopened, GreetedFirst, Left, OneRequest, Acks, NoneBehind, Awaited, AckAhead
  <2> QED BY <1>4, <1>5, Zenon
<1>7. ListsAgree' /\ FreedLast'
  BY <1>1, <1>2 DEF LineInv, ListsAgree, FreedLast
<1>8. TypeOK'
  BY <1>1, <1>3 DEF TypeOK, stub, process
<1>9. InterruptsOnce'
  BY <1>2, SameInterrupts DEF process
<1> QED BY <1>6, <1>7, <1>8, <1>9, StubQuiet DEF Inv, LineInv, ProcessInv

\* The three ways to do so.
LEMMA ClientTurnsInv ==
  ASSUME Inv, ClientGivesUp \/ ClientHangsUp \/ ClientSeesEOF
  PROVE  Inv'
<1>1. server \in Starting => client = "closed"
  BY DEF Inv, LineInv, Unopened
<1>2. told_gone \in BOOLEAN /\ hung_up \in BOOLEAN
  BY DEF Inv, TypeOK
<1>3. CASE ClientGivesUp
  BY <1>2, <1>3, ClientTurns DEF ClientGivesUp
<1>4. CASE ClientHangsUp
  BY <1>1, <1>2, <1>4, ClientTurns DEF ClientHangsUp
<1>5. CASE ClientSeesEOF
  BY <1>1, <1>2, <1>5, ClientTurns DEF ClientSeesEOF
<1> QED BY <1>3, <1>4, <1>5

-----------------------------------------------------------------------------
(* The theorems.                                                           *)

\* The stub starts with nothing done.
LEMMA InitInv == ASSUME Init PROVE Inv
<1>1. TypeOK
  <2>1. /\ breakpoints \in Seq(Breakpoint) /\ line \in Seq(Request \cup [t : {"+", "^C"}])
        /\ out \in Seq(Reply \cup [t : {"+"}])
    BY EmptySeq DEF Init
  <2>2. pc \in 0 .. End /\ unanswered \in 0 .. MaxInterrupts
    BY SessionAssumption DEF Init
  <2> QED BY <2>1, <2>2, StatusValues, BlankType DEF Init, TypeOK, Lives
<1>2. LineInv
  <2>1. Unopened /\ Left /\ OneRequest /\ Acks /\ NoneBehind
    BY DEF Init, Unopened, Left, OneRequest, Acks, NoneBehind
  <2>2. GreetedFirst /\ Awaited /\ AckAhead /\ ListsAgree
    BY DEF Init, GreetedFirst, Greeted, Asked, Acked, Awaited, AckAhead, ListsAgree
  <2> QED BY <2>1, <2>2 DEF LineInv
<1>3. ProcessInv
  BY DEF Init, ProcessInv, FreedLast, TrapsListed, Listed, Distinct, Waits, StatusKept,
         TrapsExplained
<1>4. InterruptsOnce
  <2>1. {i \in DOMAIN line : line[i].t = "^C"} = {}
    BY DEF Init
  <2>2. Unread = 0
    BY <2>1, FS_EmptySet DEF Unread
  <2> QED BY <2>2 DEF Init, InterruptsOnce
<1> QED BY <1>1, <1>2, <1>3, <1>4 DEF Inv

\* Stuttering.
LEMMA StutterInv == ASSUME Inv, UNCHANGED vars PROVE Inv'
<1>1. UNCHANGED <<stub, process, line, out, client, planted, told_gone, hung_up, unanswered>>
  BY DEF vars, stub, process
<1>2. LineInv' /\ FreedLast' /\ Unread' = Unread
  BY <1>1, LineStays
<1>3. TypeOK'
  <2>1. TypeOK
    BY DEF Inv
  <2>2. life' \in Lives /\ event' \in Statuses /\ pc' \in 0 .. End /\ sigint' \in BOOLEAN
        /\ unanswered' \in 0 .. MaxInterrupts
    BY <1>1, <2>1 DEF TypeOK, process
  <2> QED BY <1>1, <2>1, <2>2, ProcessTypes DEF process
<1>4. InterruptsOnce'
  BY <1>1, <1>2, SameInterrupts DEF process
<1> QED BY <1>1, <1>2, <1>3, <1>4, StubQuiet DEF Inv, ProcessInv

\* Every step of the stub, the program and the debugger keeps the invariant.
THEOREM SessionInv == Spec => []Inv
<1>1. Init => Inv
  BY InitInv
<1>2. Inv /\ [Next]_vars => Inv'
  <2>1. SUFFICES ASSUME Inv, [Next]_vars PROVE Inv'
    OBVIOUS
  <2>2. CASE StubNext
    BY <2>1, <2>2, StartInferiorInv, AttachInferiorInv, AttachNobodyInv, RunToEntryPointInv,
       MywaitInv, MywaitFailsInv, GetpktSkipsInv, GetpktEOFInv, HandleQueryInv,
       HandleBreakpointInv, HandleResumeInv, HandleDetachInv, HandleKillInv, DarwinKillInv,
       PutpktWritesInv, PutpktReadsInv, PutpktFailsInv, LastWaitInv
       DEF StubNext
  <2>3. CASE RemoteOpen
    BY <2>1, <2>3, RemoteOpenInv
  <2>4. CASE ClientNext
    BY <2>1, <2>4, ClientSendsInv, ClientReadsAck, ClientReadsReply, ClientInterruptsInv,
       ClientTurnsInv
       DEF ClientNext
  <2>5. CASE TakesInterrupt \/ Executes \/ ExecutesFreely \/ KilledFromOutside
    BY <2>1, <2>5, TakesInterruptInv, ExecutesInv, ExecutesFreelyInv, KilledFromOutsideInv
  <2>6. CASE UNCHANGED vars
    BY <2>1, <2>6, StutterInv
  <2> QED BY <2>1, <2>2, <2>3, <2>4, <2>5, <2>6 DEF Next
<1> QED BY <1>1, <1>2, PTL DEF Spec

\* Every variable keeps to its values; so no more SIGINTs stop the program
\* than ^C were typed.
THEOREM SessionType == Spec => []TypeOK
<1>1. Inv => TypeOK
  BY DEF Inv
<1> QED BY <1>1, SessionInv, PTL

\* A debugger that lifts the breakpoints it asked for, and then detaches, lets
\* go a program without a trap, the stub's own of run_to_entry_point included.
THEOREM DetachedIsClean == Spec => []DetachedClean
<1>1. Inv => DetachedClean
  <2>1. SUFFICES ASSUME Inv, life = "free" PROVE \A a \in 0 .. End : mem[a] = "insn"
    BY DEF DetachedClean
  <2>2. breakpoints = <<>> /\ Listed(breakpoints, mem)
    BY <2>1 DEF Inv, ProcessInv, Waits, TrapsListed
  <2> QED BY <2>2 DEF Listed
<1> QED BY <1>1, SessionInv, PTL

\* A program resumed by the debugger stops with SIGTRAP at a breakpoint it has
\* asked for and not lifted, or after a step, only: its own account explains
\* the stop, without the stub's list.
THEOREM TrapsAreExplained == Spec => []TrapsExplained
<1>1. Inv => TrapsExplained
  BY DEF Inv, ProcessInv
<1> QED BY <1>1, SessionInv, PTL

\* In packet_loop the status says that the process is gone just when it is.
THEOREM StatusIsTruthful == Spec => []StatusTruthful
<1>1. Inv => StatusTruthful
  BY DEF Inv, ProcessInv, StatusKept, StatusTruthful
<1> QED BY <1>1, SessionInv, PTL

\* A ^C stops the program at most once.
THEOREM InterruptsStopOnce == Spec => []InterruptsOnce
<1>1. Inv => InterruptsOnce
  BY DEF Inv
<1> QED BY <1>1, SessionInv, PTL

\* Nothing uses the thread that kill and detach have freed.
THEOREM FreedNotUsed == Spec => []NoStaleUse
<1>1. Inv => NoStaleUse
  <2>1. SUFFICES ASSUME Inv, current_inferior = "freed" PROVE NoStaleUse
    BY DEF NoStaleUse
  <2>2. ASSUME server = "putpkt", line # <<>>
        PROVE  Head(line).t # "^C"
    <3>1. Head(line) = line[1] /\ 1 \in DOMAIN line
      BY <2>1, <2>2, TailShifts DEF Inv, TypeOK
    <3> QED BY <2>1, <2>2, <3>1 DEF Inv, ProcessInv, FreedLast
  <2> QED BY <2>1, <2>2 DEF Inv, ProcessInv, FreedLast, NoStaleUse
<1> QED BY <1>1, SessionInv, PTL
=============================================================================
