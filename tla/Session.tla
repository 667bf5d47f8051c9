------------------------------ MODULE Session ------------------------------
(***************************************************************************)
(* A session from start to end: main, the start of the inferior or the     *)
(* attachment to it, the run to the entry point, packet_loop, and the      *)
(* three ways out (D, k, a termination), together with the life of the     *)
(* process, the traps in its memory and the SIGINT of a ^C.                *)
(*                                                                         *)
(* The line is reliable and acknowledged; noise, no-ack mode and packets   *)
(* in pieces are RemoteLink's, ranges and lengths of memory MemBreak's.    *)
(* `extended_protocol' is never set, so that nothing restarts a program.   *)
(***************************************************************************)
EXTENDS Integers, Sequences, SequencesExt, FiniteSets

CONSTANTS
  End,           \* the program's instructions are 0 .. End, from dyld's first
  Entry,          \* the entry point its Mach-O header names
  Sites,          \* where the debugger plants breakpoints
  MaxInterrupts   \* bound: ^C that have not stopped the program

ASSUME SessionAssumption ==
  /\ End \in Nat /\ Entry \in 0 .. End /\ Sites \subseteq 0 .. End
  /\ MaxInterrupts \in Nat

VARIABLES
  server,            \* where the stub is
  attached,
  status,            \* how the inferior last stopped: packet_loop's status and sig
  breakpoints,       \* the list, newest first
  current_inferior,  \* "NULL", "live", or "freed": it is not reset with the list
  own_buf,           \* the reply to be sent
  life,              \* the process
  event,             \* what waitpid will report of it
  pc,                \* its next instruction
  mem,               \* its code: "insn" or "trap" at each address
  step,              \* it was resumed with PT_STEP
  sigint,            \* a SIGINT is pending for it
  line, out,         \* the connection: a queue each way
  client,            \* "idle", "ack" or "reply" (waiting for it), "closed"
  planted,           \* history: where it has breakpoints, by what it asked for
  told_gone,         \* history: a reply has told it that the program is gone
  hung_up,
  unanswered         \* history: ^C typed, less stops by SIGINT

stub      == <<server, attached, status, breakpoints, current_inferior, own_buf>>
process   == <<life, event, pc, mem, step, sigint>>
debugger  == <<client, planted, told_gone, hung_up, unanswered>>
vars      == <<server, attached, status, breakpoints, current_inferior, own_buf,
               life, event, pc, mem, step, sigint, line, out,
               client, planted, told_gone, hung_up, unanswered>>

\* "none"     not started          "running"  traced
\* "trapped"  stopped, not yet waited for     "stopped"  and waited for
\* "zombie"   dead, not yet waited for        "reaped"   and waited for
\* "free"     detached
Lives == {"none", "running", "trapped", "stopped", "zombie", "reaped", "free"}
Alive == life \in {"running", "trapped", "stopped", "free"}

Stopped(sig) == [how |-> "T", sig |-> sig]
Exited       == [how |-> "W", sig |-> "status"]
Died(sig)    == [how |-> "X", sig |-> sig]
Unknown      == [how |-> "?", sig |-> "none"]
Statuses == {Exited, Unknown} \cup [how : {"T"}, sig : {"TRAP", "STOP", "SEGV", "INT"}]
              \cup [how : {"X"}, sig : {"TRAP", "SEGV", "INT", "KILL"}]
Gone(s) == s.how \in {"W", "X"}

Breakpoint == [pc : 0 .. End, old : {"insn", "trap", "zero"}]
Planted    == {breakpoints[i].pc : i \in DOMAIN breakpoints}

Types    == {"?", "q", "Z0", "z0", "c", "s", "C", "S", "D", "k"}
Char(c)  == [t |-> c]
Reply    == [t : {"reply"}, to : Types, status : Statuses]
Blank    == [t |-> "reply", to |-> "q", status |-> Unknown]
Request  == [t : {"?", "q", "c", "s", "C", "S", "D", "k"}]
              \cup [t : {"Z0", "z0"}, where : Sites]

Init ==
  /\ server = "start" /\ attached \in BOOLEAN
  /\ status = Unknown /\ breakpoints = <<>> /\ current_inferior = "NULL"
  /\ own_buf = Blank
  /\ life = (IF attached THEN "running" ELSE "none")
  /\ event = Unknown
  /\ pc \in (IF attached THEN 0 .. End ELSE {0})
  /\ mem = [a \in 0 .. End |-> "insn"] /\ step = FALSE /\ sigint = FALSE
  /\ line = <<>> /\ out = <<>>
  /\ client = "closed" /\ planted = {} /\ told_gone = FALSE /\ hung_up = FALSE
  /\ unanswered = 0

-----------------------------------------------------------------------------
(* Start.  An error() before packet_loop ends in main's exit(1).           *)

\* darwin_create_inferior: the task port is refused, or the list gets its
\* thread; by then the child has stopped at its exec, or could not exec.
DarwinCreateInferior ==
  \/ /\ server' = "exited"
     /\ life' = "trapped" /\ event' = Stopped("TRAP")
     /\ UNCHANGED current_inferior
  \/ /\ server' = "exec"
     /\ \/ life' = "trapped" /\ event' = Stopped("TRAP")
        \/ life' = "zombie" /\ event' = Exited
     /\ current_inferior' = "live"

StartInferior ==
  /\ server = "start" /\ ~ attached
  /\ DarwinCreateInferior
  /\ UNCHANGED <<attached, status, breakpoints, own_buf, pc, mem, step, sigint,
                 line, out, debugger>>

\* darwin_attach: PT_ATTACH is refused, the port is (the process stays
\* stopped), or the process stops for the stub.
DarwinAttach ==
  \/ server' = "exited" /\ UNCHANGED <<life, event, current_inferior>>
  \/ /\ server' = "exited" /\ UNCHANGED current_inferior
     /\ life' = "trapped" /\ event' = Stopped("STOP")
  \/ /\ server' = "attach" /\ current_inferior' = "live"
     /\ life' = "trapped" /\ event' = Stopped("STOP")

AttachInferior ==
  /\ server = "start" /\ attached /\ life = "running"
  /\ DarwinAttach
  /\ UNCHANGED <<attached, status, breakpoints, own_buf, pc, mem, step, sigint,
                 line, out, debugger>>

\* The process is gone before the stub gets to it.
AttachNobody ==
  /\ server = "start" /\ attached /\ life = "zombie"
  /\ server' = "exited"
  /\ UNCHANGED <<attached, status, breakpoints, current_inferior, own_buf, process,
                 line, out, debugger>>

-----------------------------------------------------------------------------
(* Memory, resuming and waiting.                                           *)

\* A write to a process that is gone is refused, which nobody looks at.
Written(addr, content) == IF Alive THEN [mem EXCEPT ![addr] = content] ELSE mem

\* Fault for the run to find: the instruction is not read before it is replaced.
NothingSaved(addr) == "zero"

Contents(addr) == IF Alive THEN mem[addr] ELSE "zero"

SetBreakpointAt(where) ==
  /\ mem' = Written(where, "trap")
  /\ breakpoints' = <<[pc |-> where, old |-> Contents(where)]>> \o breakpoints

\* Fault for the run to find: the record goes, the trap stays.
ForgetBreakpointAt(where) ==
  /\ breakpoints' = SelectSeq(breakpoints, LAMBDA bp : bp.pc # where)
  /\ UNCHANGED mem

\* Removes the newest breakpoint at that address, if there is one.
DeleteBreakpointAt(where) ==
  IF where \in Planted
  THEN \E i \in DOMAIN breakpoints :
         /\ breakpoints[i].pc = where
         /\ \A j \in DOMAIN breakpoints : breakpoints[j].pc = where => i <= j
         /\ breakpoints' = RemoveAt(breakpoints, i)
         /\ mem' = Written(where, breakpoints[i].old)
  ELSE UNCHANGED <<breakpoints, mem>>

\* darwin_resume: what ptrace answers is not looked at, so resuming a process
\* that is gone does nothing.  (A signal passed on is handled or kills it.)
DarwinResume(stepping, sig) ==
  IF life # "stopped" THEN UNCHANGED <<life, event, step>>
  ELSE \/ life' = "running" /\ step' = stepping /\ UNCHANGED event
       \/ sig # "none" /\ life' = "zombie" /\ event' = Died(sig) /\ UNCHANGED step

InWait == server \in {"exec", "attach", "to entry", "mywait"}

\* Fault for the run to find: every state change called a stop.
WaitedStopped(e) == [e EXCEPT !.how = "T"]

\* darwin_wait: what waitpid reports, as a letter and a number.
Waited(e) == e

\* Each caller of mywait goes on in its own way when it returns.
AfterWait(where) == CASE where = "exec"     -> "entry"
                      [] where = "mywait"   -> "answer"
                      [] OTHER              -> "open"

\* Fault for the run to find: the trap is lifted where it was hit.
LiftedIfReached == IF pc = Entry THEN DeleteBreakpointAt(Entry)
                                 ELSE UNCHANGED <<breakpoints, mem>>

\* run_to_entry_point, once it has waited: wherever the program has stopped.
LiftEntryBreakpoint == DeleteBreakpointAt(Entry)

\* waitpid has something to report; a handler has its reply.
Mywait ==
  /\ InWait /\ life \in {"trapped", "zombie"}
  /\ status' = Waited(event)
  /\ life' = IF life = "trapped" THEN "stopped" ELSE "reaped"
  /\ server' = AfterWait(server)
  /\ own_buf' = IF server = "mywait" THEN [own_buf EXCEPT !.status = status'] ELSE own_buf
  /\ IF server = "to entry" THEN LiftEntryBreakpoint ELSE UNCHANGED <<breakpoints, mem>>
  /\ event' = Unknown /\ step' = FALSE
  /\ UNCHANGED <<attached, current_inferior, pc, sigint, line, out, debugger>>

\* error() in darwin_wait: there is no such child any more, or it is killed
\* between its stop and the call that asks for its threads.  In a handler
\* packet_loop starts over without a reply.
MywaitFails ==
  /\ InWait
  /\ \/ life = "reaped" /\ UNCHANGED <<life, event>>
     \/ life = "trapped" /\ life' = "zombie" /\ event' = Died("KILL")
  /\ server' = IF server = "mywait" THEN "getpkt" ELSE "exited"
  /\ UNCHANGED <<attached, status, breakpoints, current_inferior, own_buf, pc, mem, step,
                 sigint, line, out, debugger>>

\* The path names a Mach-O file of this architecture, or something else (a
\* universal binary, a script, nothing at all).
RunToEntryPoint ==
  /\ server = "entry"
  /\ \/ /\ SetBreakpointAt(Entry)
        /\ DarwinResume(FALSE, "none")
        /\ server' = "to entry"
     \/ server' = "open" /\ UNCHANGED <<breakpoints, mem, life, event, step>>
  /\ UNCHANGED <<attached, status, current_inferior, own_buf, pc, sigint,
                 line, out, debugger>>

\* remote_open blocks until a debugger connects, and greets it on TCP; or the
\* device, the socket, the port or the connection is refused.
RemoteOpen ==
  /\ server = "open"
  /\ \/ server' = "getpkt" /\ client' = "idle" /\ out' \in {<<>>, <<Char("+")>>}
     \/ server' = "exited" /\ UNCHANGED <<client, out>>
  /\ UNCHANGED <<attached, status, breakpoints, current_inferior, own_buf, process,
                 line, planted, told_gone, hung_up, unanswered>>

-----------------------------------------------------------------------------
(* packet_loop: getpkt acknowledges a packet and a handler deals with it.  *)

ToClient(msg) == out' = IF hung_up THEN out ELSE Append(out, msg)

\* Outside a packet everything is discarded.
GetpktSkips ==
  /\ server = "getpkt" /\ line # <<>>
  /\ Head(line).t \in {"+", "^C"}
  /\ line' = Tail(line)
  /\ UNCHANGED <<stub, process, out, debugger>>

GetpktEOF ==
  /\ server = "getpkt" /\ line = <<>> /\ hung_up
  /\ server' = "exited"
  /\ UNCHANGED <<attached, status, breakpoints, current_inferior, own_buf, process,
                 line, out, debugger>>

Received(types) == /\ server = "getpkt" /\ line # <<>>
                   /\ Head(line).t \in types
                   /\ line' = Tail(line)
                   /\ ToClient(Char("+"))
                   /\ own_buf' = [t |-> "reply", to |-> Head(line).t, status |-> status]

\* ?, and everything else that is answered at once.
HandleQuery ==
  /\ Received({"?", "q"})
  /\ server' = "answer"
  /\ UNCHANGED <<attached, status, breakpoints, current_inferior, process, debugger>>

HandleBreakpoint ==
  /\ Received({"Z0", "z0"})
  /\ server' = "answer"
  /\ IF Head(line).t = "Z0" THEN SetBreakpointAt(Head(line).where)
                            ELSE DeleteBreakpointAt(Head(line).where)
  /\ UNCHANGED <<attached, status, current_inferior, life, event, pc, step, sigint,
                 debugger>>

\* c, s, C and S; the signal passed is the debugger's SIGINT.
HandleResume ==
  /\ Received({"c", "s", "C", "S"})
  /\ server' = "mywait"
  /\ DarwinResume(Head(line).t \in {"s", "S"}, IF Head(line).t \in {"C", "S"} THEN "INT" ELSE "none")
  /\ UNCHANGED <<attached, status, breakpoints, current_inferior, pc, mem, sigint,
                 debugger>>

\* D: the thread is freed and the process runs on; the reply follows.
HandleDetach ==
  /\ Received({"D"})
  /\ server' = "answer"
  /\ life' = IF life = "stopped" THEN "free" ELSE life
  /\ current_inferior' = "freed"
  /\ UNCHANGED <<attached, status, breakpoints, event, pc, mem, step, sigint, debugger>>

\* k: PT_KILL, then darwin_kill waits for the process.
HandleKill ==
  /\ Received({"k"})
  /\ server' = "kill"
  /\ IF life = "stopped" THEN life' = "zombie" /\ event' = Died("KILL")
                         ELSE UNCHANGED <<life, event>>
  /\ UNCHANGED <<attached, status, breakpoints, current_inferior, pc, mem, step, sigint,
                 debugger>>

\* ... and the stub exits, without a reply.
DarwinKill ==
  /\ server = "kill" /\ life \in {"zombie", "reaped"}
  /\ server' = "exited" /\ life' = "reaped" /\ current_inferior' = "freed"
  /\ UNCHANGED <<attached, status, breakpoints, own_buf, event, pc, mem, step, sigint,
                 line, out, debugger>>

-----------------------------------------------------------------------------
(* The reply, and the ways out that follow it.                             *)

\* Faults for the run to find: D's handler returns to the loop, and a program
\* that is gone does not end the session.
DetachReturns  == IF Gone(status) THEN "exited" ELSE "getpkt"
StaysOpen      == IF own_buf.to = "D" THEN (IF attached THEN "exited" ELSE "last") ELSE "getpkt"

\* After putpkt: D closes the connection and waits for a program the stub has
\* started; otherwise handle_terminated_inferior looks at the status.
AfterReply == CASE own_buf.to = "D" -> IF attached THEN "exited" ELSE "last"
                [] own_buf.to # "D" -> IF Gone(status) THEN "exited" ELSE "getpkt"

\* Fault for the run to find: a test that falls through.
SignalsAlways(tok) == TRUE

Signals(tok) == tok.t = "^C"

PutpktWrites ==
  /\ server = "answer"
  /\ ToClient(own_buf)
  /\ server' = "putpkt"
  /\ UNCHANGED <<attached, status, breakpoints, current_inferior, own_buf, process, line, debugger>>

\* The next packet overwrites the buffer.
PutpktReturns == /\ server' = AfterReply
                 /\ own_buf' = IF server' = "getpkt" THEN Blank ELSE own_buf

\* A ^C found in place of the ack is sent on as SIGINT, by way of
\* current_inferior, to a process that is not running; the reply goes again.
PutpktReads ==
  /\ server = "putpkt" /\ line # <<>>
  /\ line' = Tail(line)
  /\ sigint' = (sigint \/ (Signals(Head(line)) /\ Alive))
  /\ IF Head(line).t = "+" THEN PutpktReturns /\ UNCHANGED out
                           ELSE ToClient(own_buf) /\ UNCHANGED <<server, own_buf>>
  /\ UNCHANGED <<attached, status, breakpoints, current_inferior, life, event, pc, mem,
                 step, debugger>>

\* End of file, or a write that failed.
PutpktFails ==
  /\ server = "putpkt" /\ hung_up
  /\ PutpktReturns
  /\ UNCHANGED <<attached, status, breakpoints, current_inferior, process,
                 line, out, debugger>>

\* Fault for the run to find: the loop is left for a stop instead of an end.
LastWaitForStop ==
  /\ server = "last" /\ life = "trapped"
  /\ server' = "exited" /\ life' = "stopped"
  /\ UNCHANGED <<attached, status, breakpoints, current_inferior, own_buf, event, pc, mem, step,
                 sigint, line, out, debugger>>

\* The loop at the end of D: waitpid until the program is gone.
LastWait ==
  /\ server = "last" /\ life \in {"zombie", "reaped"}
  /\ server' = "exited" /\ life' = "reaped"
  /\ UNCHANGED <<attached, status, breakpoints, current_inferior, own_buf, event, pc, mem, step,
                 sigint, line, out, debugger>>

StubNext ==
  \/ StartInferior \/ AttachInferior \/ AttachNobody \/ RunToEntryPoint
  \/ Mywait \/ MywaitFails
  \/ GetpktSkips \/ GetpktEOF
  \/ HandleQuery \/ HandleBreakpoint \/ HandleResume \/ HandleDetach \/ HandleKill
  \/ DarwinKill \/ PutpktWrites \/ PutpktReads \/ PutpktFails \/ LastWait

-----------------------------------------------------------------------------
(* The program and the kernel.  External.  Once the stub is gone the       *)
(* kernel kills what it traced, and a traced process is of no more         *)
(* interest; before it attaches the program is on its own.                 *)

Halts(e) == life' = "trapped" /\ event' = e
Ends(e)  == life' = "zombie" /\ event' = e

Traced   == life = "running" /\ server \notin {"start", "exited"}
OnItsOwn == life = "free" \/ (life = "running" /\ server \in {"start", "exited"})

\* A pending signal comes before the next instruction.
TakesInterrupt ==
  /\ sigint /\ Traced
  /\ Halts(Stopped("INT")) /\ unanswered' = unanswered - 1
  /\ sigint' = FALSE
  /\ UNCHANGED <<pc, mem, step, stub, line, out, client, planted, told_gone, hung_up>>

\* One instruction: a trap, the last one, or another, after which PT_STEP
\* stops; it may also fault.
Executes ==
  /\ Traced /\ ~ sigint
  /\ \/ mem[pc] = "trap" /\ Halts(Stopped("TRAP")) /\ UNCHANGED pc
     \/ mem[pc] = "insn" /\ pc = End /\ Ends(Exited) /\ UNCHANGED pc
     \/ /\ mem[pc] = "insn" /\ pc < End /\ pc' = pc + 1
        /\ IF step THEN Halts(Stopped("TRAP")) ELSE UNCHANGED <<life, event>>
     \/ mem[pc] = "insn" /\ Halts(Stopped("SEGV")) /\ UNCHANGED pc
  /\ UNCHANGED <<mem, step, sigint, stub, line, out, debugger>>

\* With nobody to report to, what would have stopped it kills it.
ExecutesFreely ==
  /\ OnItsOwn
  /\ \/ sigint /\ Ends(Died("INT")) /\ UNCHANGED pc
     \/ mem[pc] = "trap" /\ Ends(Died("TRAP")) /\ UNCHANGED pc
     \/ mem[pc] = "insn" /\ pc = End /\ Ends(Exited) /\ UNCHANGED pc
     \/ mem[pc] = "insn" /\ pc < End /\ pc' = pc + 1 /\ UNCHANGED <<life, event>>
  /\ UNCHANGED <<mem, step, sigint, stub, line, out, debugger>>

\* Somebody else kills it.
KilledFromOutside ==
  /\ Alive /\ server # "exited"
  /\ Ends(Died("KILL"))
  /\ UNCHANGED <<pc, mem, step, sigint, stub, line, out, debugger>>

-----------------------------------------------------------------------------
(* The debugger, which works as GDB does: one request at a time, one       *)
(* breakpoint per location, its breakpoints lifted before it detaches, ^C  *)
(* only while it waits for the program to stop.  It goes by what it asked  *)
(* for and knows nothing of the stub's list.  External.                    *)

Polite(request) == CASE request.t = "Z0" -> request.where \notin planted
                     [] request.t = "D"  -> planted = {}
                     [] OTHER            -> TRUE

ClientSends(request) ==
  /\ client = "idle" /\ Polite(request)
  /\ line' = Append(line, request)
  /\ client' = "ack"
  /\ planted' = CASE request.t = "Z0" -> planted \cup {request.where}
                  [] request.t = "z0" -> planted \ {request.where}
                  [] OTHER            -> planted
  /\ UNCHANGED <<stub, process, out, told_gone, hung_up, unanswered>>

\* While it waits for an ack a reply is an old one, acknowledged and dropped.
\* The greeting is taken for an ack, and one ack more changes nothing.
Tells(reply) == reply.to \in {"?", "c", "s", "C", "S"}

ClientReads ==
  /\ client \in {"ack", "reply"} /\ out # <<>>
  /\ out' = Tail(out)
  /\ IF Head(out).t = "+"
     THEN client' = "reply" /\ UNCHANGED <<line, told_gone>>
     ELSE /\ line' = Append(line, Char("+"))
          /\ IF client = "ack" THEN UNCHANGED <<client, told_gone>>
             ELSE /\ client' = "idle"
                  /\ told_gone' = (told_gone \/ (Tells(Head(out)) /\ Gone(Head(out).status)))
  /\ UNCHANGED <<stub, process, planted, hung_up, unanswered>>

\* No answer will come: the handler ended in error().
ClientGivesUp ==
  /\ client = "reply" /\ out = <<>> /\ line = <<>> /\ server = "getpkt"
  /\ client' = "idle"
  /\ UNCHANGED <<stub, process, line, out, planted, told_gone, hung_up, unanswered>>

\* The request it waits for resumes; the stub may not have read it yet.
Resumes(type) == type \in {"c", "s", "C", "S"}

ClientInterrupts ==
  /\ client = "reply" /\ unanswered < MaxInterrupts
  /\ Resumes(own_buf.to) \/ \E i \in DOMAIN line : Resumes(line[i].t)
  /\ line' = Append(line, Char("^C"))
  /\ unanswered' = unanswered + 1
  /\ UNCHANGED <<stub, process, out, client, planted, told_gone, hung_up>>

ClientHangsUp ==
  /\ client # "closed"
  /\ client' = "closed" /\ hung_up' = TRUE
  /\ UNCHANGED <<stub, process, line, out, planted, told_gone, unanswered>>

\* The stub has closed the connection.
ClientSeesEOF ==
  /\ client # "closed" /\ server \in {"last", "exited"} /\ (out = <<>> \/ client = "idle")
  /\ client' = "closed"
  /\ UNCHANGED <<stub, process, line, out, planted, told_gone, hung_up, unanswered>>

ClientNext ==
  \/ \E request \in Request : ClientSends(request)
  \/ ClientReads \/ ClientGivesUp \/ ClientInterrupts \/ ClientHangsUp \/ ClientSeesEOF

Next == \/ StubNext \/ RemoteOpen \/ ClientNext
        \/ TakesInterrupt \/ Executes \/ ExecutesFreely \/ KilledFromOutside

\* The stub blocks in read, accept and waitpid only; the program gets the
\* processor, and comes to its end; the debugger reads what arrives.
Fairness == /\ WF_vars(StubNext) /\ WF_vars(ClientReads)
            /\ WF_vars(TakesInterrupt) /\ WF_vars(Executes) /\ WF_vars(ExecutesFreely)

Spec == Init /\ [][Next]_vars /\ Fairness

-----------------------------------------------------------------------------
TypeOK ==
  /\ server \in {"start", "exec", "attach", "entry", "to entry", "open", "getpkt", "mywait",
                 "answer", "putpkt", "kill", "last", "exited"}
  /\ attached \in BOOLEAN /\ status \in Statuses /\ breakpoints \in Seq(Breakpoint)
  /\ current_inferior \in {"NULL", "live", "freed"} /\ own_buf \in Reply
  /\ life \in Lives /\ event \in Statuses /\ pc \in 0 .. End
  /\ mem \in [0 .. End -> {"insn", "trap"}] /\ step \in BOOLEAN /\ sigint \in BOOLEAN
  /\ line \in Seq(Request \cup [t : {"+", "^C"}]) /\ out \in Seq(Reply \cup [t : {"+"}])
  /\ client \in {"idle", "ack", "reply", "closed"} /\ planted \subseteq Sites
  /\ told_gone \in BOOLEAN /\ hung_up \in BOOLEAN /\ unanswered \in 0 .. MaxInterrupts

\* A program that a debugger lets go once its own breakpoints are lifted
\* carries no trap: none of those it lifted, and not that of
\* run_to_entry_point, wherever the first run stopped (server.c:896-899,
\* darwin-low.c:209).
DetachedClean == life = "free" => \A a \in 0 .. End : mem[a] = "insn"

\* A resumed program stops with SIGTRAP only where the debugger can explain
\* it: at a breakpoint it has planted and not lifted, or after a step
\* (run_to_entry_point's trap is gone, a lifted one restored).
TrapsExplained ==
  server = "mywait" /\ life = "trapped" /\ event.sig = "TRAP" => step \/ pc \in planted

\* In packet_loop the status the stub holds is that of the process: it says
\* the process is gone just when it has been waited for, so that nothing is
\* resumed that is not there and nothing is left behind that is
\* (darwin_wait, handle_terminated_inferior).
StatusTruthful ==
  server \in {"getpkt", "answer", "putpkt"} /\ current_inferior = "live" =>
    (Gone(status) <=> life = "reaped")

\* A ^C stops the program at most once, however often the reply it met was
\* repeated and wherever it was read (putpkt, getpkt).
Unread == Cardinality({i \in DOMAIN line : line[i].t = "^C"})
InterruptsOnce == (IF sigint THEN 1 ELSE 0) + Unread <= unanswered

\* kill and detach free the thread that current_inferior goes on pointing to:
\* nothing that looks at it runs after them, putpkt's SIGINT included.
NoStaleUse ==
  current_inferior = "freed" =>
    /\ server \in {"answer", "putpkt", "last", "exited"}
    /\ server = "putpkt" /\ line # <<>> => Head(line).t # "^C"

\* A program that ends while the debugger waits for it to stop: the debugger
\* is told so before the stub exits, and the stub does exit
\* (prepare_resume_reply, handle_terminated_inferior).
EndTold ==
  server = "mywait" /\ life = "zombie" ~>
    server = "exited" /\ (told_gone \/ hung_up)

\* After D the stub exits: at once, or when the program it started has ended,
\* before the D or after it (server.c:51-54, 477-489).
DetachEnds == server = "answer" /\ own_buf.to = "D" ~> server = "exited"

\* "run to the program's real entry point so the user lands in their own
\* code" (server.c:885).
EntryReached == [][server = "to entry" /\ server' = "open" => pc = Entry]_vars
=============================================================================
