------------------------------ MODULE MemBreak ------------------------------
(***************************************************************************)
(* Memory breakpoints: the list of mem-break.c, the inferior's memory, and *)
(* the packets that reach them (Z, z, m, M in server.c).  The server is    *)
(* one thread and the inferior is stopped while it handles these packets,  *)
(* so each handler is one step; the inferior runs between two of them.     *)
(*                                                                         *)
(* `reinserting' and `breakpoint_to_reinsert' are left out: they are set   *)
(* only by the step-over functions of mem-break.c, which nothing calls.    *)
(***************************************************************************)
EXTENDS BreakpointOps

CONSTANTS
  ClientByte,      \* the bytes programs and debuggers write
  MaxLen,          \* bound: the longest range of one m or M packet
  MaxBreakpoints   \* bound: the length of the list

ASSUME MemBreakAssumption ==
  ClientByte \subseteq Byte /\ MaxLen \in Nat /\ MaxBreakpoints \in Nat

VARIABLES
  mem,             \* the inferior's memory, traps included
  breakpoints,     \* the list, newest first
  own_buf          \* the packet buffer: a request, then its reply

vars == <<mem, breakpoints, own_buf>>

Breakpoint == [pc : Insn, old_data : [0 .. BpLen - 1 -> Byte]]

RangeOf(packet) == packet.lo .. packet.lo + packet.len - 1

\* The requests of these handlers.  An M packet carries a byte per address.
ReadPackets  == [type : {"m"}, lo : Addr, len : 1 .. MaxLen]
WritesAt(lo, len) == [type : {"M"}, lo : {lo}, len : {len},
                      bytes : [lo .. lo + len - 1 -> ClientByte]]
WritePackets == UNION {UNION {WritesAt(lo, len) : len \in 1 .. MaxLen} : lo \in Addr}
BreakPackets == [type : {"Z0", "z0"}, where : Insn]
OtherPackets == [type : {"other Z or z"}]

Packets == ReadPackets \cup WritePackets \cup BreakPackets \cup OtherPackets

Code == UNION {Span(i) : i \in Insn}

Planted == {breakpoints[i].pc : i \in DOMAIN breakpoints}

Answer(kind) == own_buf' = [type |-> kind]

-----------------------------------------------------------------------------
Init == /\ mem \in [Mapped -> ClientByte]
        /\ breakpoints = << >>
        /\ own_buf = [type |-> "OK"]

Idle == own_buf.type \in {"OK", "", "E01", "data"}

\* The debugger sends its next request once it has the last reply.
Send(packet) == /\ Idle
                /\ own_buf' = packet
                /\ UNCHANGED <<mem, breakpoints>>

\* Z0: save what is there, write the trap, push the record.  The result of
\* the write is not looked at: memory that takes no trap still answers OK.
SetBreakpointAt ==
  LET where == own_buf.where
      old   == ReadMemory(mem, Span(where), where)
      trap  == [a \in Span(where) |-> breakpoint_data[a - where]]
      bp    == [pc |-> where, old_data |-> [k \in 0 .. BpLen - 1 |-> old[where + k]]]
  IN  /\ own_buf.type = "Z0"
      /\ mem' = WriteMemory(mem, trap, where)
      /\ breakpoints' = <<bp>> \o breakpoints
      /\ Answer("OK")

\* The breakpoint find_breakpoint_at returns: the newest one at that address.
IsFoundAt(i, where) ==
  /\ i \in DOMAIN breakpoints
  /\ breakpoints[i].pc = where
  /\ \A j \in DOMAIN breakpoints : breakpoints[j].pc = where => i <= j

\* z0: unlink it and write its saved bytes back ...
DeleteBreakpoint ==
  LET where == own_buf.where
  IN  /\ own_buf.type = "z0"
      /\ \E i \in DOMAIN breakpoints :
           /\ IsFoundAt(i, where)
           /\ breakpoints' = RemoveAt(breakpoints, i)
           /\ mem' = WriteMemory(mem, [a \in Span(where) |-> OldByte(breakpoints[i], a)], where)
      /\ Answer("OK")

\* ... and OK also when there is none.
DeleteNothing ==
  /\ own_buf.type = "z0"
  /\ own_buf.where \notin Planted
  /\ Answer("OK")
  /\ UNCHANGED <<mem, breakpoints>>

\* Z1..Z4 and z1..z4: not supported, the empty reply.
OtherBreakpointType ==
  /\ own_buf.type = "other Z or z"
  /\ Answer("")
  /\ UNCHANGED <<mem, breakpoints>>

\* m: always answered with data.
ReadInferiorMemory ==
  /\ own_buf.type = "m"
  /\ own_buf' = [type  |-> "data",
                 bytes |-> CheckMemRead(breakpoints,
                             ReadMemory(mem, RangeOf(own_buf), own_buf.lo))]
  /\ UNCHANGED <<mem, breakpoints>>

\* M: the table takes the debugger's bytes before the target write is tried,
\* and keeps them when it fails.
WriteInferiorMemory ==
  LET buf == CheckMemWriteBuf(breakpoints, own_buf.bytes)
  IN  /\ own_buf.type = "M"
      /\ breakpoints' = CheckMemWriteTable(breakpoints, own_buf.bytes)
      /\ mem' = WriteMemory(mem, buf, own_buf.lo)
      /\ Answer(IF WriteSucceeds(buf, own_buf.lo) THEN "OK" ELSE "E01")

\* The program, resumed by some packet, stores to its data before it stops
\* again.  (External: the debuggee.  It does not modify its own code.)
InferiorStores(a, b) ==
  /\ Idle
  /\ mem' = [mem EXCEPT ![a] = b]
  /\ UNCHANGED <<breakpoints, own_buf>>

-----------------------------------------------------------------------------
StubNext ==
  \/ SetBreakpointAt \/ DeleteBreakpoint \/ DeleteNothing
  \/ OtherBreakpointType \/ ReadInferiorMemory \/ WriteInferiorMemory
  \/ \E a \in Mapped \ Code, b \in ClientByte : InferiorStores(a, b)

\* Any debugger: the code takes a second Z0 at the same address too.
RoomFor(packet) == packet.type = "Z0" => Len(breakpoints) < MaxBreakpoints

AnyClientNext ==
  StubNext \/ \E packet \in Packets : RoomFor(packet) /\ Send(packet)

AnyClientSpec == Init /\ [][AnyClientNext]_vars

\* A debugger that, as GDB does, plants one trap per location.
OnePerLocation(packet) == packet.type = "Z0" => packet.where \notin Planted

Next == \/ StubNext
        \/ \E packet \in Packets :
             RoomFor(packet) /\ OnePerLocation(packet) /\ Send(packet)

Spec == Init /\ [][Next]_vars

-----------------------------------------------------------------------------
TypeOK == /\ mem \in [Mapped -> Byte]
          /\ breakpoints \in Seq(Breakpoint)
          /\ Len(breakpoints) <= MaxBreakpoints
          /\ own_buf.type = "Z0" => Len(breakpoints) < MaxBreakpoints
          /\ own_buf \in Packets \/ Idle

\* The inferior will hit this breakpoint.
Armed(m, bp) == Span(bp.pc) \subseteq Mapped =>
                  \A a \in Span(bp.pc) : m[a] = TrapByte(bp, a)

\* Every breakpoint in mapped memory is armed: whatever was read, written
\* (also in part), planted or lifted around it, the trap is still in memory.
TrapsArmed == \A i \in DOMAIN breakpoints : Armed(mem, breakpoints[i])

\* What makes it inductive: no two breakpoints share a location, so that no
\* saved bytes are another breakpoint's trap, and the Z0 being handled does
\* not break that.
Distinct(bps) == \A i, j \in DOMAIN bps : bps[i].pc = bps[j].pc => i = j

IInv == /\ TypeOK
        /\ Distinct(breakpoints)
        /\ own_buf.type = "Z0" => own_buf.where \notin Planted
        /\ TrapsArmed

\* Where there is no breakpoint there is no trap: deleting one restores the
\* original instruction (mem-break.h:34).  Meaningful when no ClientByte is
\* a byte of the trap.
TrapsRemoved ==
  \A i \in Insn \ Planted :
    \A a \in Span(i) \cap Mapped : mem[a] # breakpoint_data[a - i]

\* The memory the debugger may see: saved bytes under breakpoints, and
\* memory elsewhere.
View == [a \in Mapped |->
           IF Covering(breakpoints, a) = {} THEN mem[a]
           ELSE OldByte(breakpoints[LastCovering(breakpoints, a)], a)]

Shadow == INSTANCE ShadowMemory WITH view <- View, armed <- Planted

\* The list and the memory together implement the shadow memory: m answers
\* with the program and not with traps, M changes the program also under a
\* trap, Z0 and z0 change nothing the debugger or, once lifted, the program
\* can see, and a refused M leaves only bytes it carried.
ImplementsShadow == Shadow!Spec

=============================================================================
