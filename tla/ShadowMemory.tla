---------------------------- MODULE ShadowMemory ----------------------------
(***************************************************************************)
(* What the stub promises about memory while breakpoints are in place: the *)
(* debugger sees and changes the program, and never the traps.  `view' is  *)
(* the program's memory as the debugger may see it; planting and lifting a *)
(* trap leave it alone.                                                    *)
(***************************************************************************)
EXTENDS Integers

CONSTANTS Mapped, Insn, Zero, BpLen,
          Packets    \* the requests a debugger may send

VARIABLES
  view,     \* [Mapped -> byte]: the program, without traps
  armed,    \* the instructions at which the debugger has planted a trap
  own_buf   \* the packet being handled, or the last reply

vars == <<view, armed, own_buf>>

Code == UNION {i .. i + BpLen - 1 : i \in Insn}

RangeOf(packet) == packet.lo .. packet.lo + packet.len - 1

Answer(kind) == own_buf' = [type |-> kind]

Init == /\ DOMAIN view = Mapped
        /\ armed = {}
        /\ own_buf = [type |-> "OK"]

\* The debugger sends a request once the previous one is answered.
Send == /\ own_buf \notin Packets
        /\ own_buf' \in Packets
        /\ UNCHANGED <<view, armed>>

Plant == /\ own_buf.type = "Z0"
         /\ armed' = armed \cup {own_buf.where}
         /\ Answer("OK")
         /\ UNCHANGED view

Lift == /\ own_buf.type = "z0"
        /\ armed' = armed \ {own_buf.where}
        /\ Answer("OK")
        /\ UNCHANGED view

Refuse == /\ own_buf.type = "other Z or z"
          /\ Answer("")
          /\ UNCHANGED <<view, armed>>

\* A read answers with the program.  Only in a range that leaves mapped
\* memory may a mapped byte be reported as Zero.
Fetch ==
  /\ own_buf.type = "m"
  /\ own_buf'.type = "data"
  /\ DOMAIN own_buf'.bytes = RangeOf(own_buf)
  /\ \A a \in RangeOf(own_buf) \cap Mapped :
       \/ own_buf'.bytes[a] = view[a]
       \/ ~ (RangeOf(own_buf) \subseteq Mapped) /\ own_buf'.bytes[a] = Zero
  /\ UNCHANGED <<view, armed>>

\* A write that is acknowledged has changed the whole range of the program.
Store ==
  /\ own_buf.type = "M"
  /\ RangeOf(own_buf) \subseteq Mapped
  /\ view' = [a \in Mapped |-> IF a \in RangeOf(own_buf) THEN own_buf.bytes[a]
                               ELSE view[a]]
  /\ Answer("OK")
  /\ UNCHANGED armed

\* A write that is refused may have changed some of it, but only in a range
\* that leaves mapped memory, and only to the bytes it carried.
StoreFails ==
  /\ own_buf.type = "M"
  /\ ~ (RangeOf(own_buf) \subseteq Mapped)
  /\ DOMAIN view' = Mapped
  /\ \A a \in Mapped :
       \/ view'[a] = view[a]
       \/ a \in RangeOf(own_buf) /\ view'[a] = own_buf.bytes[a]
  /\ Answer("E01")
  /\ UNCHANGED armed

\* The program runs and changes its data, not its code.
Run == /\ own_buf \notin Packets
       /\ DOMAIN view' = Mapped
       /\ \A a \in Mapped \cap Code : view'[a] = view[a]
       /\ UNCHANGED <<armed, own_buf>>

Next == Send \/ Plant \/ Lift \/ Refuse \/ Fetch \/ Store \/ StoreFails \/ Run

Spec == Init /\ [][Next]_vars

=============================================================================
