---------------------------- MODULE BreakpointOps ----------------------------
(***************************************************************************)
(* The memory operations the stub's software breakpoints are built from:   *)
(* the target's raw reads and writes (darwin-low.c) and the shadowing of   *)
(* breakpoint contents on top of them (mem-break.c).  Everything here is a *)
(* pure operator of the inferior's memory, the breakpoint list and a       *)
(* packet's buffer; a buffer is a function from the addresses it covers    *)
(* to bytes, so "buf + (start - mem_addr)" is simply buf[start].           *)
(***************************************************************************)
EXTENDS Integers, Sequences, SequencesExt

CONSTANTS
  Addr,             \* addresses a packet can name: an interval of integers
  Mapped,           \* the addresses at which the kernel has memory
  Insn,             \* addresses of instructions, where a debugger plants traps
  Byte,             \* the values of a byte
  Zero,             \* the byte reported for memory that cannot be read
  BpLen,            \* breakpoint_len: 4, the length of a PowerPC trap
  WordLen,          \* sizeof(int): the unit of ptrace's word access
  breakpoint_data   \* the trap instruction, as a function of the byte offset

Span(pc) == pc .. pc + BpLen - 1

ASSUME LengthAssumption ==
  BpLen \in Nat \ {0} /\ WordLen \in Nat \ {0}

ASSUME AddressAssumption ==
  Addr \subseteq Int /\ Mapped \subseteq Addr /\ Insn \subseteq Addr

ASSUME ByteAssumption ==
  Zero \in Byte /\ breakpoint_data \in [0 .. BpLen - 1 -> Byte]

\* PowerPC instructions are aligned words: two never overlap, and none
\* straddles the boundary of a mapped region.
ASSUME InsnAssumption ==
  /\ \A i, j \in Insn : i # j => Span(i) \cap Span(j) = {}
  /\ \A i \in Insn : Span(i) \subseteq Mapped \/ Span(i) \cap Mapped = {}

-----------------------------------------------------------------------------
(* Raw access.  vm_read and vm_write take the whole range or nothing; when *)
(* they refuse it the code walks the range a word at a time with ptrace,   *)
(* counting words from the first address of the range.  A word is there    *)
(* only when all of it is mapped, also when the range ends inside it.      *)

Word(lo, a) == LET w == a - ((a - lo) % WordLen) IN w .. w + WordLen - 1

WordMapped(lo, a) == Word(lo, a) \subseteq Mapped

\* darwin_read_memory: a word that cannot be read is reported as zeros and
\* the walk goes on.
ReadMemory(mem, range, lo) ==
  [a \in range |->
     IF range \subseteq Mapped \/ WordMapped(lo, a) THEN mem[a] ELSE Zero]

\* The part of a write that reaches memory: the walk returns at the first
\* word that fails, and what it wrote before stays written.
Accepted(range, lo) ==
  IF range \subseteq Mapped
  THEN range
  ELSE {a \in range : \A b \in lo .. a : WordMapped(lo, b)}

\* darwin_write_memory: the memory it leaves behind ...
WriteMemory(mem, buf, lo) ==
  [a \in Mapped |->
     IF a \in Accepted(DOMAIN buf, lo) THEN buf[a] ELSE mem[a]]

\* ... and whether it returns 0.
WriteSucceeds(buf, lo) == Accepted(DOMAIN buf, lo) = DOMAIN buf

-----------------------------------------------------------------------------
(* Shadowing.  A breakpoint is a record [pc, old_data]; the list is a      *)
(* sequence, head first.  Both loops of the code walk it from the head.    *)

Covering(bps, a) == {i \in DOMAIN bps : a \in Span(bps[i].pc)}

LastCovering(bps, a) == CHOOSE i \in Covering(bps, a) :
                          \A j \in Covering(bps, a) : j <= i

OldByte(bp, a)  == bp.old_data[a - bp.pc]
TrapByte(bp, a) == breakpoint_data[a - bp.pc]

\* check_mem_read: every breakpoint over a byte overwrites it with its saved
\* one, so the last breakpoint of the list decides.
CheckMemRead(bps, buf) ==
  [a \in DOMAIN buf |->
     IF Covering(bps, a) = {} THEN buf[a]
     ELSE OldByte(bps[LastCovering(bps, a)], a)]

\* Faults for the runs to find: the traps not put back into the buffer, a
\* table that is not told of a write, and one that keeps only what was written.
NoTrapsBack(bps, buf) == buf
SavesNothing(bps, buf) == bps
KeepsOnlyWritten(bps, buf) ==
  [i \in DOMAIN bps |->
     [bps[i] EXCEPT !.old_data =
        [k \in {k \in 0 .. BpLen - 1 : bps[i].pc + k \in DOMAIN buf} |-> buf[bps[i].pc + k]]]]

\* check_mem_write, the buffer: every breakpoint over a byte replaces it with
\* its trap byte, so the last one decides what is written.
CheckMemWriteBuf(bps, buf) ==
  [a \in DOMAIN buf |->
     IF Covering(bps, a) = {} THEN buf[a]
     ELSE TrapByte(bps[LastCovering(bps, a)], a)]

\* check_mem_write, the table: the first breakpoint over a byte saves the
\* debugger's byte; a later one saves what its predecessor left in the
\* buffer, which is a trap byte.
SavedByte(bps, i, buf, a) ==
  LET Earlier == {j \in Covering(bps, a) : j < i}
      Pred    == CHOOSE j \in Earlier : \A k \in Earlier : k <= j
  IN  IF Earlier = {} THEN buf[a] ELSE TrapByte(bps[Pred], a)

CheckMemWriteTable(bps, buf) ==
  [i \in DOMAIN bps |->
     [bps[i] EXCEPT !.old_data =
        [k \in 0 .. BpLen - 1 |->
           IF bps[i].pc + k \in DOMAIN buf
           THEN SavedByte(bps, i, buf, bps[i].pc + k)
           ELSE bps[i].old_data[k]]]]

=============================================================================
