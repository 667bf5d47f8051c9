----------------------------- MODULE ShadowLoop -----------------------------
(***************************************************************************)
(* check_mem_read and check_mem_write of mem-break.c, one breakpoint of    *)
(* the list per step, with the offsets the code computes.  The list may be *)
(* any list, overlapping and duplicate breakpoints included.  The closed   *)
(* forms of BreakpointOps, which MemBreak is built from, are what the two  *)
(* loops compute.                                                          *)
(***************************************************************************)
EXTENDS BreakpointOps, FiniteSets

CONSTANTS
  Lists,       \* the breakpoint lists a run may start from
  Buffers      \* the buffers, zero-based, a run may start from

BpRecord == [pc : Int, old_data : [0 .. BpLen - 1 -> Byte]]

ASSUME ShadowLoopAssumption ==
  /\ Lists \subseteq Seq(BpRecord)
  /\ \A b \in Buffers : /\ IsFiniteSet(DOMAIN b)
                        /\ b \in [0 .. Cardinality(DOMAIN b) - 1 -> Byte]

VARIABLES
  op,          \* "read" or "write": which of the two loops runs
  mem_addr,    \* its argument
  buf,         \* the buffer, [0 .. mem_len - 1 -> Byte]
  bps,         \* the breakpoint list
  bp,          \* the loop variable: the index of the next breakpoint
  buf0, bps0   \* buffer and list at entry (history)

vars == <<op, mem_addr, buf, bps, bp, buf0, bps0>>

mem_len == Cardinality(DOMAIN buf)
mem_end == mem_addr + mem_len   \* CORE_ADDR is a long long: no wrap at 2^32

Init == /\ op \in {"read", "write"}
        /\ mem_addr \in Addr
        /\ buf0 \in Buffers
        /\ bps0 \in Lists
        /\ buf = buf0
        /\ bps = bps0
        /\ bp = 1

bp_end(i) == bps[i].pc + BpLen

\* The two early `continue's.
Misses(i) == mem_addr >= bp_end(i) \/ bps[i].pc >= mem_end

\* Faults for the run to find: a copy not clipped to the packet, one to the
\* start of the buffer, and one that leaves nothing else in it.
EndUnclipped(i) == bp_end(i)
StartOfBuffer(i) == 0
CopiesAlone(dst, to, src, from, len) == [k \in to .. to + len - 1 |-> src[from + (k - to)]]

CopyStart(i) == IF mem_addr > bps[i].pc THEN mem_addr ELSE bps[i].pc
CopyEnd(i)   == IF bp_end(i) > mem_end THEN mem_end ELSE bp_end(i)

copy_len(i)    == CopyEnd(i) - CopyStart(i)
copy_offset(i) == CopyStart(i) - bps[i].pc
buf_offset(i)  == CopyStart(i) - mem_addr

\* memcpy(dst + to, src + from, len)
Memcpy(dst, to, src, from, len) ==
  [k \in DOMAIN dst |-> IF k \in to .. to + len - 1 THEN src[from + (k - to)] ELSE dst[k]]

Skip == /\ bp \in DOMAIN bps
        /\ Misses(bp)
        /\ bp' = bp + 1
        /\ UNCHANGED <<op, mem_addr, buf, bps, buf0, bps0>>

ReadStep ==
  /\ op = "read" /\ bp \in DOMAIN bps /\ ~ Misses(bp)
  /\ buf' = Memcpy(buf, buf_offset(bp), bps[bp].old_data, copy_offset(bp), copy_len(bp))
  /\ bp' = bp + 1
  /\ UNCHANGED <<op, mem_addr, bps, buf0, bps0>>

\* Saves the buffer's bytes, then puts the trap's in their place.
WriteStep ==
  /\ op = "write" /\ bp \in DOMAIN bps /\ ~ Misses(bp)
  /\ bps' = [bps EXCEPT ![bp].old_data =
               Memcpy(@, copy_offset(bp), buf, buf_offset(bp), copy_len(bp))]
  /\ buf' = Memcpy(buf, buf_offset(bp), breakpoint_data, copy_offset(bp), copy_len(bp))
  /\ bp' = bp + 1
  /\ UNCHANGED <<op, mem_addr, buf0, bps0>>

Next == Skip \/ ReadStep \/ WriteStep

Spec == Init /\ [][Next]_vars

-----------------------------------------------------------------------------
TypeOK == /\ buf \in [DOMAIN buf0 -> Byte]
          /\ DOMAIN bps = DOMAIN bps0
          /\ \A i \in DOMAIN bps : /\ bps[i].pc = bps0[i].pc
                                   /\ bps[i].old_data \in [0 .. BpLen - 1 -> Byte]
          /\ bp \in 1 .. Len(bps0) + 1

\* A copy that is about to happen has a length (memcpy's is unsigned) and
\* stays inside the packet's buffer, inside old_data and inside the trap.
CopyInBounds ==
  bp \in DOMAIN bps /\ ~ Misses(bp) =>
    /\ copy_len(bp) >= 0
    /\ copy_offset(bp) >= 0 /\ copy_offset(bp) + copy_len(bp) <= BpLen
    /\ buf_offset(bp) >= 0 /\ buf_offset(bp) + copy_len(bp) <= mem_len

\* The buffer a zero-based one stands for, by address.
AtAddresses(b) == [a \in mem_addr .. mem_addr + Cardinality(DOMAIN b) - 1 |-> b[a - mem_addr]]

Done == SubSeq(bps0, 1, bp - 1)

\* After each breakpoint, buffer and list are what the closed forms say of
\* the part of the list already walked.
LoopAgrees ==
  IF op = "read"
  THEN /\ AtAddresses(buf) = CheckMemRead(Done, AtAddresses(buf0))
       /\ bps = bps0
  ELSE /\ AtAddresses(buf) = CheckMemWriteBuf(Done, AtAddresses(buf0))
       /\ SubSeq(bps, 1, bp - 1) = CheckMemWriteTable(Done, AtAddresses(buf0))
       /\ SubSeq(bps, bp, Len(bps)) = SubSeq(bps0, bp, Len(bps))

=============================================================================
