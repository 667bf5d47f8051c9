--------------------------- MODULE MemBreakProofs ---------------------------
(***************************************************************************)
(* Proofs about MemBreak for every address space, trap, word and list      *)
(* length: an invariant, and that MemBreak implements ShadowMemory: each   *)
(* handler is, on the memory the debugger may see, a step of the abstract  *)
(* one.                                                                    *)
(***************************************************************************)
EXTENDS MemBreak, SequenceLemmas

-----------------------------------------------------------------------------
\* Everything in the list is a breakpoint.
LEMMA InList ==
  ASSUME NEW bps \in Seq(Breakpoint), NEW i \in DOMAIN bps
  PROVE  /\ bps[i] \in Breakpoint
         /\ bps[i].pc \in Insn /\ bps[i].pc \in Int
         /\ bps[i].old_data \in [0 .. BpLen - 1 -> Byte]
<1>1. bps[i] \in Breakpoint
  BY LenProperties, ElementOfSeq
<1> QED BY <1>1, AddressAssumption DEF Breakpoint

\* Offsets of a breakpoint's bytes are offsets of its saved bytes.
LEMMA BytesOfBreakpoint ==
  ASSUME NEW bp \in Breakpoint, NEW a \in Span(bp.pc)
  PROVE  OldByte(bp, a) \in Byte /\ TrapByte(bp, a) \in Byte
<1>1. bp.pc \in Int /\ bp.old_data \in [0 .. BpLen - 1 -> Byte]
  BY AddressAssumption DEF Breakpoint
<1>2. a - bp.pc \in 0 .. BpLen - 1
  BY <1>1, LengthAssumption DEF Span
<1> QED BY <1>1, <1>2, ByteAssumption DEF OldByte, TrapByte

\* With one breakpoint per location a byte has at most one breakpoint over it.
LEMMA CoveringUnique ==
  ASSUME NEW bps \in Seq(Breakpoint), Distinct(bps),
         NEW i \in DOMAIN bps, NEW a \in Span(bps[i].pc)
  PROVE  Covering(bps, a) = {i} /\ LastCovering(bps, a) = i
<1>1. \A j \in DOMAIN bps : bps[j].pc \in Insn
  BY InList
<1>2. ASSUME NEW j \in DOMAIN bps, a \in Span(bps[j].pc)
      PROVE  j = i
  BY <1>1, <1>2, InsnAssumption DEF Distinct
<1>3. Covering(bps, a) = {i}
  BY <1>2 DEF Covering
<1> QED BY <1>3 DEF LastCovering

\* A word starts at or before the byte it is read for and reaches it.
LEMMA ByteInItsWord ==
  ASSUME NEW lo \in Int, NEW a \in Int
  PROVE  a \in Word(lo, a)
<1>1. (a - lo) % WordLen \in 0 .. WordLen - 1
  BY LengthAssumption
<1> QED BY <1>1, LengthAssumption DEF Word

\* darwin_read_memory returns bytes, whatever is mapped.
LEMMA ReadMemoryType ==
  ASSUME NEW m \in [Mapped -> Byte], NEW lo \in Int, NEW range, range \subseteq Int
  PROVE  ReadMemory(m, range, lo) \in [range -> Byte]
<1>1. ASSUME NEW a \in range, range \subseteq Mapped \/ WordMapped(lo, a)
      PROVE  m[a] \in Byte
  BY <1>1, ByteInItsWord DEF WordMapped
<1> QED BY <1>1, ByteAssumption DEF ReadMemory

\* darwin_write_memory leaves bytes, and leaves alone what is not in its range.
LEMMA WriteMemoryType ==
  ASSUME NEW m \in [Mapped -> Byte], NEW buf, NEW lo,
         \A a \in DOMAIN buf : buf[a] \in Byte
  PROVE  /\ WriteMemory(m, buf, lo) \in [Mapped -> Byte]
         /\ \A a \in Mapped \ DOMAIN buf : WriteMemory(m, buf, lo)[a] = m[a]
<1>1. Accepted(DOMAIN buf, lo) \subseteq DOMAIN buf
  BY DEF Accepted
<1> QED BY <1>1 DEF WriteMemory

\* A write wholly in mapped memory reaches all of it.
LEMMA WriteMemoryMapped ==
  ASSUME NEW m \in [Mapped -> Byte], NEW buf, NEW lo, DOMAIN buf \subseteq Mapped,
         NEW a \in DOMAIN buf
  PROVE  WriteMemory(m, buf, lo)[a] = buf[a]
BY DEF WriteMemory, Accepted

-----------------------------------------------------------------------------
\* The fields of a request, by its type.
LEMMA PacketFields ==
  ASSUME NEW p \in Packets
  PROVE  /\ p.type \in {"m", "M", "Z0", "z0", "other Z or z"}
         /\ p.type \in {"Z0", "z0"} => p.where \in Insn
         /\ p.type \in {"m", "M"} => p.lo \in Int /\ RangeOf(p) \subseteq Int
         /\ p.type = "M" => p.bytes \in [RangeOf(p) -> ClientByte]
<1>1. CASE p \in ReadPackets
  <2>1. p.type = "m" /\ p.lo \in Addr /\ p.len \in 1 .. MaxLen
    BY <1>1 DEF ReadPackets
  <2>2. p.lo \in Int /\ p.len \in Int
    <3>1. p.lo \in Int
      BY <2>1, AddressAssumption
    <3>2. p.len \in Int
      BY <2>1, SMT
    <3> QED BY <3>1, <3>2
  <2>3. RangeOf(p) \subseteq Int
    BY <2>2 DEF RangeOf
  <2> QED BY <2>1, <2>2, <2>3
<1>2. CASE p \in WritePackets
  <2>1. PICK lo \in Addr, len \in 1 .. MaxLen : p \in WritesAt(lo, len)
    BY <1>2 DEF WritePackets
  <2>2. p.type = "M" /\ p.lo = lo /\ p.len = len /\ p.bytes \in [lo .. lo + len - 1 -> ClientByte]
    BY <2>1 DEF WritesAt
  <2> QED BY <2>2, AddressAssumption DEF RangeOf
<1>3. CASE p \in BreakPackets
  BY <1>3 DEF BreakPackets
<1>4. CASE p \in OtherPackets
  BY <1>4 DEF OtherPackets
<1> QED BY <1>1, <1>2, <1>3, <1>4 DEF Packets

\* A request being handled is one of Packets: replies have other types.
LEMMA Handling ==
  ASSUME TypeOK, own_buf.type \in {"m", "M", "Z0", "z0", "other Z or z"}
  PROVE  own_buf \in Packets
BY DEF TypeOK, Idle

\* After a handler the buffer holds a reply, and the conjuncts of TypeOK about
\* requests hold.
LEMMA AnswerTyped ==
  ASSUME NEW kind \in {"OK", "", "E01"}, Answer(kind)
  PROVE  Idle' /\ own_buf'.type # "Z0"
BY DEF Answer, Idle

-----------------------------------------------------------------------------
\* check_mem_read and check_mem_write under one breakpoint per location.

\* What check_mem_write leaves to be written: traps under breakpoints, the
\* debugger's bytes elsewhere.
LEMMA WriteBufUnique ==
  ASSUME NEW bps \in Seq(Breakpoint), Distinct(bps),
         NEW buf, \A a \in DOMAIN buf : buf[a] \in Byte
  PROVE  /\ DOMAIN CheckMemWriteBuf(bps, buf) = DOMAIN buf
         /\ \A a \in DOMAIN buf : CheckMemWriteBuf(bps, buf)[a] \in Byte
         /\ \A a \in DOMAIN buf : \A i \in DOMAIN bps :
              a \in Span(bps[i].pc) => CheckMemWriteBuf(bps, buf)[a] = TrapByte(bps[i], a)
<1>1. ASSUME NEW a \in DOMAIN buf, NEW i \in DOMAIN bps, a \in Span(bps[i].pc)
      PROVE  CheckMemWriteBuf(bps, buf)[a] = TrapByte(bps[i], a)
  <2>1. Covering(bps, a) = {i} /\ LastCovering(bps, a) = i
    BY <1>1, CoveringUnique
  <2> QED BY <2>1 DEF CheckMemWriteBuf
<1>2. ASSUME NEW a \in DOMAIN buf
      PROVE  CheckMemWriteBuf(bps, buf)[a] \in Byte
  <2>1. CASE Covering(bps, a) = {}
    BY <2>1 DEF CheckMemWriteBuf
  <2>2. CASE Covering(bps, a) # {}
    <3>1. PICK i \in DOMAIN bps : a \in Span(bps[i].pc)
      BY <2>2 DEF Covering
    <3>2. TrapByte(bps[i], a) \in Byte
      BY <3>1, InList, BytesOfBreakpoint
    <3> QED BY <1>1, <3>1, <3>2
  <2> QED BY <2>1, <2>2
<1> QED BY <1>1, <1>2 DEF CheckMemWriteBuf

\* What check_mem_write leaves in the list: the same breakpoints, and the
\* debugger's bytes saved under each.
LEMMA WriteTableUnique ==
  ASSUME NEW bps \in Seq(Breakpoint), Distinct(bps),
         NEW buf, \A a \in DOMAIN buf : buf[a] \in Byte
  PROVE  /\ CheckMemWriteTable(bps, buf) \in Seq(Breakpoint)
         /\ Len(CheckMemWriteTable(bps, buf)) = Len(bps)
         /\ DOMAIN CheckMemWriteTable(bps, buf) = DOMAIN bps
         /\ \A i \in DOMAIN bps :
              /\ CheckMemWriteTable(bps, buf)[i].pc = bps[i].pc
              /\ \A k \in 0 .. BpLen - 1 :
                   CheckMemWriteTable(bps, buf)[i].old_data[k] =
                     IF bps[i].pc + k \in DOMAIN buf THEN buf[bps[i].pc + k]
                     ELSE bps[i].old_data[k]
<1> DEFINE T == CheckMemWriteTable(bps, buf)
<1>1. ASSUME NEW i \in DOMAIN bps, NEW k \in 0 .. BpLen - 1
      PROVE  SavedByte(bps, i, buf, bps[i].pc + k) = buf[bps[i].pc + k]
  <2>1. bps[i].pc + k \in Span(bps[i].pc)
    BY InList, LengthAssumption DEF Span
  <2>2. Covering(bps, bps[i].pc + k) = {i}
    BY <2>1, CoveringUnique
  <2>3. {j \in Covering(bps, bps[i].pc + k) : j < i} = {}
    BY <2>2, LenProperties
  <2> QED BY <2>3 DEF SavedByte
<1>2. ASSUME NEW i \in DOMAIN bps
      PROVE  /\ T[i] \in Breakpoint
             /\ T[i].pc = bps[i].pc
             /\ \A k \in 0 .. BpLen - 1 :
                  T[i].old_data[k] = IF bps[i].pc + k \in DOMAIN buf THEN buf[bps[i].pc + k]
                                     ELSE bps[i].old_data[k]
  <2> DEFINE old == [k \in 0 .. BpLen - 1 |->
                       IF bps[i].pc + k \in DOMAIN buf
                       THEN SavedByte(bps, i, buf, bps[i].pc + k)
                       ELSE bps[i].old_data[k]]
  <2>1. /\ old \in [0 .. BpLen - 1 -> Byte]
        /\ \A k \in 0 .. BpLen - 1 :
             old[k] = IF bps[i].pc + k \in DOMAIN buf THEN buf[bps[i].pc + k]
                      ELSE bps[i].old_data[k]
    BY <1>1, InList
  <2>2. T[i] = [bps[i] EXCEPT !.old_data = old]
    BY DEF CheckMemWriteTable
  <2> HIDE DEF T, old
  <2>3. [bps[i] EXCEPT !.old_data = old] \in Breakpoint
    <3>1. bps[i] \in Breakpoint /\ old \in [0 .. BpLen - 1 -> Byte]
      BY <2>1, InList
    <3> QED BY <3>1 DEF Breakpoint
  <2>4. T[i].pc = bps[i].pc /\ T[i].old_data = old
    BY <2>2, InList DEF Breakpoint
  <2>5. T[i] \in Breakpoint
    BY <2>2, <2>3
  <2> QED BY <2>1, <2>4, <2>5, Zenon
<1>3. T \in Seq(Breakpoint) /\ DOMAIN T = DOMAIN bps /\ Len(T) = Len(bps)
  <2>1. DOMAIN T = 1 .. Len(bps) /\ DOMAIN bps = 1 .. Len(bps) /\ Len(bps) \in Nat
    BY LenProperties DEF CheckMemWriteTable
  <2>2. T \in [1 .. Len(bps) -> Breakpoint]
    <3>1. T = [i \in 1 .. Len(bps) |-> T[i]]
      BY <2>1 DEF CheckMemWriteTable
    <3> HIDE DEF T
    <3> QED BY <1>2, <2>1, <3>1
  <2> HIDE DEF T
  <2> QED BY <2>1, <2>2
<1> QED BY <1>2, <1>3

-----------------------------------------------------------------------------
(* IInv is preserved by each action of the stub.                           *)

\* Spans of two breakpoints at different locations do not meet.
LEMMA SpansApart ==
  ASSUME NEW i \in Insn, NEW j \in Insn, i # j, NEW a \in Span(i)
  PROVE  a \notin Span(j)
BY InsnAssumption

LEMMA SetBreakpointAtInv ==
  ASSUME IInv, SetBreakpointAt
  PROVE  IInv'
<1> DEFINE where == own_buf.where
           old   == ReadMemory(mem, Span(where), where)
           trap  == [a \in Span(where) |-> breakpoint_data[a - where]]
           saved == [k \in 0 .. BpLen - 1 |-> old[where + k]]
           bp    == [pc |-> where, old_data |-> saved]
<1>1. /\ where \in Insn /\ where \in Int /\ where \notin Planted
      /\ Len(breakpoints) < MaxBreakpoints
      /\ mem \in [Mapped -> Byte] /\ breakpoints \in Seq(Breakpoint)
  BY Handling, PacketFields, AddressAssumption DEF IInv, TypeOK, SetBreakpointAt
<1>2. /\ mem' = WriteMemory(mem, trap, where)
      /\ breakpoints' = <<bp>> \o breakpoints
      /\ Answer("OK")
  BY DEF SetBreakpointAt
<1>3. old \in [Span(where) -> Byte]
  <2>1. Span(where) \subseteq Int
    BY <1>1 DEF Span
  <2> QED BY <1>1, <2>1, ReadMemoryType
<1>4. \A a \in Span(where) : trap[a] \in Byte /\ trap[a] = TrapByte(bp, a)
  <2>1. \A a \in Span(where) : a - where \in 0 .. BpLen - 1
    BY <1>1, LengthAssumption DEF Span
  <2> QED BY <2>1, ByteAssumption DEF TrapByte
<1>5. bp \in Breakpoint /\ bp.pc = where
  <2>1. \A k \in 0 .. BpLen - 1 : where + k \in Span(where)
    BY <1>1, LengthAssumption DEF Span
  <2>2. saved \in [0 .. BpLen - 1 -> Byte]
    <3> HIDE DEF old
    <3> QED BY <1>3, <2>1
  <2> HIDE DEF saved
  <2> QED BY <1>1, <2>2 DEF Breakpoint
<1>6. DOMAIN trap = Span(where)
  OBVIOUS
<1> HIDE DEF where, old, trap, saved, bp
<1>7. /\ breakpoints' \in Seq(Breakpoint)
      /\ Len(breakpoints') = Len(breakpoints) + 1
      /\ DOMAIN breakpoints' = 1 .. Len(breakpoints) + 1
      /\ \A j \in 1 .. Len(breakpoints) + 1 :
           breakpoints'[j] = IF j = 1 THEN bp ELSE breakpoints[j - 1]
  BY <1>1, <1>2, <1>5, PushShifts, LenProperties
<1>8. /\ mem' \in [Mapped -> Byte]
      /\ \A a \in Mapped \ Span(where) : mem'[a] = mem[a]
  BY <1>1, <1>2, <1>4, <1>6, WriteMemoryType
<1>9. \A j \in 2 .. Len(breakpoints) + 1 :
        /\ j - 1 \in DOMAIN breakpoints
        /\ breakpoints'[j] = breakpoints[j - 1]
        /\ breakpoints'[j].pc # where
        /\ breakpoints'[j].pc \in Insn
  <2>1. DOMAIN breakpoints = 1 .. Len(breakpoints) /\ Len(breakpoints) \in Nat
    BY <1>1, LenProperties
  <2>2. ASSUME NEW j \in 2 .. Len(breakpoints) + 1
        PROVE  j - 1 \in DOMAIN breakpoints /\ breakpoints'[j] = breakpoints[j - 1]
    BY <1>7, <2>1, <2>2
  <2>3. \A i \in DOMAIN breakpoints : breakpoints[i].pc # where /\ breakpoints[i].pc \in Insn
    BY <1>1, InList DEF Planted
  <2> QED BY <2>2, <2>3
<1>10. Distinct(breakpoints')
  <2>1. SUFFICES ASSUME NEW i \in DOMAIN breakpoints', NEW j \in DOMAIN breakpoints',
                        breakpoints'[i].pc = breakpoints'[j].pc
                 PROVE  i = j
    BY DEF Distinct
  <2>2. i \in 1 .. Len(breakpoints) + 1 /\ j \in 1 .. Len(breakpoints) + 1 /\ Len(breakpoints) \in Nat
    BY <1>1, <1>7, LenProperties
  <2>3. breakpoints'[1].pc = where
    BY <1>5, <1>7, <2>2
  <2>4. CASE i = 1 \/ j = 1
    <3>1. i \notin 2 .. Len(breakpoints) + 1 /\ j \notin 2 .. Len(breakpoints) + 1
      BY <1>9, <2>1, <2>3, <2>4
    <3> QED BY <2>2, <3>1
  <2>5. CASE i # 1 /\ j # 1
    <3>1. i \in 2 .. Len(breakpoints) + 1 /\ j \in 2 .. Len(breakpoints) + 1
      BY <2>2, <2>5
    <3>2. i - 1 = j - 1
      BY <1>9, <2>1, <3>1 DEF IInv, Distinct
    <3> QED BY <2>2, <3>2
  <2> QED BY <2>4, <2>5
<1>11. ASSUME NEW i \in DOMAIN breakpoints'
       PROVE  Armed(mem', breakpoints'[i])
  <2>1. SUFFICES ASSUME Span(breakpoints'[i].pc) \subseteq Mapped,
                        NEW a \in Span(breakpoints'[i].pc)
                 PROVE  mem'[a] = TrapByte(breakpoints'[i], a)
    BY DEF Armed
  <2>2. CASE i = 1
    <3>1. breakpoints'[i] = bp
      BY <1>7, <1>11, <2>2
    <3>2. trap[a] = TrapByte(bp, a) /\ Span(where) \subseteq Mapped /\ a \in Span(where)
      BY <1>4, <1>5, <2>1, <3>1
    <3>3. mem'[a] = trap[a]
      BY <1>1, <1>2, <1>6, <3>2, WriteMemoryMapped
    <3> QED BY <3>1, <3>2, <3>3
  <2>3. CASE i # 1
    <3>1. i \in 2 .. Len(breakpoints) + 1
      BY <1>1, <1>7, <1>11, <2>3, LenProperties
    <3>2. /\ breakpoints'[i] = breakpoints[i - 1] /\ i - 1 \in DOMAIN breakpoints
          /\ breakpoints'[i].pc \in Insn /\ breakpoints'[i].pc # where
      BY <1>9, <3>1
    <3>3. a \notin Span(where)
      BY <1>1, <3>2, SpansApart
    <3>4. mem[a] = TrapByte(breakpoints[i - 1], a)
      BY <1>1, <2>1, <3>2 DEF IInv, TrapsArmed, Armed
    <3> QED BY <1>8, <2>1, <3>2, <3>3, <3>4
  <2> QED BY <2>2, <2>3
<1>12. TrapsArmed'
  BY <1>11 DEF TrapsArmed
<1>13. Idle' /\ own_buf'.type # "Z0"
  BY <1>2, AnswerTyped
<1>14. Len(breakpoints') <= MaxBreakpoints
  BY <1>1, <1>7, LenProperties, MemBreakAssumption
<1> QED BY <1>7, <1>8, <1>10, <1>12, <1>13, <1>14 DEF IInv, TypeOK

LEMMA DeleteBreakpointInv ==
  ASSUME IInv, DeleteBreakpoint
  PROVE  IInv'
<1> DEFINE where == own_buf.where
<1>1. PICK i \in DOMAIN breakpoints :
        /\ IsFoundAt(i, where)
        /\ breakpoints' = RemoveAt(breakpoints, i)
        /\ mem' = WriteMemory(mem, [a \in Span(where) |-> OldByte(breakpoints[i], a)], where)
  BY DEF DeleteBreakpoint
<1> DEFINE old == [a \in Span(where) |-> OldByte(breakpoints[i], a)]
           n   == Len(breakpoints)
<1>2. /\ mem \in [Mapped -> Byte] /\ breakpoints \in Seq(Breakpoint)
      /\ n \in Nat /\ n <= MaxBreakpoints
      /\ DOMAIN breakpoints = 1 .. n /\ i \in 1 .. n
  BY LenProperties DEF IInv, TypeOK
<1>3. breakpoints[i].pc = where /\ breakpoints[i] \in Breakpoint /\ where \in Insn
  BY <1>1, <1>2, InList DEF IsFoundAt
<1>4. DOMAIN old = Span(where) /\ \A a \in Span(where) : old[a] \in Byte
  BY <1>3, BytesOfBreakpoint
<1> HIDE DEF where, old
<1>5. /\ mem' \in [Mapped -> Byte]
      /\ \A a \in Mapped \ Span(where) : mem'[a] = mem[a]
  BY <1>1, <1>2, <1>4, WriteMemoryType DEF old
<1> DEFINE was(j) == IF j < i THEN j ELSE j + 1
<1>6. /\ breakpoints' \in Seq(Breakpoint)
      /\ Len(breakpoints') = n - 1
      /\ DOMAIN breakpoints' = 1 .. n - 1
      /\ \A j \in 1 .. n - 1 : breakpoints'[j] = breakpoints[was(j)]
  <2>1. breakpoints \in Seq(Breakpoint) /\ i \in 1 .. Len(breakpoints)
    BY <1>2 DEF IInv, TypeOK
  <2>2. /\ RemoveAt(breakpoints, i) \in Seq(Breakpoint)
        /\ Len(RemoveAt(breakpoints, i)) = n - 1
        /\ \A j \in 1 .. n - 1 :
             RemoveAt(breakpoints, i)[j] = IF j < i THEN breakpoints[j] ELSE breakpoints[j + 1]
    BY <2>1, RemoveAtShifts
  <2>3. DOMAIN RemoveAt(breakpoints, i) = 1 .. n - 1
    BY <2>2, LenProperties
  <2>4. \A j \in 1 .. n - 1 : RemoveAt(breakpoints, i)[j] = breakpoints[was(j)]
    BY <2>2
  <2> HIDE DEF was
  <2> QED BY <1>1, <2>2, <2>3, <2>4
<1>7. ASSUME NEW j \in 1 .. n - 1
      PROVE  /\ was(j) \in DOMAIN breakpoints /\ was(j) # i
             /\ breakpoints[was(j)].pc \in Insn /\ breakpoints[was(j)].pc # where
  <2>1. was(j) \in DOMAIN breakpoints /\ was(j) # i
    BY <1>2
  <2> HIDE DEF was
  <2> QED BY <1>2, <1>3, <2>1, InList DEF IInv, Distinct
<1>8. Distinct(breakpoints')
  <2>1. SUFFICES ASSUME NEW j \in 1 .. n - 1, NEW k \in 1 .. n - 1,
                        breakpoints[was(j)].pc = breakpoints[was(k)].pc
                 PROVE  j = k
    BY <1>6 DEF Distinct
  <2>2. was(j) = was(k)
    <3> HIDE DEF was
    <3> QED BY <1>7, <2>1 DEF IInv, Distinct
  <2> QED BY <1>2, <2>2
<1>9. ASSUME NEW j \in DOMAIN breakpoints'
      PROVE  Armed(mem', breakpoints'[j])
  <2> HIDE DEF was
  <2>1. j \in 1 .. n - 1 /\ breakpoints'[j] = breakpoints[was(j)]
    BY <1>6
  <2>2. SUFFICES ASSUME Span(breakpoints[was(j)].pc) \subseteq Mapped,
                        NEW a \in Span(breakpoints[was(j)].pc)
                 PROVE  mem'[a] = TrapByte(breakpoints[was(j)], a)
    BY <2>1 DEF Armed
  <2>3. mem[a] = TrapByte(breakpoints[was(j)], a)
    BY <1>7, <2>1, <2>2 DEF IInv, TrapsArmed, Armed
  <2>4. a \notin Span(where)
    BY <1>3, <1>7, <2>1, SpansApart
  <2> QED BY <1>5, <2>2, <2>3, <2>4
<1>10. Idle' /\ own_buf'.type # "Z0"
  <2>1. Answer("OK")
    BY DEF DeleteBreakpoint
  <2> QED BY <2>1, AnswerTyped
<1>11. TrapsArmed'
  BY <1>9 DEF TrapsArmed
<1>12. Len(breakpoints') <= MaxBreakpoints
  BY <1>2, <1>6, MemBreakAssumption
<1> QED BY <1>5, <1>6, <1>8, <1>10, <1>11, <1>12 DEF IInv, TypeOK

LEMMA WriteInferiorMemoryInv ==
  ASSUME IInv, WriteInferiorMemory
  PROVE  IInv'
<1> DEFINE bytes == own_buf.bytes
           lo    == own_buf.lo
           buf   == CheckMemWriteBuf(breakpoints, bytes)
<1>1. /\ mem \in [Mapped -> Byte] /\ breakpoints \in Seq(Breakpoint)
      /\ Distinct(breakpoints) /\ Len(breakpoints) <= MaxBreakpoints
  BY DEF IInv, TypeOK
<1>2. \A a \in DOMAIN bytes : bytes[a] \in Byte
  <2>1. own_buf.type = "M" /\ TypeOK
    BY DEF WriteInferiorMemory, IInv
  <2>2. bytes \in [RangeOf(own_buf) -> ClientByte]
    BY <2>1, Handling, PacketFields
  <2> QED BY <2>2, MemBreakAssumption
<1>3. /\ breakpoints' = CheckMemWriteTable(breakpoints, bytes)
      /\ mem' = WriteMemory(mem, buf, lo)
      /\ Idle' /\ own_buf'.type # "Z0"
  BY AnswerTyped DEF WriteInferiorMemory
<1> HIDE DEF bytes, lo
<1>4. /\ DOMAIN buf = DOMAIN bytes
      /\ \A a \in DOMAIN buf : buf[a] \in Byte
      /\ \A a \in DOMAIN buf : \A i \in DOMAIN breakpoints :
           a \in Span(breakpoints[i].pc) => buf[a] = TrapByte(breakpoints[i], a)
  BY <1>1, <1>2, WriteBufUnique
<1>5. /\ breakpoints' \in Seq(Breakpoint)
      /\ Len(breakpoints') = Len(breakpoints)
      /\ DOMAIN breakpoints' = DOMAIN breakpoints
      /\ \A i \in DOMAIN breakpoints : breakpoints'[i].pc = breakpoints[i].pc
  BY <1>1, <1>2, <1>3, WriteTableUnique
<1> HIDE DEF buf
<1>6. /\ mem' \in [Mapped -> Byte]
      /\ \A a \in Mapped : mem'[a] = mem[a] \/ (a \in DOMAIN buf /\ mem'[a] = buf[a])
  <2>1. mem' \in [Mapped -> Byte]
    BY <1>1, <1>3, <1>4, WriteMemoryType
  <2>2. \A a \in Mapped : mem'[a] = mem[a] \/ (a \in DOMAIN buf /\ mem'[a] = buf[a])
    BY <1>3 DEF WriteMemory, Accepted
  <2> QED BY <2>1, <2>2
<1>7. ASSUME NEW i \in DOMAIN breakpoints'
      PROVE  Armed(mem', breakpoints'[i])
  <2>1. /\ i \in DOMAIN breakpoints
        /\ breakpoints'[i].pc = breakpoints[i].pc
        /\ Armed(mem, breakpoints[i])
    BY <1>5 DEF IInv, TrapsArmed
  <2>2. SUFFICES ASSUME Span(breakpoints[i].pc) \subseteq Mapped,
                        NEW a \in Span(breakpoints[i].pc)
                 PROVE  mem'[a] = TrapByte(breakpoints[i], a)
    BY <2>1 DEF Armed, TrapByte
  <2> QED BY <1>4, <1>6, <2>1, <2>2 DEF Armed
<1>8. Distinct(breakpoints')
  BY <1>1, <1>5 DEF Distinct
<1>9. TrapsArmed'
  BY <1>7 DEF TrapsArmed
<1> QED BY <1>1, <1>3, <1>5, <1>6, <1>8, <1>9 DEF IInv, TypeOK

\* The other handlers, and the inferior, leave list and traps alone.
LEMMA OtherStepsInv ==
  ASSUME IInv,
         \/ DeleteNothing \/ OtherBreakpointType \/ ReadInferiorMemory
         \/ \E a \in Mapped \ Code, b \in ClientByte : InferiorStores(a, b)
  PROVE  IInv'
<1>1. CASE DeleteNothing \/ OtherBreakpointType \/ ReadInferiorMemory
  <2>1. Idle' /\ own_buf'.type # "Z0"
    <3>1. CASE DeleteNothing
      BY <3>1, AnswerTyped DEF DeleteNothing
    <3>2. CASE OtherBreakpointType
      BY <3>2, AnswerTyped DEF OtherBreakpointType
    <3>3. CASE ReadInferiorMemory
      <4>1. own_buf'.type = "data"
        BY <3>3 DEF ReadInferiorMemory
      <4> QED BY <4>1 DEF Idle
    <3> QED BY <1>1, <3>1, <3>2, <3>3
  <2>2. UNCHANGED <<mem, breakpoints>>
    BY <1>1 DEF DeleteNothing, OtherBreakpointType, ReadInferiorMemory
  <2> QED BY <2>1, <2>2 DEF IInv, TypeOK, TrapsArmed, Distinct
<1>2. ASSUME NEW a \in Mapped \ Code, NEW b \in ClientByte, InferiorStores(a, b)
      PROVE  IInv'
  <2>1. mem' = [mem EXCEPT ![a] = b] /\ UNCHANGED <<breakpoints, own_buf>>
    BY <1>2 DEF InferiorStores
  <2>2. mem' \in [Mapped -> Byte]
    BY <2>1, MemBreakAssumption DEF IInv, TypeOK
  <2>3. ASSUME NEW i \in DOMAIN breakpoints
        PROVE  Armed(mem', breakpoints[i])
    <3>1. breakpoints[i].pc \in Insn
      BY InList DEF IInv, TypeOK
    <3>2. a \notin Span(breakpoints[i].pc)
      BY <3>1, <1>2 DEF Code
    <3> QED BY <2>1, <3>2 DEF IInv, TypeOK, TrapsArmed, Armed
  <2> QED BY <2>1, <2>2, <2>3 DEF IInv, TypeOK, TrapsArmed, Distinct, Idle, Planted
<1> QED BY <1>1, <1>2

\* A debugger that plants one trap per location keeps to what IInv asks of it.
LEMMA SendInv ==
  ASSUME IInv, NEW packet \in Packets,
         RoomFor(packet), OnePerLocation(packet), Send(packet)
  PROVE  IInv'
<1>1. own_buf' = packet /\ UNCHANGED <<mem, breakpoints>>
  BY DEF Send
<1> QED BY <1>1 DEF IInv, TypeOK, TrapsArmed, Distinct, RoomFor, OnePerLocation, Planted, Idle

\* The inductive invariant: types, one breakpoint per location, traps in place.
THEOREM InvInductive == Spec => []IInv
<1>1. Init => IInv
  <2> SUFFICES ASSUME Init PROVE IInv
    OBVIOUS
  <2>1. mem \in [Mapped -> Byte]
    BY MemBreakAssumption DEF Init
  <2>2. breakpoints = << >> /\ breakpoints \in Seq(Breakpoint) /\ Len(breakpoints) = 0
    BY EmptySeq DEF Init
  <2>3. own_buf.type = "OK"
    BY DEF Init
  <2> QED BY <2>1, <2>2, <2>3, MemBreakAssumption
          DEF IInv, TypeOK, Distinct, TrapsArmed, Idle
<1>2. IInv /\ [Next]_vars => IInv'
  <2> SUFFICES ASSUME IInv, [Next]_vars PROVE IInv'
    OBVIOUS
  <2>1. CASE SetBreakpointAt
    BY <2>1, SetBreakpointAtInv
  <2>2. CASE DeleteBreakpoint
    BY <2>2, DeleteBreakpointInv
  <2>3. CASE WriteInferiorMemory
    BY <2>3, WriteInferiorMemoryInv
  <2>4. CASE \/ DeleteNothing \/ OtherBreakpointType \/ ReadInferiorMemory
             \/ \E a \in Mapped \ Code, b \in ClientByte : InferiorStores(a, b)
    BY <2>4, OtherStepsInv
  <2>5. CASE \E packet \in Packets : RoomFor(packet) /\ OnePerLocation(packet) /\ Send(packet)
    BY <2>5, SendInv
  <2>6. CASE UNCHANGED vars
    BY <2>6 DEF vars, IInv, TypeOK, TrapsArmed, Distinct, Planted, Idle
  <2> QED BY <2>1, <2>2, <2>3, <2>4, <2>5, <2>6 DEF Next, StubNext
<1> QED BY <1>1, <1>2, PTL DEF Spec

\* The state of the stub's memory code keeps its types: the list holds
\* breakpoints of whole saved instructions, within its bound.
THEOREM TypeCorrect == Spec => []TypeOK
<1>1. IInv => TypeOK
  BY DEF IInv
<1> QED BY <1>1, InvInductive, PTL

\* Every breakpoint the stub has acknowledged in mapped memory has its trap in
\* memory, after any sequence of Z0, z0, m and M packets.
THEOREM TrapsStayArmed == Spec => []TrapsArmed
<1>1. IInv => TrapsArmed
  BY DEF IInv
<1> QED BY <1>1, InvInductive, PTL

-----------------------------------------------------------------------------
(* The memory the debugger may see, as an operator of memory and list.     *)

ViewOf(m, bps) == [a \in Mapped |->
                     IF Covering(bps, a) = {} THEN m[a]
                     ELSE OldByte(bps[LastCovering(bps, a)], a)]

Covered(bps, a) == \E i \in DOMAIN bps : a \in Span(bps[i].pc)

\* Saved bytes under a breakpoint, memory where there is none.
LEMMA ViewBytes ==
  ASSUME NEW bps \in Seq(Breakpoint), Distinct(bps), NEW m, NEW a \in Mapped
  PROVE  /\ \A i \in DOMAIN bps : a \in Span(bps[i].pc) => ViewOf(m, bps)[a] = OldByte(bps[i], a)
         /\ ~ Covered(bps, a) => ViewOf(m, bps)[a] = m[a]
<1>1. ASSUME NEW i \in DOMAIN bps, a \in Span(bps[i].pc)
      PROVE  ViewOf(m, bps)[a] = OldByte(bps[i], a)
  <2>1. Covering(bps, a) = {i} /\ LastCovering(bps, a) = i
    BY <1>1, CoveringUnique
  <2> QED BY <2>1 DEF ViewOf
<1>2. ASSUME ~ Covered(bps, a)
      PROVE  ViewOf(m, bps)[a] = m[a]
  <2>1. Covering(bps, a) = {}
    BY <1>2 DEF Covering, Covered
  <2> QED BY <2>1 DEF ViewOf
<1> QED BY <1>1, <1>2

\* The refinement mapping before and after a step.
LEMMA ViewIs == View = ViewOf(mem, breakpoints) /\ View' = ViewOf(mem', breakpoints')
BY DEF View, ViewOf

\* A request is being handled or a reply has been sent, never both.
LEMMA IdleIsNoPacket ==
  ASSUME Idle
  PROVE  own_buf \notin Packets
BY PacketFields DEF Idle

\* An instruction that has one byte mapped has them all.
LEMMA MappedWhole ==
  ASSUME NEW i \in Insn, NEW a \in Span(i), a \in Mapped
  PROVE  Span(i) \subseteq Mapped
BY InsnAssumption

\* The refinement's packet ranges and code are MemBreak's.
LEMMA SameOperators ==
  /\ \A packet : Shadow!RangeOf(packet) = RangeOf(packet)
  /\ Shadow!Code = Code
BY DEF Shadow!RangeOf, RangeOf, Shadow!Code, Code, Span

-----------------------------------------------------------------------------
\* Z0 adds an armed instruction and changes nothing the debugger can see: what
\* is saved is what was there (set_breakpoint_at).
LEMMA SetBreakpointAtPlants ==
  ASSUME IInv, IInv', SetBreakpointAt
  PROVE  Shadow!Plant
<1> DEFINE where == own_buf.where
           old   == ReadMemory(mem, Span(where), where)
           trap  == [a \in Span(where) |-> breakpoint_data[a - where]]
           saved == [k \in 0 .. BpLen - 1 |-> old[where + k]]
           bp    == [pc |-> where, old_data |-> saved]
<1>1. /\ where \in Insn /\ where \in Int /\ where \notin Planted
      /\ breakpoints \in Seq(Breakpoint) /\ Distinct(breakpoints)
      /\ breakpoints' \in Seq(Breakpoint) /\ Distinct(breakpoints')
      /\ mem \in [Mapped -> Byte]
  BY Handling, PacketFields, AddressAssumption DEF IInv, TypeOK, SetBreakpointAt
<1>2. /\ own_buf.type = "Z0"
      /\ mem' = WriteMemory(mem, trap, where)
      /\ breakpoints' = <<bp>> \o breakpoints
      /\ Answer("OK")
  BY DEF SetBreakpointAt
<1>3. bp \in Breakpoint /\ bp.pc = where
  <2>1. \A k \in 0 .. BpLen - 1 : where + k \in Span(where)
    BY <1>1, LengthAssumption DEF Span
  <2>2. old \in [Span(where) -> Byte]
    <3>1. Span(where) \subseteq Int
      BY <1>1 DEF Span
    <3> QED BY <1>1, <3>1, ReadMemoryType
  <2>3. saved \in [0 .. BpLen - 1 -> Byte]
    <3> HIDE DEF old
    <3> QED BY <2>1, <2>2
  <2> HIDE DEF saved
  <2> QED BY <1>1, <2>3 DEF Breakpoint
<1>4. ASSUME NEW a \in Span(where), Span(where) \subseteq Mapped
      PROVE  OldByte(bp, a) = mem[a]
  <2>1. a - where \in 0 .. BpLen - 1 /\ where + (a - where) = a
    BY <1>1, LengthAssumption DEF Span
  <2>2. old[a] = mem[a]
    BY <1>4 DEF ReadMemory
  <2>3. OldByte(bp, a) = old[where + (a - where)]
    <3> HIDE DEF old
    <3> QED BY <2>1 DEF OldByte
  <2> QED BY <2>1, <2>2, <2>3
<1>5. DOMAIN trap = Span(where) /\ \A a \in Span(where) : trap[a] \in Byte
  <2>1. \A a \in Span(where) : a - where \in 0 .. BpLen - 1
    BY <1>1, LengthAssumption DEF Span
  <2> QED BY <2>1, ByteAssumption
<1> HIDE DEF where, old, trap, saved, bp
<1>6. \A a \in Mapped \ Span(where) : mem'[a] = mem[a]
  BY <1>1, <1>2, <1>5, WriteMemoryType
<1>7. /\ DOMAIN breakpoints' = 1 .. Len(breakpoints) + 1
      /\ \A j \in 1 .. Len(breakpoints) + 1 :
           breakpoints'[j] = IF j = 1 THEN bp ELSE breakpoints[j - 1]
      /\ DOMAIN breakpoints = 1 .. Len(breakpoints) /\ Len(breakpoints) \in Nat
  BY <1>1, <1>2, <1>3, PushShifts, LenProperties
<1>8. /\ 1 \in DOMAIN breakpoints' /\ breakpoints'[1] = bp
      /\ \A i \in DOMAIN breakpoints : i + 1 \in DOMAIN breakpoints'
                                       /\ breakpoints'[i + 1] = breakpoints[i]
      /\ \A j \in DOMAIN breakpoints' : \/ j = 1
                                        \/ /\ j - 1 \in DOMAIN breakpoints
                                           /\ breakpoints'[j] = breakpoints[j - 1]
  BY <1>7
<1>9. Planted' = Planted \cup {where}
  BY <1>3, <1>8 DEF Planted
<1>10. ASSUME NEW a \in Mapped
       PROVE  ViewOf(mem', breakpoints')[a] = ViewOf(mem, breakpoints)[a]
  <2>1. CASE a \in Span(where)
    <3>1. Span(where) \subseteq Mapped
      BY <1>1, <1>10, <2>1, MappedWhole
    <3>2. \A i \in DOMAIN breakpoints : a \notin Span(breakpoints[i].pc)
      <4> TAKE i \in DOMAIN breakpoints
      <4>1. breakpoints[i].pc \in Insn /\ breakpoints[i].pc # where
        BY <1>1, InList DEF Planted
      <4> QED BY <1>1, <2>1, <4>1, SpansApart
    <3>3. ViewOf(mem, breakpoints)[a] = mem[a]
      BY <1>1, <3>2, ViewBytes DEF Covered
    <3>4. ViewOf(mem', breakpoints')[a] = OldByte(bp, a)
      BY <1>1, <1>3, <1>8, <2>1, ViewBytes
    <3> QED BY <1>4, <2>1, <3>1, <3>3, <3>4
  <2>2. CASE a \notin Span(where) /\ Covered(breakpoints, a)
    <3>1. PICK i \in DOMAIN breakpoints : a \in Span(breakpoints[i].pc)
      BY <2>2 DEF Covered
    <3>2. ViewOf(mem, breakpoints)[a] = OldByte(breakpoints[i], a)
      BY <1>1, <3>1, ViewBytes
    <3>3. ViewOf(mem', breakpoints')[a] = OldByte(breakpoints'[i + 1], a)
      BY <1>1, <1>8, <3>1, ViewBytes
    <3> QED BY <1>8, <3>2, <3>3
  <2>3. CASE a \notin Span(where) /\ ~ Covered(breakpoints, a)
    <3>1. ~ Covered(breakpoints', a)
      BY <1>3, <1>8, <2>3 DEF Covered
    <3>2. mem'[a] = mem[a]
      BY <1>6, <2>3
    <3> QED BY <1>1, <2>3, <3>1, <3>2, ViewBytes
  <2> QED BY <2>1, <2>2, <2>3
<1>11. View' = View
  <2>1. ViewOf(mem', breakpoints') = ViewOf(mem, breakpoints)
    BY <1>10 DEF ViewOf
  <2> QED BY <2>1, ViewIs
<1> QED BY <1>2, <1>9, <1>11 DEF Shadow!Plant, Shadow!Answer, Answer, where

\* z0 takes one away, and what it writes back is what the debugger has been
\* shown all along (delete_breakpoint).
LEMMA DeleteBreakpointLifts ==
  ASSUME IInv, IInv', DeleteBreakpoint
  PROVE  Shadow!Lift
<1> DEFINE where == own_buf.where
<1>1. PICK i \in DOMAIN breakpoints :
        /\ IsFoundAt(i, where)
        /\ breakpoints' = RemoveAt(breakpoints, i)
        /\ mem' = WriteMemory(mem, [a \in Span(where) |-> OldByte(breakpoints[i], a)], where)
  BY DEF DeleteBreakpoint
<1> DEFINE old == [a \in Span(where) |-> OldByte(breakpoints[i], a)]
           n   == Len(breakpoints)
           was(j) == IF j < i THEN j ELSE j + 1
<1>2. /\ mem \in [Mapped -> Byte]
      /\ breakpoints \in Seq(Breakpoint) /\ Distinct(breakpoints)
      /\ breakpoints' \in Seq(Breakpoint) /\ Distinct(breakpoints')
      /\ n \in Nat /\ DOMAIN breakpoints = 1 .. n /\ i \in 1 .. n
  BY LenProperties DEF IInv, TypeOK
<1>3. breakpoints[i].pc = where /\ breakpoints[i] \in Breakpoint /\ where \in Insn
  BY <1>1, <1>2, InList DEF IsFoundAt
<1>4. DOMAIN old = Span(where) /\ \A a \in Span(where) : old[a] \in Byte /\ old[a] = OldByte(breakpoints[i], a)
  BY <1>3, BytesOfBreakpoint
<1> HIDE DEF where, old
<1>5. /\ \A a \in Mapped \ Span(where) : mem'[a] = mem[a]
      /\ Span(where) \subseteq Mapped => \A a \in Span(where) : mem'[a] = old[a]
  BY <1>1, <1>2, <1>4, WriteMemoryType, WriteMemoryMapped DEF old
<1>6. /\ DOMAIN breakpoints' = 1 .. n - 1
      /\ \A j \in 1 .. n - 1 : breakpoints'[j] = breakpoints[was(j)]
  <2>1. breakpoints \in Seq(Breakpoint) /\ i \in 1 .. Len(breakpoints)
    BY <1>2 DEF IInv, TypeOK
  <2>2. /\ RemoveAt(breakpoints, i) \in Seq(Breakpoint)
        /\ Len(RemoveAt(breakpoints, i)) = n - 1
        /\ \A j \in 1 .. n - 1 :
             RemoveAt(breakpoints, i)[j] = IF j < i THEN breakpoints[j] ELSE breakpoints[j + 1]
    BY <2>1, RemoveAtShifts
  <2>3. DOMAIN RemoveAt(breakpoints, i) = 1 .. n - 1
    BY <2>2, LenProperties
  <2>4. \A j \in 1 .. n - 1 : RemoveAt(breakpoints, i)[j] = breakpoints[was(j)]
    BY <2>2
  <2> HIDE DEF was
  <2> QED BY <1>1, <2>2, <2>3, <2>4
<1>7. \A j \in DOMAIN breakpoints' :
         /\ was(j) \in DOMAIN breakpoints /\ was(j) # i
         /\ breakpoints'[j] = breakpoints[was(j)]
  BY <1>2, <1>6
<1>8. ASSUME NEW k \in DOMAIN breakpoints, k # i
      PROVE  \E j \in DOMAIN breakpoints' : breakpoints'[j] = breakpoints[k]
  <2>1. CASE k < i
    <3>1. k \in DOMAIN breakpoints' /\ was(k) = k
      BY <1>2, <1>6, <1>8, <2>1
    <3> QED BY <1>7, <3>1
  <2>2. CASE ~ (k < i)
    <3>1. k - 1 \in DOMAIN breakpoints' /\ was(k - 1) = k
      BY <1>2, <1>6, <1>8, <2>2
    <3> QED BY <1>7, <3>1
  <2> QED BY <2>1, <2>2
<1> HIDE DEF was
<1>9. \A k \in DOMAIN breakpoints : k # i => /\ breakpoints[k].pc # where
                                            /\ breakpoints[k].pc \in Insn
  BY <1>2, <1>3, InList DEF Distinct
<1>10. Planted' = Planted \ {where}
  BY <1>3, <1>7, <1>8, <1>9 DEF Planted
<1>11. ASSUME NEW a \in Mapped
       PROVE  ViewOf(mem', breakpoints')[a] = ViewOf(mem, breakpoints)[a]
  <2>1. CASE a \in Span(where)
    <3>1. mem'[a] = OldByte(breakpoints[i], a)
      BY <1>3, <1>4, <1>5, <1>11, <2>1, MappedWhole
    <3>2. ~ Covered(breakpoints', a)
      <4>1. ASSUME NEW j \in DOMAIN breakpoints', a \in Span(breakpoints'[j].pc)
            PROVE  FALSE
        BY <1>3, <1>7, <1>9, <2>1, <4>1, SpansApart
      <4> QED BY <4>1 DEF Covered
    <3> QED BY <1>2, <1>3, <2>1, <3>1, <3>2, ViewBytes
  <2>2. CASE a \notin Span(where) /\ Covered(breakpoints, a)
    <3>1. PICK k \in DOMAIN breakpoints : a \in Span(breakpoints[k].pc)
      BY <2>2 DEF Covered
    <3>2. PICK j \in DOMAIN breakpoints' : breakpoints'[j] = breakpoints[k]
      BY <1>3, <1>8, <2>2, <3>1
    <3> QED BY <1>2, <3>1, <3>2, ViewBytes
  <2>3. CASE a \notin Span(where) /\ ~ Covered(breakpoints, a)
    <3>1. ~ Covered(breakpoints', a)
      BY <1>7, <2>3 DEF Covered
    <3> QED BY <1>2, <1>5, <2>3, <3>1, ViewBytes
  <2> QED BY <2>1, <2>2, <2>3
<1>12. View' = View
  <2>1. ViewOf(mem', breakpoints') = ViewOf(mem, breakpoints)
    BY <1>11 DEF ViewOf
  <2> QED BY <2>1, ViewIs
<1>13. own_buf.type = "z0" /\ Answer("OK")
  BY DEF DeleteBreakpoint
<1> QED BY <1>10, <1>12, <1>13 DEF Shadow!Lift, Shadow!Answer, Answer, where

\* m answers with the program: saved bytes under traps (check_mem_read), and
\* zeros only where the range leaves mapped memory.
LEMMA ReadFetches ==
  ASSUME IInv, ReadInferiorMemory
  PROVE  Shadow!Fetch
<1> DEFINE range == RangeOf(own_buf)
           raw   == ReadMemory(mem, range, own_buf.lo)
<1>1. /\ own_buf.type = "m"
      /\ own_buf' = [type |-> "data", bytes |-> CheckMemRead(breakpoints, raw)]
      /\ UNCHANGED <<mem, breakpoints>>
  BY DEF ReadInferiorMemory
<1>2. breakpoints \in Seq(Breakpoint) /\ Distinct(breakpoints)
  BY DEF IInv, TypeOK
<1>3. DOMAIN raw = range
  BY DEF ReadMemory
<1>4. \A a \in range : raw[a] = mem[a] \/ (~ (range \subseteq Mapped) /\ raw[a] = Zero)
  BY DEF ReadMemory
<1> HIDE DEF raw, range
<1>5. DOMAIN CheckMemRead(breakpoints, raw) = range
  BY <1>3 DEF CheckMemRead
<1>6. ASSUME NEW a \in range \cap Mapped
      PROVE  \/ CheckMemRead(breakpoints, raw)[a] = View[a]
             \/ ~ (range \subseteq Mapped) /\ CheckMemRead(breakpoints, raw)[a] = Zero
  <2>1. CASE Covering(breakpoints, a) = {}
    BY <1>3, <1>4, <1>6, <2>1 DEF CheckMemRead, View
  <2>2. CASE Covering(breakpoints, a) # {}
    BY <1>3, <1>6, <2>2 DEF CheckMemRead, View
  <2> QED BY <2>1, <2>2
<1>7. UNCHANGED <<View, Planted>>
  BY <1>1, ViewIs DEF Planted
<1> QED BY <1>1, <1>5, <1>6, <1>7, SameOperators DEF Shadow!Fetch, range

\* M changes the program: all of its range when it answers OK, and otherwise
\* nothing but bytes it carried (check_mem_write, darwin_write_memory).
LEMMA WriteStores ==
  ASSUME IInv, IInv', WriteInferiorMemory
  PROVE  Shadow!Store \/ Shadow!StoreFails
<1> DEFINE bytes == own_buf.bytes
           lo    == own_buf.lo
           range == RangeOf(own_buf)
           buf   == CheckMemWriteBuf(breakpoints, bytes)
<1>1. /\ mem \in [Mapped -> Byte]
      /\ breakpoints \in Seq(Breakpoint) /\ Distinct(breakpoints)
      /\ breakpoints' \in Seq(Breakpoint) /\ Distinct(breakpoints')
  BY DEF IInv, TypeOK
<1>2. /\ own_buf.type = "M" /\ lo \in Int /\ range \subseteq Int
      /\ DOMAIN bytes = range /\ \A a \in range : bytes[a] \in Byte
  BY Handling, PacketFields, MemBreakAssumption DEF IInv, WriteInferiorMemory
<1>3. /\ breakpoints' = CheckMemWriteTable(breakpoints, bytes)
      /\ mem' = WriteMemory(mem, buf, lo)
      /\ Answer(IF WriteSucceeds(buf, lo) THEN "OK" ELSE "E01")
  BY DEF WriteInferiorMemory
<1>4. \A a \in range : lo <= a
  BY <1>2 DEF RangeOf
<1> HIDE DEF bytes, lo, range
<1>5. /\ DOMAIN buf = range
      /\ \A a \in range : Covering(breakpoints, a) = {} => buf[a] = bytes[a]
  BY <1>2 DEF CheckMemWriteBuf
<1> HIDE DEF buf
<1>6. /\ DOMAIN breakpoints' = DOMAIN breakpoints
      /\ \A i \in DOMAIN breakpoints :
           /\ breakpoints'[i].pc = breakpoints[i].pc
           /\ \A k \in 0 .. BpLen - 1 :
                breakpoints'[i].old_data[k] = IF breakpoints[i].pc + k \in range
                                              THEN bytes[breakpoints[i].pc + k]
                                              ELSE breakpoints[i].old_data[k]
  <2> DEFINE T == CheckMemWriteTable(breakpoints, bytes)
  <2>1. /\ DOMAIN T = DOMAIN breakpoints
        /\ \A i \in DOMAIN breakpoints :
             /\ T[i].pc = breakpoints[i].pc
             /\ \A k \in 0 .. BpLen - 1 :
                  T[i].old_data[k] = IF breakpoints[i].pc + k \in DOMAIN bytes
                                     THEN bytes[breakpoints[i].pc + k]
                                     ELSE breakpoints[i].old_data[k]
    <3>1. \A a \in DOMAIN bytes : bytes[a] \in Byte
      BY <1>2
    <3> QED BY <1>1, <3>1, WriteTableUnique, Zenon
  <2> HIDE DEF T
  <2>2. breakpoints' = T /\ DOMAIN bytes = range
    BY <1>2, <1>3 DEF T
  <2> QED BY <2>1, <2>2
<1>7. Planted' = Planted
  BY <1>6 DEF Planted
<1>8. ASSUME NEW i \in DOMAIN breakpoints, NEW a \in Span(breakpoints[i].pc)
      PROVE  OldByte(breakpoints'[i], a) = IF a \in range THEN bytes[a] ELSE OldByte(breakpoints[i], a)
  <2>1. breakpoints[i].pc \in Int
    BY <1>1, InList
  <2>2. a - breakpoints[i].pc \in 0 .. BpLen - 1 /\ breakpoints[i].pc + (a - breakpoints[i].pc) = a
    BY <2>1, LengthAssumption DEF Span
  <2> QED BY <1>6, <2>2 DEF OldByte
<1>9. ASSUME NEW a \in Mapped
      PROVE  LET v == ViewOf(mem, breakpoints)[a]
                 w == ViewOf(mem', breakpoints')[a]
             IN  /\ a \notin range => w = v
                 /\ a \in range => w = v \/ w = bytes[a]
                 /\ a \in range /\ range \subseteq Mapped => w = bytes[a]
  <2>1. CASE Covered(breakpoints, a)
    <3>1. PICK i \in DOMAIN breakpoints : a \in Span(breakpoints[i].pc)
      BY <2>1 DEF Covered
    <3>2. ViewOf(mem, breakpoints)[a] = OldByte(breakpoints[i], a)
      BY <1>1, <3>1, ViewBytes
    <3>3. ViewOf(mem', breakpoints')[a] = OldByte(breakpoints'[i], a)
      BY <1>1, <1>6, <3>1, ViewBytes
    <3> QED BY <1>8, <3>1, <3>2, <3>3
  <2>2. CASE ~ Covered(breakpoints, a)
    <3>1. ~ Covered(breakpoints', a) /\ Covering(breakpoints, a) = {}
      BY <1>6, <2>2 DEF Covered, Covering
    <3>2. ViewOf(mem, breakpoints)[a] = mem[a] /\ ViewOf(mem', breakpoints')[a] = mem'[a]
      BY <1>1, <2>2, <3>1, ViewBytes
    <3>3. /\ mem'[a] = IF a \in Accepted(range, lo) THEN buf[a] ELSE mem[a]
          /\ Accepted(range, lo) \subseteq range
          /\ range \subseteq Mapped => Accepted(range, lo) = range
      BY <1>3, <1>5 DEF WriteMemory, Accepted
    <3> QED BY <1>5, <3>1, <3>2, <3>3
  <2> QED BY <2>1, <2>2
<1>10. WriteSucceeds(buf, lo) <=> range \subseteq Mapped
  <2>1. range \subseteq Mapped => WriteSucceeds(buf, lo)
    BY <1>5 DEF WriteSucceeds, Accepted
  <2>2. ASSUME WriteSucceeds(buf, lo), ~ (range \subseteq Mapped)
        PROVE  range \subseteq Mapped
    <3>1. \A a \in range : \A b \in lo .. a : WordMapped(lo, b)
      BY <1>5, <2>2 DEF WriteSucceeds, Accepted
    <3>2. ASSUME NEW a \in range
          PROVE  a \in Mapped
      <4>1. a \in lo .. a /\ a \in Int
        BY <1>2, <1>4
      <4> QED BY <1>2, <3>1, <4>1, ByteInItsWord DEF WordMapped
    <3> QED BY <3>2
  <2> QED BY <2>1, <2>2
<1>11. DOMAIN View = Mapped /\ DOMAIN View' = Mapped
  BY ViewIs DEF ViewOf
<1>12. CASE range \subseteq Mapped
  <2>1. View' = [a \in Mapped |-> IF a \in range THEN bytes[a] ELSE View[a]]
    <3>1. ViewOf(mem', breakpoints') =
            [a \in Mapped |-> IF a \in range THEN bytes[a] ELSE ViewOf(mem, breakpoints)[a]]
      <4>1. ViewOf(mem', breakpoints') = [a \in Mapped |-> ViewOf(mem', breakpoints')[a]]
        BY DEF ViewOf
      <4> QED BY <1>9, <1>12, <4>1
    <3> QED BY <3>1, ViewIs
  <2>2. Shadow!Store
    BY <1>2, <1>3, <1>7, <1>10, <1>12, <2>1, SameOperators
       DEF Shadow!Store, Shadow!Answer, Answer, range, bytes
  <2> QED BY <2>2
<1>13. CASE ~ (range \subseteq Mapped)
  <2>1. \A a \in Mapped : View'[a] = View[a] \/ (a \in range /\ View'[a] = bytes[a])
    BY <1>9, ViewIs
  <2>2. Shadow!StoreFails
    BY <1>2, <1>3, <1>7, <1>10, <1>11, <1>13, <2>1, SameOperators
       DEF Shadow!StoreFails, Shadow!Answer, Answer, range, bytes
  <2> QED BY <2>2
<1> QED BY <1>12, <1>13

\* The program's stores go to its data, under which there is no trap.
LEMMA StoresRun ==
  ASSUME IInv, IInv', NEW a \in Mapped \ Code, NEW b \in ClientByte, InferiorStores(a, b)
  PROVE  Shadow!Run
<1>1. Idle /\ mem' = [mem EXCEPT ![a] = b] /\ UNCHANGED <<breakpoints, own_buf>>
  BY DEF InferiorStores
<1>2. ASSUME NEW c \in Mapped \cap Code
      PROVE  ViewOf(mem', breakpoints')[c] = ViewOf(mem, breakpoints)[c]
  <2>1. mem'[c] = mem[c]
    BY <1>1, <1>2 DEF IInv, TypeOK
  <2> QED BY <1>1, <2>1 DEF ViewOf
<1>3. DOMAIN View' = Mapped /\ \A c \in Mapped \cap Code : View'[c] = View[c]
  BY <1>2, ViewIs DEF ViewOf
<1>4. own_buf \notin Packets
  BY <1>1, IdleIsNoPacket
<1>5. Planted' = Planted
  BY <1>1 DEF Planted
<1> QED BY <1>1, <1>3, <1>4, <1>5, SameOperators DEF Shadow!Run

\* A z0 for no breakpoint lifts nothing, and other types are refused.
LEMMA OthersMap ==
  ASSUME IInv, DeleteNothing \/ OtherBreakpointType
  PROVE  Shadow!Lift \/ Shadow!Refuse
<1>1. UNCHANGED <<View, Planted>>
  BY ViewIs DEF DeleteNothing, OtherBreakpointType, Planted
<1>2. CASE DeleteNothing
  <2>1. Planted \ {own_buf.where} = Planted
    BY <1>2 DEF DeleteNothing
  <2>2. Shadow!Lift
    BY <1>1, <1>2, <2>1 DEF DeleteNothing, Shadow!Lift, Shadow!Answer, Answer
  <2> QED BY <2>2
<1>3. CASE OtherBreakpointType
  BY <1>1, <1>3 DEF OtherBreakpointType, Shadow!Refuse, Shadow!Answer, Answer
<1> QED BY <1>2, <1>3

-----------------------------------------------------------------------------
\* The traps of mem-break.c are invisible: whatever a debugger that plants one
\* per location does with Z0, z0, m and M, it is served as ShadowMemory serves
\* it, from the program's own bytes.
THEOREM MemBreakImplementsShadow == Spec => ImplementsShadow
<1>1. Init => Shadow!Init
  <2> SUFFICES ASSUME Init PROVE Shadow!Init
    OBVIOUS
  <2>1. DOMAIN View = Mapped
    BY DEF View
  <2>2. Planted = {}
    <3>1. DOMAIN breakpoints = {}
      BY DEF Init
    <3> QED BY <3>1 DEF Planted
  <2> QED BY <2>1, <2>2 DEF Init, Shadow!Init
<1>2. IInv /\ IInv' /\ [Next]_vars => [Shadow!Next]_(Shadow!vars)
  <2> SUFFICES ASSUME IInv, IInv', [Next]_vars PROVE [Shadow!Next]_(Shadow!vars)
    OBVIOUS
  <2> USE DEF Shadow!Next
  <2>1. CASE SetBreakpointAt
    BY <2>1, SetBreakpointAtPlants
  <2>2. CASE DeleteBreakpoint
    BY <2>2, DeleteBreakpointLifts
  <2>3. CASE ReadInferiorMemory
    BY <2>3, ReadFetches
  <2>4. CASE WriteInferiorMemory
    BY <2>4, WriteStores
  <2>5. CASE DeleteNothing \/ OtherBreakpointType
    BY <2>5, OthersMap
  <2>6. CASE \E a \in Mapped \ Code, b \in ClientByte : InferiorStores(a, b)
    BY <2>6, StoresRun
  <2>7. CASE \E packet \in Packets : RoomFor(packet) /\ OnePerLocation(packet) /\ Send(packet)
    <3>1. own_buf \notin Packets /\ own_buf' \in Packets /\ UNCHANGED <<mem, breakpoints>>
      BY <2>7, IdleIsNoPacket DEF Send
    <3>2. UNCHANGED <<View, Planted>>
      BY <3>1, ViewIs DEF Planted
    <3> QED BY <3>1, <3>2 DEF Shadow!Send
  <2>8. CASE UNCHANGED vars
    <3>1. UNCHANGED <<View, Planted, own_buf>>
      BY <2>8, ViewIs DEF vars, Planted
    <3> QED BY <3>1 DEF Shadow!vars
  <2> QED BY <2>1, <2>2, <2>3, <2>4, <2>5, <2>6, <2>7, <2>8 DEF Next, StubNext
<1> QED BY <1>1, <1>2, InvInductive, PTL DEF Spec, ImplementsShadow, Shadow!Spec

=============================================================================
