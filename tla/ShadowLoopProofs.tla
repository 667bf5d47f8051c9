-------------------------- MODULE ShadowLoopProofs --------------------------
(***************************************************************************)
(* That the loops of check_mem_read and check_mem_write stay inside their  *)
(* buffers and compute the closed forms of BreakpointOps, for every list   *)
(* of breakpoints, however they overlap, and every range.  The induction   *)
(* over the list is the one over the loop's steps.                         *)
(***************************************************************************)
EXTENDS ShadowLoop, FiniteSetTheorems, SequenceTheorems, WellFoundedInduction, TLAPS

\* The range, and the buffer at entry, by address.
Range0 == mem_addr .. mem_addr + Cardinality(DOMAIN buf0) - 1
Entry0 == AtAddresses(buf0)

Typed ==
  /\ op \in {"read", "write"} /\ mem_addr \in Int
  /\ Cardinality(DOMAIN buf0) \in Nat
  /\ buf0 \in [0 .. Cardinality(DOMAIN buf0) - 1 -> Byte]
  /\ buf \in [0 .. Cardinality(DOMAIN buf0) - 1 -> Byte]
  /\ bps0 \in Seq(BpRecord) /\ bps \in Seq(BpRecord) /\ Len(bps) = Len(bps0)
  /\ \A i \in 1 .. Len(bps0) : bps[i].pc = bps0[i].pc
  /\ bp \in 1 .. Len(bps0) + 1

\* LoopAgrees, entry by entry and byte by byte.
Agreed ==
  IF op = "read"
  THEN /\ \A a \in Range0 : buf[a - mem_addr] = CheckMemRead(Done, Entry0)[a]
       /\ bps = bps0
  ELSE /\ \A a \in Range0 : buf[a - mem_addr] = CheckMemWriteBuf(Done, Entry0)[a]
       /\ \A i \in 1 .. Len(bps0) :
            bps[i] = IF i < bp THEN CheckMemWriteTable(Done, Entry0)[i] ELSE bps0[i]

Inv == Typed /\ Agreed

-----------------------------------------------------------------------------
(* The closed forms, one breakpoint further.                               *)

Less == {ss \in Nat \X Nat : ss[1] < ss[2]}

\* One of the breakpoints over a byte comes last (the lists are finite).
LEMMA GreatestExists ==
  ASSUME NEW n \in Nat, NEW S \in SUBSET (1 .. n), S # {}
  PROVE  \E m \in S : \A j \in S : j <= m
<1> DEFINE R == {n - j : j \in S}
<1>1. /\ R \in SUBSET Nat
      /\ R # {}
  <2>1. \A j \in S : j \in 1 .. n /\ n - j \in Nat
    OBVIOUS
  <2> QED BY <2>1
<1>2. IsWellFoundedOn(Less, Nat)
  BY NatLessThanWellFounded DEF OpToRel, Less
<1>3. PICK r \in R : \A q \in R : ~ (<<q, r>> \in Less)
  <2> HIDE DEF R
  <2> QED BY <1>1, <1>2, WFMin
<1>4. PICK m \in S : r = n - m
  BY <1>3
<1>5. ASSUME NEW j \in S
      PROVE  j <= m
  <2>1. n - j \in R /\ n - j \in Nat /\ r \in Nat
    BY <1>1, <1>3
  <2>2. ~ (n - j < r)
    BY <1>3, <2>1 DEF Less
  <2> QED BY <1>4, <2>1, <2>2
<1> QED BY <1>5

\* One list is another with one breakpoint more at its end.
Extends(p, q, m) ==
  /\ m \in Nat \ {0}
  /\ DOMAIN p = 1 .. m - 1 /\ DOMAIN q = 1 .. m
  /\ \A i \in 1 .. m - 1 : q[i] = p[i]

\* So are the parts of the list walked before and after a step.
LEMMA WalkedExtends ==
  ASSUME NEW s \in Seq(BpRecord), NEW m \in 1 .. Len(s)
  PROVE  /\ Extends(SubSeq(s, 1, m - 1), SubSeq(s, 1, m), m)
         /\ SubSeq(s, 1, m)[m] = s[m]
BY DEF Extends

\* The last breakpoint over a byte is one of those over it.
LEMMA LastIsCovering ==
  ASSUME NEW n \in Nat, NEW p, DOMAIN p = 1 .. n, NEW a, Covering(p, a) # {}
  PROVE  LastCovering(p, a) \in Covering(p, a) /\ LastCovering(p, a) \in 1 .. n
<1>1. Covering(p, a) \in SUBSET (1 .. n)
  BY DEF Covering
<1>2. \E l \in Covering(p, a) : \A j \in Covering(p, a) : j <= l
  BY <1>1, GreatestExists
<1> QED BY <1>1, <1>2 DEF LastCovering

\* Walking one breakpoint further adds it, as the last one, where it covers.
LEMMA OneMore ==
  ASSUME NEW p, NEW q, NEW m, Extends(p, q, m), NEW a
  PROVE  /\ Covering(p, a) \subseteq 1 .. m - 1
         /\ a \in Span(q[m].pc) => /\ Covering(q, a) = Covering(p, a) \cup {m}
                                   /\ LastCovering(q, a) = m
         /\ a \notin Span(q[m].pc) => /\ Covering(q, a) = Covering(p, a)
                                      /\ LastCovering(q, a) = LastCovering(p, a)
<1>1. /\ m \in Nat /\ m - 1 \in Nat
      /\ \A i : i \in DOMAIN q <=> i \in DOMAIN p \/ i = m
      /\ \A i \in DOMAIN p : q[i] = p[i] /\ i \in Int /\ i < m
  BY DEF Extends
<1>2. Covering(p, a) \subseteq DOMAIN p
  BY DEF Covering
<1>3. ASSUME a \in Span(q[m].pc)
      PROVE  Covering(q, a) = Covering(p, a) \cup {m} /\ LastCovering(q, a) = m
  <2>1. Covering(q, a) = Covering(p, a) \cup {m}
    BY <1>1, <1>3 DEF Covering
  <2>2. \A l \in Covering(q, a) : (\A j \in Covering(q, a) : j <= l) <=> l = m
    BY <1>1, <1>2, <2>1
  <2>3. m \in Covering(q, a)
    BY <2>1
  <2> QED BY <2>1, <2>2, <2>3 DEF LastCovering
<1>4. ASSUME a \notin Span(q[m].pc)
      PROVE  Covering(q, a) = Covering(p, a) /\ LastCovering(q, a) = LastCovering(p, a)
  <2>1. Covering(q, a) = Covering(p, a)
    BY <1>1, <1>4 DEF Covering
  <2> QED BY <2>1 DEF LastCovering
<1>5. DOMAIN p = 1 .. m - 1
  BY DEF Extends
<1> QED BY <1>2, <1>3, <1>4, <1>5

\* The breakpoints before one of them are the same in the longer list.
LEMMA EarlierStay ==
  ASSUME NEW p, NEW q, NEW m, Extends(p, q, m), NEW a
  PROVE  /\ \A i \in 1 .. m - 1 :
              {j \in Covering(q, a) : j < i} = {j \in Covering(p, a) : j < i}
         /\ {j \in Covering(q, a) : j < m} = Covering(p, a)
<1>1. /\ Covering(p, a) \subseteq 1 .. m - 1 /\ m \in Nat
      /\ Covering(q, a) = Covering(p, a) \/ Covering(q, a) = Covering(p, a) \cup {m}
  <2>1. m \in Nat
    BY DEF Extends
  <2>2. Covering(p, a) \subseteq 1 .. m - 1
    BY OneMore, Zenon
  <2>3. Covering(q, a) = Covering(p, a) \/ Covering(q, a) = Covering(p, a) \cup {m}
    <3>1. CASE a \in Span(q[m].pc)
      BY <3>1, OneMore
    <3>2. CASE a \notin Span(q[m].pc)
      BY <3>2, OneMore
    <3> QED BY <3>1, <3>2
  <2> QED BY <2>1, <2>2, <2>3
<1>2. \A j \in Covering(p, a) : j < m
  BY <1>1
<1>3. \A i \in 1 .. m - 1 : ~ (m < i)
  BY <1>1
<1> QED BY <1>1, <1>2, <1>3

\* check_mem_read: the breakpoint decides the bytes it covers.
LEMMA ReadOneMore ==
  ASSUME NEW p, NEW q, NEW m, Extends(p, q, m), NEW b, NEW a \in DOMAIN b
  PROVE  CheckMemRead(q, b)[a] = IF a \in Span(q[m].pc) THEN OldByte(q[m], a)
                                 ELSE CheckMemRead(p, b)[a]
<1>1. CASE a \in Span(q[m].pc)
  BY <1>1, OneMore DEF CheckMemRead
<1>2. CASE a \notin Span(q[m].pc) /\ Covering(p, a) = {}
  BY <1>2, OneMore DEF CheckMemRead
<1>3. CASE a \notin Span(q[m].pc) /\ Covering(p, a) # {}
  <2>1. Covering(q, a) = Covering(p, a) /\ LastCovering(q, a) = LastCovering(p, a)
    BY <1>3, OneMore
  <2>2. q[LastCovering(p, a)] = p[LastCovering(p, a)]
    <3>1. LastCovering(p, a) \in 1 .. m - 1
      BY <1>3, LastIsCovering DEF Extends
    <3> QED BY <3>1 DEF Extends
  <2> QED BY <1>3, <2>1, <2>2 DEF CheckMemRead
<1> QED BY <1>1, <1>2, <1>3

\* check_mem_write, the buffer: likewise, with its trap.
LEMMA WriteOneMore ==
  ASSUME NEW p, NEW q, NEW m, Extends(p, q, m), NEW b, NEW a \in DOMAIN b
  PROVE  CheckMemWriteBuf(q, b)[a] = IF a \in Span(q[m].pc) THEN TrapByte(q[m], a)
                                     ELSE CheckMemWriteBuf(p, b)[a]
<1>1. CASE a \in Span(q[m].pc)
  BY <1>1, OneMore DEF CheckMemWriteBuf
<1>2. CASE a \notin Span(q[m].pc) /\ Covering(p, a) = {}
  BY <1>2, OneMore DEF CheckMemWriteBuf
<1>3. CASE a \notin Span(q[m].pc) /\ Covering(p, a) # {}
  <2>1. Covering(q, a) = Covering(p, a) /\ LastCovering(q, a) = LastCovering(p, a)
    BY <1>3, OneMore
  <2>2. q[LastCovering(p, a)] = p[LastCovering(p, a)]
    <3>1. LastCovering(p, a) \in 1 .. m - 1
      BY <1>3, LastIsCovering DEF Extends
    <3> QED BY <3>1 DEF Extends
  <2> QED BY <1>3, <2>1, <2>2 DEF CheckMemWriteBuf
<1> QED BY <1>1, <1>2, <1>3

\* What an earlier breakpoint saved is not looked at again.
LEMMA SavedStays ==
  ASSUME NEW p, NEW q, NEW m, Extends(p, q, m), NEW i \in 1 .. m - 1, NEW b, NEW a
  PROVE  SavedByte(q, i, b, a) = SavedByte(p, i, b, a)
<1> DEFINE E == {j \in Covering(p, a) : j < i}
           pred == CHOOSE j \in E : \A k \in E : k <= j
<1>1. /\ {j \in Covering(q, a) : j < i} = E
      /\ E \in SUBSET (1 .. m - 1) /\ m - 1 \in Nat
  <2>1. \A l \in 1 .. m - 1 : {j \in Covering(q, a) : j < l} = {j \in Covering(p, a) : j < l}
    BY EarlierStay
  <2>2. Covering(p, a) \subseteq 1 .. m - 1
    BY OneMore, Zenon
  <2>3. m - 1 \in Nat
    BY DEF Extends
  <2> QED BY <2>1, <2>2, <2>3
<1>2. CASE E = {}
  BY <1>1, <1>2 DEF SavedByte
<1>3. CASE E # {}
  <2>1. pred \in E
    <3> HIDE DEF E
    <3>1. \E j \in E : \A k \in E : k <= j
      BY <1>1, <1>3, GreatestExists
    <3> QED BY <3>1
  <2>2. p[pred] = q[pred]
    <3> HIDE DEF pred, E
    <3>1. pred \in 1 .. m - 1
      BY <1>1, <2>1
    <3> QED BY <3>1 DEF Extends
  <2>3. SavedByte(q, i, b, a) = TrapByte(q[pred], a)
    BY <1>1, <1>3 DEF SavedByte
  <2>4. SavedByte(p, i, b, a) = TrapByte(p[pred], a)
    BY <1>3 DEF SavedByte
  <2> QED BY <2>2, <2>3, <2>4
<1> QED BY <1>2, <1>3

\* The breakpoint itself saves what the loop has left in the buffer so far.
LEMMA SavesBuffer ==
  ASSUME NEW p, NEW q, NEW m, Extends(p, q, m), NEW b, NEW a \in DOMAIN b
  PROVE  SavedByte(q, m, b, a) = CheckMemWriteBuf(p, b)[a]
<1> DEFINE C == Covering(p, a)
           last == LastCovering(p, a)
<1>1. {j \in Covering(q, a) : j < m} = C
  BY EarlierStay
<1>2. last = CHOOSE j \in C : \A k \in C : k <= j
  BY DEF LastCovering
<1>3. CASE C = {}
  BY <1>1, <1>3 DEF SavedByte, CheckMemWriteBuf
<1>4. CASE C # {}
  <2>1. SavedByte(q, m, b, a) = TrapByte(q[last], a)
    BY <1>1, <1>2, <1>4 DEF SavedByte
  <2>2. CheckMemWriteBuf(p, b)[a] = TrapByte(p[last], a)
    BY <1>4 DEF CheckMemWriteBuf
  <2>3. p[last] = q[last]
    <3>1. last \in 1 .. m - 1
      BY <1>4, LastIsCovering DEF Extends
    <3> QED BY <3>1 DEF Extends
  <2> QED BY <2>1, <2>2, <2>3
<1> QED BY <1>3, <1>4

\* check_mem_write, the list: what the earlier breakpoints saved stays ...
LEMMA TableEarlier ==
  ASSUME NEW p, NEW q, NEW m, Extends(p, q, m), NEW b, NEW i \in 1 .. m - 1
  PROVE  CheckMemWriteTable(q, b)[i] = CheckMemWriteTable(p, b)[i]
<1>1. i \in DOMAIN p /\ i \in DOMAIN q /\ q[i] = p[i]
  BY DEF Extends
<1>2. \A k : SavedByte(q, i, b, q[i].pc + k) = SavedByte(p, i, b, p[i].pc + k)
  BY <1>1, SavedStays
<1> QED BY <1>1, <1>2, Zenon DEF CheckMemWriteTable

\* ... and the breakpoint itself saves what the buffer holds by then.
Saved(p, b, r, old) ==
  \A k \in 0 .. BpLen - 1 : old[k] = IF r.pc + k \in DOMAIN b
                                      THEN CheckMemWriteBuf(p, b)[r.pc + k]
                                      ELSE r.old_data[k]

LEMMA TableLast ==
  ASSUME NEW p, NEW q, NEW m, Extends(p, q, m), NEW b, NEW r \in BpRecord, r = q[m],
         NEW old \in [0 .. BpLen - 1 -> Byte], Saved(p, b, r, old)
  PROVE  CheckMemWriteTable(q, b)[m] = [pc |-> r.pc, old_data |-> old]
<1>1. m \in DOMAIN q
  BY DEF Extends
<1>2. CheckMemWriteTable(q, b)[m] =
        [r EXCEPT !.old_data =
           [k \in 0 .. BpLen - 1 |-> IF r.pc + k \in DOMAIN b
                                     THEN SavedByte(q, m, b, r.pc + k)
                                     ELSE r.old_data[k]]]
  BY <1>1, Zenon DEF CheckMemWriteTable
<1>3. [k \in 0 .. BpLen - 1 |-> IF r.pc + k \in DOMAIN b
                                THEN SavedByte(q, m, b, r.pc + k)
                                ELSE r.old_data[k]]
      = old
  BY SavesBuffer DEF Saved
<1>4. [r EXCEPT !.old_data = old] = [pc |-> r.pc, old_data |-> old]
  BY DEF BpRecord
<1> QED BY <1>2, <1>3, <1>4, Zenon

-----------------------------------------------------------------------------
(* The offsets the code computes.                                          *)

\* Everything in the list is a breakpoint.
LEMMA InList ==
  ASSUME Typed, NEW i \in 1 .. Len(bps0)
  PROVE  /\ bps0[i] \in BpRecord /\ bps0[i].pc \in Int
         /\ bps0[i].old_data \in [0 .. BpLen - 1 -> Byte]
<1>1. bps0[i] \in BpRecord
  BY ElementOfSeq DEF Typed
<1> QED BY <1>1 DEF BpRecord

\* The buffer's bytes a copy names, those of the breakpoint, and how each maps
\* to the other.
InBuffer(i, k) == k \in buf_offset(i) .. buf_offset(i) + copy_len(i) - 1
InTrap(i, k)   == k \in copy_offset(i) .. copy_offset(i) + copy_len(i) - 1
AddressOf(k)   == mem_addr + k
ByteAt(i, k)   == bps0[i].pc + k
ToTrap(i, k)   == copy_offset(i) + (k - buf_offset(i))
ToBuffer(i, k) == buf_offset(i) + (k - copy_offset(i))

\* copy_len, copy_offset and buf_offset name the bytes that breakpoint and
\* range have in common, and lie within both.
LEMMA CopiesOverlap ==
  ASSUME Typed, NEW i \in 1 .. Len(bps0), ~ Misses(i)
  PROVE  /\ copy_len(i) >= 0
         /\ copy_offset(i) >= 0 /\ copy_offset(i) + copy_len(i) <= BpLen
         /\ buf_offset(i) >= 0 /\ buf_offset(i) + copy_len(i) <= mem_len
         /\ \A k \in DOMAIN buf : /\ InBuffer(i, k) <=> AddressOf(k) \in Span(bps0[i].pc)
                                  /\ ToTrap(i, k) = AddressOf(k) - bps0[i].pc
         /\ \A k \in 0 .. BpLen - 1 : /\ InTrap(i, k) <=> ByteAt(i, k) \in Range0
                                      /\ ToBuffer(i, k) = ByteAt(i, k) - mem_addr
<1> DEFINE pc == bps0[i].pc
           M  == mem_addr
           n  == Cardinality(DOMAIN buf0)
<1>1. /\ pc \in Int /\ M \in Int /\ n \in Nat /\ BpLen \in Nat \ {0}
      /\ DOMAIN buf = 0 .. n - 1 /\ DOMAIN buf = DOMAIN buf0 /\ bps[i].pc = pc
  <2>1. pc \in Int
    BY InList
  <2> QED BY <2>1, LengthAssumption DEF Typed
<1>2. mem_len = n /\ mem_end = M + n
  BY <1>1 DEF mem_len, mem_end
<1>3. /\ CopyStart(i) = IF M > pc THEN M ELSE pc
      /\ CopyEnd(i) = IF pc + BpLen > M + n THEN M + n ELSE pc + BpLen
      /\ ~ (M >= pc + BpLen \/ pc >= M + n)
  BY <1>1, <1>2 DEF CopyStart, CopyEnd, bp_end, Misses
<1>4. Span(pc) = pc .. pc + BpLen - 1 /\ Range0 = M .. M + n - 1
  BY DEF Span, Range0
<1> HIDE DEF pc, M, n
<1>5. /\ copy_len(i) >= 0
      /\ copy_offset(i) >= 0 /\ copy_offset(i) + copy_len(i) <= BpLen
      /\ buf_offset(i) >= 0 /\ buf_offset(i) + copy_len(i) <= n
      /\ \A k \in 0 .. n - 1 :
           /\ k \in buf_offset(i) .. buf_offset(i) + copy_len(i) - 1 <=> M + k \in pc .. pc + BpLen - 1
           /\ copy_offset(i) + (k - buf_offset(i)) = (M + k) - pc
      /\ \A k \in 0 .. BpLen - 1 :
           /\ k \in copy_offset(i) .. copy_offset(i) + copy_len(i) - 1 <=> pc + k \in M .. M + n - 1
           /\ buf_offset(i) + (k - copy_offset(i)) = (pc + k) - M
  <2>1. /\ copy_len(i) = CopyEnd(i) - CopyStart(i)
        /\ copy_offset(i) = CopyStart(i) - pc /\ buf_offset(i) = CopyStart(i) - M
    BY <1>1 DEF copy_len, copy_offset, buf_offset, M
  <2> DEFINE start == CopyStart(i)
             end   == CopyEnd(i)
  <2>2. /\ start = (IF M > pc THEN M ELSE pc)
        /\ end = (IF pc + BpLen > M + n THEN M + n ELSE pc + BpLen)
    BY <1>3
  <2> HIDE DEF start, end
  <2>3. start \in Int /\ end \in Int
    BY <1>1, <2>2
  <2>4. ASSUME NEW k \in 0 .. n - 1
        PROVE  /\ k \in start - M .. (start - M) + (end - start) - 1 <=> M + k \in pc .. pc + BpLen - 1
               /\ (start - pc) + (k - (start - M)) = (M + k) - pc
    BY <1>1, <1>3, <2>2, <2>3
  <2>5. ASSUME NEW k \in 0 .. BpLen - 1
        PROVE  /\ k \in start - pc .. (start - pc) + (end - start) - 1 <=> pc + k \in M .. M + n - 1
               /\ (start - M) + (k - (start - pc)) = (pc + k) - M
    BY <1>1, <1>3, <2>2, <2>3
  <2>6. end - start >= 0
    BY <1>1, <1>3, <2>2, <2>3
  <2>7. start - pc >= 0 /\ (start - pc) + (end - start) <= BpLen
    BY <1>1, <1>3, <2>2, <2>3
  <2>8. start - M >= 0 /\ (start - M) + (end - start) <= n
    BY <1>1, <1>3, <2>2, <2>3
  <2> QED BY <2>1, <2>4, <2>5, <2>6, <2>7, <2>8, Zenon DEF start, end
<1>6. ASSUME NEW k \in DOMAIN buf
      PROVE  (InBuffer(i, k) <=> AddressOf(k) \in Span(pc)) /\ ToTrap(i, k) = AddressOf(k) - pc
  <2>1. k \in 0 .. n - 1
    BY <1>1
  <2>2. k \in buf_offset(i) .. buf_offset(i) + copy_len(i) - 1 <=> M + k \in pc .. pc + BpLen - 1
    BY <1>5, <2>1, Zenon
  <2>3. ToTrap(i, k) = (M + k) - pc
    BY <1>5, <2>1, Zenon DEF ToTrap
  <2>4. AddressOf(k) = M + k
    BY DEF AddressOf, M
  <2>5. InBuffer(i, k) <=> AddressOf(k) \in Span(pc)
    BY <1>4, <2>2, <2>4 DEF InBuffer
  <2>6. ToTrap(i, k) = AddressOf(k) - pc
    BY <2>3, <2>4, Zenon
  <2> QED BY <2>5, <2>6
<1>7. ASSUME NEW k \in 0 .. BpLen - 1
      PROVE  (InTrap(i, k) <=> ByteAt(i, k) \in Range0) /\ ToBuffer(i, k) = ByteAt(i, k) - M
  <2>1. k \in copy_offset(i) .. copy_offset(i) + copy_len(i) - 1 <=> pc + k \in M .. M + n - 1
    BY <1>5, Zenon
  <2>2. ToBuffer(i, k) = (pc + k) - M
    BY <1>5, Zenon DEF ToBuffer
  <2>3. ByteAt(i, k) = pc + k
    BY DEF ByteAt, pc
  <2>4. InTrap(i, k) <=> ByteAt(i, k) \in Range0
    BY <1>4, <2>1, <2>3 DEF InTrap
  <2>5. ToBuffer(i, k) = ByteAt(i, k) - M
    BY <2>2, <2>3, Zenon
  <2> QED BY <2>4, <2>5
<1>8. /\ copy_len(i) >= 0
      /\ copy_offset(i) >= 0 /\ copy_offset(i) + copy_len(i) <= BpLen
      /\ buf_offset(i) >= 0 /\ buf_offset(i) + copy_len(i) <= mem_len
  BY <1>2, <1>5
<1> QED BY <1>6, <1>7, <1>8 DEF pc, M

\* The two `continue's: nothing in common.
LEMMA MissesNothing ==
  ASSUME Typed, NEW i \in 1 .. Len(bps0), Misses(i)
  PROVE  \A a \in Range0 : a \notin Span(bps0[i].pc)
<1> DEFINE pc == bps0[i].pc
           n  == Cardinality(DOMAIN buf0)
<1>1. /\ pc \in Int /\ mem_addr \in Int /\ n \in Nat /\ BpLen \in Nat \ {0}
      /\ DOMAIN buf = DOMAIN buf0 /\ bps[i].pc = pc
  <2>1. pc \in Int
    BY InList
  <2> QED BY <2>1, LengthAssumption DEF Typed
<1>2. mem_addr >= pc + BpLen \/ pc >= mem_addr + n
  BY <1>1 DEF Misses, bp_end, mem_end, mem_len
<1>3. Span(pc) = pc .. pc + BpLen - 1 /\ Range0 = mem_addr .. mem_addr + n - 1
  BY DEF Span, Range0
<1> HIDE DEF pc, n
<1>4. \A a \in mem_addr .. mem_addr + n - 1 : a \notin pc .. pc + BpLen - 1
  BY <1>1, <1>2
<1> QED BY <1>3, <1>4 DEF pc

-----------------------------------------------------------------------------
(* The steps.                                                              *)

\* The range of addresses and the offsets into the buffer.
LEMMA Addressed ==
  ASSUME Typed
  PROVE  /\ DOMAIN Entry0 = Range0
         /\ \A a \in Range0 : /\ a - mem_addr \in DOMAIN buf
                              /\ mem_addr + (a - mem_addr) = a
                              /\ Entry0[a] = buf0[a - mem_addr]
         /\ DOMAIN buf = DOMAIN buf0
BY DEF Typed, Range0, Entry0, AtAddresses

\* A step leaves the range, the entry values and the walked list as they were.
LEMMA StepFixes ==
  ASSUME Typed, UNCHANGED <<op, mem_addr, buf0, bps0>>, bp \in 1 .. Len(bps0), bp' = bp + 1
  PROVE  /\ Range0' = Range0 /\ Entry0' = Entry0
         /\ Extends(Done, Done', bp) /\ Done'[bp] = bps0[bp]
<1>1. Range0' = Range0 /\ Entry0' = Entry0
  BY DEF Range0, Entry0, AtAddresses
<1>2. Done = SubSeq(bps0, 1, bp - 1) /\ Done' = SubSeq(bps0, 1, bp)
  BY DEF Done, Typed
<1>3. bps0 \in Seq(BpRecord)
  BY DEF Typed
<1> QED BY <1>1, <1>2, <1>3, WalkedExtends

LEMMA SkipInv ==
  ASSUME Inv, Skip
  PROVE  Inv'
<1>1. /\ bp \in 1 .. Len(bps0) /\ Misses(bp) /\ bp' = bp + 1
      /\ UNCHANGED <<op, mem_addr, buf, bps, buf0, bps0>> /\ Typed
  BY LenProperties DEF Skip, Inv, Typed
<1>2. /\ Range0' = Range0 /\ Entry0' = Entry0
      /\ Extends(Done, Done', bp) /\ Done'[bp] = bps0[bp]
  BY <1>1, StepFixes
<1>3. \A a \in Range0 : a \notin Span(Done'[bp].pc) /\ a \in DOMAIN Entry0
  BY <1>1, <1>2, MissesNothing, Addressed
<1>4. Typed'
  BY <1>1 DEF Typed
<1>5. CASE op = "read"
  <2>1. \A a \in Range0 : CheckMemRead(Done', Entry0)[a] = CheckMemRead(Done, Entry0)[a]
    BY <1>2, <1>3, ReadOneMore
  <2> QED BY <1>1, <1>2, <1>4, <1>5, <2>1 DEF Inv, Agreed
<1>6. CASE op # "read"
  <2>1. \A a \in Range0 : CheckMemWriteBuf(Done', Entry0)[a] = CheckMemWriteBuf(Done, Entry0)[a]
    BY <1>2, <1>3, WriteOneMore
  <2>2. CheckMemWriteTable(Done', Entry0)[bp] = bps0[bp]
    <3> DEFINE r == bps0[bp]
    <3>1. r \in BpRecord /\ r.pc \in Int
      BY <1>1, InList
    <3>2. \A k \in 0 .. BpLen - 1 : r.pc + k \notin Range0
      <4>1. \A k \in 0 .. BpLen - 1 : r.pc + k \in Span(r.pc)
        BY <3>1, LengthAssumption DEF Span
      <4> QED BY <1>2, <1>3, <4>1
    <3>3. r.old_data \in [0 .. BpLen - 1 -> Byte]
      BY <3>1 DEF BpRecord
    <3>4. DOMAIN Entry0 = Range0 /\ r = Done'[bp]
      BY <1>1, <1>2, Addressed
    <3> HIDE DEF r
    <3>5. Saved(Done, Entry0, r, r.old_data)
      BY <3>2, <3>4 DEF Saved
    <3>6. CheckMemWriteTable(Done', Entry0)[bp] = [pc |-> r.pc, old_data |-> r.old_data]
      BY <1>2, <3>1, <3>3, <3>4, <3>5, TableLast
    <3>7. [pc |-> r.pc, old_data |-> r.old_data] = r
      BY <3>1 DEF BpRecord
    <3> QED BY <3>6, <3>7 DEF r
  <2>3. \A i \in 1 .. bp - 1 : CheckMemWriteTable(Done', Entry0)[i] = CheckMemWriteTable(Done, Entry0)[i]
    BY <1>2, TableEarlier
  <2>4. ASSUME NEW i \in 1 .. Len(bps0)
        PROVE  bps'[i] = IF i < bp' THEN CheckMemWriteTable(Done', Entry0)[i] ELSE bps0[i]
    <3>1. bps[i] = IF i < bp THEN CheckMemWriteTable(Done, Entry0)[i] ELSE bps0[i]
      BY <1>6 DEF Inv, Agreed
    <3>2. bp \in Int /\ i \in Int /\ i >= 1
      BY <1>1
    <3> QED BY <1>1, <2>2, <2>3, <3>1, <3>2
  <2> QED BY <1>1, <1>2, <1>4, <1>6, <2>1, <2>4 DEF Inv, Agreed
<1> QED BY <1>5, <1>6

\* What memcpy leaves in the buffer, given what it copies over each byte.
LEMMA CopiedBuffer ==
  ASSUME Typed, bp \in 1 .. Len(bps0), ~ Misses(bp), NEW src,
         buf' = Memcpy(buf, buf_offset(bp), src, copy_offset(bp), copy_len(bp))
  PROVE  /\ DOMAIN buf' = DOMAIN buf
         /\ \A a \in Range0 : buf'[a - mem_addr] = IF a \in Span(bps0[bp].pc)
                                                   THEN src[a - bps0[bp].pc]
                                                   ELSE buf[a - mem_addr]
<1>1. DOMAIN buf' = DOMAIN buf
  BY DEF Memcpy
<1>2. ASSUME NEW a \in Range0
      PROVE  buf'[a - mem_addr] = IF a \in Span(bps0[bp].pc) THEN src[a - bps0[bp].pc]
                                  ELSE buf[a - mem_addr]
  <2> DEFINE k == a - mem_addr
  <2>1. k \in DOMAIN buf /\ AddressOf(k) = a
    BY Addressed DEF AddressOf
  <2> HIDE DEF k
  <2>2. (InBuffer(bp, k) <=> a \in Span(bps0[bp].pc)) /\ ToTrap(bp, k) = a - bps0[bp].pc
    BY <2>1, CopiesOverlap
  <2>3. buf'[k] = IF InBuffer(bp, k) THEN src[ToTrap(bp, k)] ELSE buf[k]
    BY <2>1 DEF Memcpy, InBuffer, ToTrap
  <2> QED BY <2>2, <2>3 DEF k
<1> QED BY <1>1, <1>2

\* A byte copied comes from the breakpoint's bytes.
LEMMA CopiedTyped ==
  ASSUME Typed, bp \in 1 .. Len(bps0), ~ Misses(bp), NEW src \in [0 .. BpLen - 1 -> Byte],
         buf' = Memcpy(buf, buf_offset(bp), src, copy_offset(bp), copy_len(bp))
  PROVE  buf' \in [0 .. Cardinality(DOMAIN buf0) - 1 -> Byte]
<1>1. ASSUME NEW k \in DOMAIN buf
      PROVE  buf'[k] \in Byte
  <2>1. /\ InBuffer(bp, k) <=> AddressOf(k) \in Span(bps0[bp].pc)
        /\ ToTrap(bp, k) = AddressOf(k) - bps0[bp].pc
    BY CopiesOverlap
  <2>2. buf'[k] = IF InBuffer(bp, k) THEN src[ToTrap(bp, k)] ELSE buf[k]
    BY DEF Memcpy, InBuffer, ToTrap
  <2>3. bps0[bp].pc \in Int
    BY InList
  <2>4. AddressOf(k) \in Span(bps0[bp].pc) => AddressOf(k) - bps0[bp].pc \in 0 .. BpLen - 1
    <3>1. mem_addr \in Int /\ k \in Int
      BY DEF Typed
    <3> QED BY <2>3, <3>1, LengthAssumption DEF Span, AddressOf
  <2>5. buf[k] \in Byte
    BY DEF Typed
  <2> QED BY <2>1, <2>2, <2>4, <2>5
<1>2. buf' = [k \in DOMAIN buf |-> buf'[k]]
  BY DEF Memcpy
<1> QED BY <1>1, <1>2 DEF Typed

LEMMA ReadStepInv ==
  ASSUME Inv, ReadStep
  PROVE  Inv'
<1>1. /\ op = "read" /\ bp \in 1 .. Len(bps0) /\ ~ Misses(bp) /\ bp' = bp + 1 /\ Typed
      /\ UNCHANGED <<op, mem_addr, bps, buf0, bps0>>
      /\ bps = bps0 /\ \A a \in Range0 : buf[a - mem_addr] = CheckMemRead(Done, Entry0)[a]
      /\ buf' = Memcpy(buf, buf_offset(bp), bps0[bp].old_data, copy_offset(bp), copy_len(bp))
  BY LenProperties DEF ReadStep, Inv, Typed, Agreed
<1>2. /\ Range0' = Range0 /\ Entry0' = Entry0
      /\ Extends(Done, Done', bp) /\ Done'[bp] = bps0[bp]
  BY <1>1, StepFixes
<1>3. bps0[bp].old_data \in [0 .. BpLen - 1 -> Byte]
  BY <1>1, InList
<1>4. Typed'
  BY <1>1, <1>3, CopiedTyped DEF Typed
<1>5. ASSUME NEW a \in Range0
      PROVE  buf'[a - mem_addr] = CheckMemRead(Done', Entry0)[a]
  <2>1. buf'[a - mem_addr] = IF a \in Span(bps0[bp].pc) THEN bps0[bp].old_data[a - bps0[bp].pc]
                             ELSE buf[a - mem_addr]
    BY <1>1, CopiedBuffer
  <2>2. a \in DOMAIN Entry0
    BY <1>1, Addressed
  <2>3. CheckMemRead(Done', Entry0)[a] = IF a \in Span(bps0[bp].pc) THEN OldByte(bps0[bp], a)
                                         ELSE CheckMemRead(Done, Entry0)[a]
    BY <1>2, <2>2, ReadOneMore
  <2> QED BY <1>1, <2>1, <2>3 DEF OldByte
<1> QED BY <1>1, <1>2, <1>4, <1>5 DEF Inv, Agreed

LEMMA WriteStepInv ==
  ASSUME Inv, WriteStep
  PROVE  Inv'
<1> DEFINE r   == bps0[bp]
           old == Memcpy(r.old_data, copy_offset(bp), buf, buf_offset(bp), copy_len(bp))
           new == [pc |-> r.pc, old_data |-> old]
<1>1. /\ op = "write" /\ bp \in 1 .. Len(bps0) /\ ~ Misses(bp) /\ bp' = bp + 1 /\ Typed
      /\ UNCHANGED <<op, mem_addr, buf0, bps0>>
      /\ \A a \in Range0 : buf[a - mem_addr] = CheckMemWriteBuf(Done, Entry0)[a]
      /\ \A i \in 1 .. Len(bps0) :
           bps[i] = IF i < bp THEN CheckMemWriteTable(Done, Entry0)[i] ELSE bps0[i]
      /\ buf' = Memcpy(buf, buf_offset(bp), breakpoint_data, copy_offset(bp), copy_len(bp))
  BY LenProperties DEF WriteStep, Inv, Typed, Agreed
<1>2. /\ Range0' = Range0 /\ Entry0' = Entry0
      /\ Extends(Done, Done', bp) /\ Done'[bp] = bps0[bp]
  BY <1>1, StepFixes
<1>3. r \in BpRecord /\ r.pc \in Int /\ r.old_data \in [0 .. BpLen - 1 -> Byte]
  BY <1>1, InList
<1>4. bps[bp] = r /\ bps' = [bps EXCEPT ![bp].old_data = old]
  <2>1. ~ (bp < bp)
    BY <1>1
  <2>2. bps[bp] = r
    BY <1>1, <2>1
  <2> QED BY <2>2 DEF WriteStep
<1>5. buf' \in [0 .. Cardinality(DOMAIN buf0) - 1 -> Byte]
  BY <1>1, ByteAssumption, CopiedTyped
<1>6. ASSUME NEW k \in 0 .. BpLen - 1
      PROVE  /\ old[k] = IF r.pc + k \in Range0 THEN CheckMemWriteBuf(Done, Entry0)[r.pc + k]
                         ELSE r.old_data[k]
             /\ old[k] \in Byte
  <2> DEFINE at == ByteAt(bp, k)
  <2>0. at = r.pc + k
    BY DEF ByteAt
  <2>1. (InTrap(bp, k) <=> at \in Range0) /\ ToBuffer(bp, k) = at - mem_addr
    BY <1>1, CopiesOverlap
  <2>2. old[k] = IF InTrap(bp, k) THEN buf[ToBuffer(bp, k)] ELSE r.old_data[k]
    BY <1>3 DEF Memcpy, InTrap, ToBuffer
  <2> HIDE DEF r, old, at
  <2>3. at \in Range0 => buf[at - mem_addr] = CheckMemWriteBuf(Done, Entry0)[at]
    BY <1>1
  <2>4. at \in Range0 => buf[at - mem_addr] \in Byte
    <3>1. \A a \in Range0 : a - mem_addr \in DOMAIN buf
      BY <1>1, Addressed
    <3>2. \A j \in DOMAIN buf : buf[j] \in Byte
      BY <1>1 DEF Typed
    <3> QED BY <3>1, <3>2
  <2>5. r.old_data[k] \in Byte
    BY <1>3
  <2>6. /\ old[k] = IF at \in Range0 THEN CheckMemWriteBuf(Done, Entry0)[at] ELSE r.old_data[k]
        /\ old[k] \in Byte
    BY <2>1, <2>2, <2>3, <2>4, <2>5
  <2> QED BY <2>0, <2>6
<1>7. DOMAIN old = 0 .. BpLen - 1
  BY <1>3 DEF Memcpy
<1>8. old \in [0 .. BpLen - 1 -> Byte]
  <2>1. old = [k \in 0 .. BpLen - 1 |-> old[k]]
    BY <1>7 DEF Memcpy
  <2> HIDE DEF r, old
  <2> QED BY <1>6, <2>1
<1>9. CheckMemWriteTable(Done', Entry0)[bp] = new
  <2>1. DOMAIN Entry0 = Range0
    BY <1>1, Addressed
  <2>6. r = Done'[bp]
    BY <1>2
  <2> HIDE DEF r, old
  <2>2. \A k \in 0 .. BpLen - 1 : old[k] = IF r.pc + k \in DOMAIN Entry0
                                           THEN CheckMemWriteBuf(Done, Entry0)[r.pc + k]
                                           ELSE r.old_data[k]
    BY <1>6, <2>1
  <2>3. Extends(Done, Done', bp)
    BY <1>2
  <2>4. r \in BpRecord /\ r.pc \in Int
    BY <1>3
  <2>5. Saved(Done, Entry0, r, old)
    BY <2>2 DEF Saved
  <2>7. CheckMemWriteTable(Done', Entry0)[bp] = [pc |-> r.pc, old_data |-> old]
    BY <1>8, <2>3, <2>4, <2>5, <2>6, TableLast
  <2> QED BY <2>7
<1>10. new \in BpRecord /\ new.pc = r.pc
  <2> HIDE DEF r, old
  <2> QED BY <1>3, <1>8 DEF BpRecord
<1> HIDE DEF r, old, new
<1>11. /\ \A i \in 1 .. Len(bps0) : i # bp => bps'[i] = bps[i]
       /\ bps'[bp] = new
       /\ bps' \in Seq(BpRecord) /\ Len(bps') = Len(bps0)
  <2>1. /\ bps \in Seq(BpRecord) /\ Len(bps) = Len(bps0) /\ DOMAIN bps = 1 .. Len(bps0)
    BY <1>1, LenProperties DEF Typed
  <2>2. bps' = [bps EXCEPT ![bp] = [r EXCEPT !.old_data = old]]
    BY <1>4
  <2>3. [r EXCEPT !.old_data = old] = new
    BY <1>3 DEF BpRecord, new
  <2> QED BY <1>1, <1>10, <2>1, <2>2, <2>3
<1>12. Typed'
  <2>1. \A i \in 1 .. Len(bps0) : bps'[i].pc = bps0[i].pc
    BY <1>1, <1>10, <1>11 DEF Typed, r
  <2> QED BY <1>1, <1>5, <1>11, <2>1 DEF Typed
<1>13. ASSUME NEW a \in Range0
       PROVE  buf'[a - mem_addr] = CheckMemWriteBuf(Done', Entry0)[a]
  <2>1. buf'[a - mem_addr] = IF a \in Span(bps0[bp].pc) THEN breakpoint_data[a - bps0[bp].pc]
                             ELSE buf[a - mem_addr]
    BY <1>1, CopiedBuffer
  <2>2. a \in DOMAIN Entry0
    BY <1>1, Addressed
  <2>3. CheckMemWriteBuf(Done', Entry0)[a] = IF a \in Span(bps0[bp].pc) THEN TrapByte(bps0[bp], a)
                                             ELSE CheckMemWriteBuf(Done, Entry0)[a]
    BY <1>2, <2>2, WriteOneMore
  <2> QED BY <1>1, <2>1, <2>3 DEF TrapByte
<1>14. ASSUME NEW i \in 1 .. Len(bps0)
       PROVE  bps'[i] = IF i < bp' THEN CheckMemWriteTable(Done', Entry0)[i] ELSE bps0[i]
  <2>1. \A j \in 1 .. bp - 1 : CheckMemWriteTable(Done', Entry0)[j] = CheckMemWriteTable(Done, Entry0)[j]
    BY <1>2, TableEarlier
  <2>2. i \in Int /\ i >= 1 /\ bp \in Int /\ bp' = bp + 1
    BY <1>1
  <2>3. CASE i = bp
    BY <1>9, <1>11, <2>2, <2>3
  <2>4. CASE i # bp
    <3>1. bps'[i] = IF i < bp THEN CheckMemWriteTable(Done, Entry0)[i] ELSE bps0[i]
      BY <1>1, <1>11, <2>4
    <3> QED BY <2>1, <2>2, <2>4, <3>1
  <2> QED BY <2>3, <2>4
<1> QED BY <1>1, <1>2, <1>12, <1>13, <1>14 DEF Inv, Agreed

-----------------------------------------------------------------------------
(* The theorems.                                                           *)

\* Before the first breakpoint nothing has been walked.
LEMMA InitInv ==
  ASSUME Init
  PROVE  Inv
<1>1. /\ op \in {"read", "write"} /\ mem_addr \in Int
      /\ Cardinality(DOMAIN buf0) \in Nat
      /\ buf0 \in [0 .. Cardinality(DOMAIN buf0) - 1 -> Byte]
      /\ bps0 \in Seq(BpRecord) /\ buf = buf0 /\ bps = bps0 /\ bp = 1
  BY AddressAssumption, ShadowLoopAssumption, FS_CardinalityType DEF Init
<1>2. Typed
  BY <1>1, LenProperties DEF Typed
<1>3. DOMAIN Done = {}
  BY <1>1 DEF Done
<1>4. \A a : Covering(Done, a) = {}
  BY <1>3 DEF Covering
<1>5. \A a \in Range0 : /\ a \in DOMAIN Entry0 /\ Entry0[a] = buf[a - mem_addr]
  BY <1>1, <1>2, Addressed
<1>6. \A a \in Range0 : /\ buf[a - mem_addr] = CheckMemRead(Done, Entry0)[a]
                       /\ buf[a - mem_addr] = CheckMemWriteBuf(Done, Entry0)[a]
  BY <1>4, <1>5 DEF CheckMemRead, CheckMemWriteBuf
<1>7. \A i \in 1 .. Len(bps0) : ~ (i < bp)
  BY <1>1
<1> QED BY <1>1, <1>2, <1>6, <1>7 DEF Inv, Agreed

\* The invariant of the two loops: after each breakpoint, buffer and list are
\* the closed forms' of the breakpoints walked.
THEOREM ShadowLoopInv == Spec => []Inv
<1>1. Inv /\ [Next]_vars => Inv'
  <2>1. Inv /\ UNCHANGED vars => Inv'
    BY DEF vars, Inv, Typed, Agreed, Range0, Entry0, AtAddresses, Done
  <2> QED BY <2>1, SkipInv, ReadStepInv, WriteStepInv DEF Next
<1> QED BY <1>1, InitInv, PTL DEF Spec

\* check_mem_read and check_mem_write leave bytes in the buffer and in every
\* old_data, and never move a breakpoint.
THEOREM LoopTyped == Spec => []TypeOK
<1>1. Inv => TypeOK
  <2> SUFFICES ASSUME Inv PROVE TypeOK
    OBVIOUS
  <2>1. /\ bps \in Seq(BpRecord) /\ DOMAIN bps = 1 .. Len(bps0) /\ DOMAIN bps0 = 1 .. Len(bps0)
        /\ \A i \in 1 .. Len(bps0) : bps[i].pc = bps0[i].pc
    BY LenProperties DEF Inv, Typed
  <2>2. \A i \in 1 .. Len(bps0) : bps[i] \in BpRecord
    BY <2>1, ElementOfSeq DEF Inv, Typed
  <2>3. \A i \in 1 .. Len(bps0) : bps[i].old_data \in [0 .. BpLen - 1 -> Byte]
    BY <2>2 DEF BpRecord
  <2> QED BY <2>1, <2>3 DEF TypeOK, Inv, Typed
<1> QED BY <1>1, ShadowLoopInv, PTL

\* Every memcpy of check_mem_read and check_mem_write has a length that is not
\* negative and stays inside the packet's buffer, old_data and the trap.
THEOREM CopiesInBounds == Spec => []CopyInBounds
<1>1. Inv => CopyInBounds
  <2> SUFFICES ASSUME Inv, bp \in DOMAIN bps, ~ Misses(bp)
               PROVE  /\ copy_len(bp) >= 0
                      /\ copy_offset(bp) >= 0 /\ copy_offset(bp) + copy_len(bp) <= BpLen
                      /\ buf_offset(bp) >= 0 /\ buf_offset(bp) + copy_len(bp) <= mem_len
    BY DEF CopyInBounds
  <2>1. Typed /\ bp \in 1 .. Len(bps0)
    BY LenProperties DEF Inv, Typed
  <2> QED BY <2>1, CopiesOverlap
<1> QED BY <1>1, ShadowLoopInv, PTL

\* Byte by byte as LoopAgrees says it: the closed forms over the addresses.
LEMMA InvAgrees ==
  ASSUME Inv
  PROVE  LoopAgrees
<1>1. /\ Typed /\ DOMAIN AtAddresses(buf) = Range0 /\ DOMAIN Entry0 = Range0
      /\ \A a \in Range0 : AtAddresses(buf)[a] = buf[a - mem_addr]
  BY Addressed DEF Inv, Typed, AtAddresses, Range0
<1>2. CASE op = "read"
  <2>1. /\ DOMAIN CheckMemRead(Done, Entry0) = Range0
        /\ CheckMemRead(Done, Entry0) = [a \in Range0 |-> CheckMemRead(Done, Entry0)[a]]
    BY <1>1 DEF CheckMemRead
  <2>2. AtAddresses(buf) = [a \in Range0 |-> AtAddresses(buf)[a]]
    BY <1>1 DEF AtAddresses
  <2>3. \A a \in Range0 : AtAddresses(buf)[a] = CheckMemRead(Done, Entry0)[a]
    BY <1>1, <1>2 DEF Inv, Agreed
  <2>4. AtAddresses(buf) = CheckMemRead(Done, Entry0)
    BY <2>1, <2>2, <2>3
  <2> QED BY <1>2, <2>4 DEF LoopAgrees, Inv, Agreed, Entry0
<1>3. CASE op # "read"
  <2>1. /\ DOMAIN CheckMemWriteBuf(Done, Entry0) = Range0
        /\ CheckMemWriteBuf(Done, Entry0) = [a \in Range0 |-> CheckMemWriteBuf(Done, Entry0)[a]]
    BY <1>1 DEF CheckMemWriteBuf
  <2>2. AtAddresses(buf) = [a \in Range0 |-> AtAddresses(buf)[a]]
    BY <1>1 DEF AtAddresses
  <2>3. \A a \in Range0 : AtAddresses(buf)[a] = CheckMemWriteBuf(Done, Entry0)[a]
    BY <1>1, <1>3 DEF Inv, Agreed
  <2>4. AtAddresses(buf) = CheckMemWriteBuf(Done, Entry0)
    BY <2>1, <2>2, <2>3
  <2>5. /\ bps \in Seq(BpRecord) /\ bps0 \in Seq(BpRecord) /\ Len(bps) = Len(bps0)
        /\ bp \in 1 .. Len(bps0) + 1 /\ Len(bps0) \in Nat
        /\ \A i \in 1 .. Len(bps0) :
             bps[i] = IF i < bp THEN CheckMemWriteTable(Done, Entry0)[i] ELSE bps0[i]
    BY <1>3, LenProperties DEF Inv, Typed, Agreed
  <2>6. SubSeq(bps, bp, Len(bps)) = SubSeq(bps0, bp, Len(bps))
    <3>1. /\ bp \in Int
          /\ \A k \in 1 .. Len(bps0) + 1 - bp : bps[bp + k - 1] = bps0[bp + k - 1]
      BY <2>5
    <3> QED BY <2>5, <3>1
  <2>7. SubSeq(bps, 1, bp - 1) = CheckMemWriteTable(Done, Entry0)
    <3>1. /\ bp - 1 \in Nat /\ DOMAIN Done = 1 .. bp - 1
          /\ SubSeq(bps, 1, bp - 1) = [i \in 1 .. bp - 1 |-> bps[i]]
      BY <2>5 DEF Done
    <3>2. /\ DOMAIN CheckMemWriteTable(Done, Entry0) = 1 .. bp - 1
          /\ CheckMemWriteTable(Done, Entry0) =
               [i \in 1 .. bp - 1 |-> CheckMemWriteTable(Done, Entry0)[i]]
      BY <3>1, Zenon DEF CheckMemWriteTable
    <3>3. \A i \in 1 .. bp - 1 : bps[i] = CheckMemWriteTable(Done, Entry0)[i]
      BY <2>5
    <3>4. [i \in 1 .. bp - 1 |-> bps[i]] = [i \in 1 .. bp - 1 |-> CheckMemWriteTable(Done, Entry0)[i]]
      BY <3>3, Zenon
    <3> QED BY <3>1, <3>2, <3>4, Zenon
  <2> QED BY <1>3, <2>4, <2>6, <2>7 DEF LoopAgrees, Entry0
<1> QED BY <1>2, <1>3

\* What the loops compute is what MemBreak is built from.
THEOREM LoopsAgree == Spec => []LoopAgrees
BY ShadowLoopInv, InvAgrees, PTL

=============================================================================
