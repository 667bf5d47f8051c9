----------------------------- MODULE MCMemBreak -----------------------------
(***************************************************************************)
(* A small address space for MemBreak: two adjacent instructions and one   *)
(* data byte in mapped memory, then an unmapped instruction.  Traps and    *)
(* words are two bytes, so ranges start, end and fail inside both.         *)
(***************************************************************************)
EXTENDS MemBreak

MCAddr == 0 .. 6
MCMapped == 0 .. 4
MCInsn == {0, 2, 5}
MCTrap == [k \in 0 .. 1 |-> 1 - k]
MCTrapOnes == [k \in 0 .. 1 |-> 1]
=============================================================================
