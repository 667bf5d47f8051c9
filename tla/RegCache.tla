------------------------------ MODULE RegCache ------------------------------
(***************************************************************************)
(* The register cache (regcache.c) between the debugger's register packets *)
(* and the inferior's thread (darwin-ppc-low.c).  The stub reads the       *)
(* thread once per stop, serves and changes the copy, and writes it back   *)
(* when the inferior is resumed.  The kernel may refuse any of the calls   *)
(* with which the copy is filled and written back; a bank is the set of    *)
(* registers one such call moves.                                          *)
(*                                                                         *)
(* The stub runs one process as one thread, so there is one cache.         *)
(***************************************************************************)
EXTENDS Integers, Sequences, FiniteSets

CONSTANTS
  Gprs,      \* r0-r31, pc, ps, cr, lr, ctr, xer: PPC_THREAD_STATE
  Fprs,      \* f0-f31, fpscr: PPC_FLOAT_STATE
  Expedite,  \* the registers a stop reply carries: r1 and pc
  Order,     \* the registers in the order of reg_defs, as g and G carry them
  Val,       \* register contents
  Zero       \* calloc's

Regs  == Gprs \cup Fprs
Banks == {"gpr", "fpr"}
Bank(r) == IF r \in Gprs THEN "gpr" ELSE "fpr"

ASSUME RegAssumption ==
  /\ Gprs \cap Fprs = {} /\ Expedite \subseteq Gprs
  /\ Order \in Seq(Regs) /\ \A r \in Regs : \E i \in DOMAIN Order : Order[i] = r
  /\ Zero \in Val

VARIABLES
  thread,           \* the registers of the inferior's thread, in the kernel
  registers,        \* the cache
  registers_valid,
  status,           \* how the inferior last stopped: "T", or "W" when it is gone
  server,           \* what the stub is doing
  own_buf,          \* the packet being handled, or the reply
  view,             \* history: the registers as of the last stop, with the
                    \* writes acknowledged since
  doubtful,         \* history: the registers of which this cannot be said: the
                    \* kernel refused to move them, or a write of them got no
                    \* answer, since the stop or the last acknowledged write
  told              \* history: the registers the debugger has been told since
                    \* the last stop, less those a write has reached since

vars == <<thread, registers, registers_valid, status, server, own_buf,
          view, doubtful, told>>
history == <<view, doubtful, told>>

\* The first n registers of a G packet; the stub takes a packet of any length.
Prefix(n) == {Order[i] : i \in 1 .. n}

\* `hex': every character is a digit to fromhex (an upper-case one is not).
\* `regs' is what the digits amount to, or those before the first bad one: the
\* last register may then be half converted, which makes some value of it.
Packets ==
  [type : {"g", "?", "resume", "D", "k"}]
    \cup (UNION {[type : {"G"}, hex : BOOLEAN, regs : [Prefix(n) -> Val]] :
                   n \in 0 .. Len(Order)})
    \cup [type : {"p"}, reg : Regs]
    \cup (UNION {[type : {"P"}, hex : BOOLEAN, regs : [{r} -> Val]] : r \in Regs})

\* Fault for the run to find: the registers of a packet taken for all there are.
Replace(f, g) == g

Override(f, g) == [r \in Regs |-> IF r \in DOMAIN g THEN g[r] ELSE f[r]]

NothingTold == [r \in {} |-> Zero]

-----------------------------------------------------------------------------
\* The cache is made when the inferior is, zeroed and invalid.  The program
\* may have exited while the stub ran it to its entry point.
Init == /\ thread \in [Regs -> Val]
        /\ registers = [r \in Regs |-> Zero]
        /\ registers_valid = FALSE
        /\ status \in {"T", "W"}
        /\ server = "reading"
        /\ own_buf = [type |-> "none"]
        /\ view = thread /\ doubtful = {} /\ told = NothingTold

Receive(packet) ==
  /\ server = "reading"
  /\ server' = "handling"
  /\ own_buf' = packet
  /\ UNCHANGED <<thread, registers, registers_valid, status, history>>

\* After the reply: a stub whose inferior is gone exits.
Reply(answer) ==
  /\ own_buf' = answer
  /\ server' = IF status' = "T" THEN "reading" ELSE "exited"

\* error() in a handler: packet_loop starts over, without a reply and without
\* the look at status that follows one.
Error ==
  /\ own_buf' = [type |-> "none"]
  /\ server' = "reading"

Handling(type) == server = "handling" /\ own_buf.type = type

\* darwin_ppc_fetch_registers: when the first bank is refused the second is
\* not asked for.  There is no thread to ask once the inferior is gone.
FetchOutcomes == IF status' = "T" THEN {{}, {"gpr"}, Banks} ELSE {{}}

Loaded(banks) == [r \in Regs |-> IF Bank(r) \in banks THEN thread'[r] ELSE registers[r]]

\* Faults for the run to find: a cache that is never filled, one that is
\* called valid only when the kernel moved everything, and floats forgotten
\* when it is written back.
NeverFilled(banks) == registers
ValidIfMoved(banks) == registers_valid' = (registers_valid \/ banks = Banks)
FloatsForgotten(banks) ==
  [r \in Regs |-> IF Bank(r) = "gpr" /\ "gpr" \in banks THEN registers[r] ELSE thread[r]]

\* get_regcache(inf, 1): fills an invalid cache and calls it valid, whatever
\* the kernel said.  The rest of the handler sees the cache as Cached.
Cached(banks) == IF registers_valid THEN registers ELSE Loaded(banks)

GetRegcache(banks) == registers_valid' = TRUE

\* What the histories make of a fetch, an answer and a write.
Unmoved(banks) == {r \in Regs : Bank(r) \notin banks}
DoubtfulAfterFetch(banks) ==
  IF registers_valid THEN doubtful ELSE doubtful \cup Unmoved(banks)
ToldMore(regs) ==
  [r \in DOMAIN regs \cup DOMAIN told |-> IF r \in DOMAIN regs THEN regs[r] ELSE told[r]]
ToldLess(S) == [r \in DOMAIN told \ S |-> told[r]]

\* Registers collected from the cache are the reply.
Answers(banks, regs) ==
  /\ GetRegcache(banks)
  /\ registers' = Cached(banks)
  /\ doubtful' = DoubtfulAfterFetch(banks)
  /\ told' = ToldMore(regs)
  /\ Reply([type |-> "regs", regs |-> regs])

\* g, p: answer from the cache.
CollectRegisters ==
  /\ Handling("g") \/ Handling("p")
  /\ UNCHANGED <<thread, status, view>>
  /\ \E banks \in FetchOutcomes :
       LET asked == IF own_buf.type = "g" THEN Regs ELSE {own_buf.reg}
       IN  Answers(banks, [r \in asked |-> Cached(banks)[r]])

\* G: fills the cache first, so that a short packet changes only a prefix, and
\* converts straight into it, so that one with a bad digit does the same before
\* error() leaves the handler.
RegistersFromString ==
  /\ Handling("G")
  /\ UNCHANGED <<thread, status>>
  /\ \E banks \in FetchOutcomes :
       /\ GetRegcache(banks)
       /\ registers' = Override(Cached(banks), own_buf.regs)
       /\ IF own_buf.hex
          THEN /\ view' = Override(view, own_buf.regs)
               /\ doubtful' = DoubtfulAfterFetch(banks) \ DOMAIN own_buf.regs
          ELSE /\ UNCHANGED view
               /\ doubtful' = DoubtfulAfterFetch(banks) \cup DOMAIN own_buf.regs
  /\ told' = ToldLess(DOMAIN own_buf.regs)
  /\ IF own_buf.hex THEN Reply([type |-> "OK"]) ELSE Error

\* P: changes the cache as it is, valid or not.  The digits are converted
\* before that, and a bad one changes nothing.
SupplyRegister ==
  /\ Handling("P")
  /\ UNCHANGED <<thread, status, registers_valid>>
  /\ IF own_buf.hex
     THEN /\ registers' = Override(registers, own_buf.regs)
          /\ view' = Override(view, own_buf.regs)
          /\ doubtful' = doubtful \ DOMAIN own_buf.regs
          /\ told' = ToldLess(DOMAIN own_buf.regs)
          /\ Reply([type |-> "OK"])
     ELSE Error /\ UNCHANGED <<registers, history>>

\* prepare_resume_reply: a stop carries the expedited registers.
PrepareResumeReply ==
  IF status' = "T"
  THEN \E banks \in FetchOutcomes : Answers(banks, [r \in Expedite |-> Cached(banks)[r]])
  ELSE /\ UNCHANGED <<registers, registers_valid, doubtful, told>>
       /\ Reply([type |-> "exit"])

\* ?
HandleQuestion == /\ Handling("?")
                  /\ UNCHANGED <<thread, status, view>>
                  /\ PrepareResumeReply

\* store_inferior_registers, and the flag regcache_invalidate_one clears.
Stored(banks) == [r \in Regs |-> IF Bank(r) \in banks THEN registers[r] ELSE thread[r]]
RegcacheInvalidate == registers_valid' = FALSE

\* c, s, C, S, vCont: darwin_resume writes a valid cache back, invalidates it
\* and lets the inferior go.  darwin_ppc_store_registers gives up when it
\* cannot read a bank and goes on when it cannot write one; together the
\* refusals leave any of the banks unwritten.
Resume ==
  /\ Handling("resume")
  /\ status = "T"
  /\ IF registers_valid
     THEN \E banks \in SUBSET Banks :
            /\ thread' = Stored(banks)
            /\ doubtful' = doubtful \cup Unmoved(banks)
     ELSE UNCHANGED <<thread, doubtful>>
  /\ RegcacheInvalidate
  /\ server' = "waiting" /\ told' = NothingTold
  /\ UNCHANGED <<registers, status, own_buf, view>>

\* The same with no inferior left: there is no thread to write to, and waitpid
\* fails.
ResumeNothing ==
  /\ Handling("resume")
  /\ status # "T"
  /\ doubtful' = IF registers_valid THEN Regs ELSE doubtful
  /\ RegcacheInvalidate
  /\ Error /\ told' = NothingTold
  /\ UNCHANGED <<thread, registers, status, view>>

\* The inferior has run, changing its registers, and has stopped or is gone.
\* (External: the inferior.)
InferiorStops(regs, how) ==
  /\ server = "waiting"
  /\ server' = "stopped"
  /\ thread' = regs
  /\ view' = regs /\ doubtful' = {}
  /\ status' = how
  /\ UNCHANGED <<registers, registers_valid, own_buf, told>>

\* waitpid returns, and the stop or exit is the reply.
DarwinWait == /\ server = "stopped"
              /\ UNCHANGED <<thread, status, view>>
              /\ PrepareResumeReply

\* D: lets the inferior go without writing the cache back.
Detach == /\ Handling("D")
          /\ server' = "detached"
          /\ own_buf' = [type |-> "OK"]
          /\ UNCHANGED <<thread, registers, registers_valid, status, history>>

Kill == /\ Handling("k")
        /\ server' = "exited"
        /\ own_buf' = [type |-> "none"]
        /\ UNCHANGED <<thread, registers, registers_valid, status, history>>

StubNext ==
  \/ CollectRegisters \/ RegistersFromString \/ SupplyRegister \/ HandleQuestion
  \/ Resume \/ ResumeNothing \/ DarwinWait \/ Detach \/ Kill
  \/ \E regs \in [Regs -> Val], how \in {"T", "W"} : InferiorStops(regs, how)

\* A debugger that, as GDB does, asks for the halt reason (or for registers)
\* before it writes a single register.  The code does not ask for it: a P
\* before anything has filled the cache is answered OK and then lost in the
\* first fetch, supply_register taking the cache as it is.
AskedFirst(packet) == packet.type = "P" => registers_valid

Next == StubNext \/ \E packet \in Packets : AskedFirst(packet) /\ Receive(packet)
Spec == Init /\ [][Next]_vars

-----------------------------------------------------------------------------
TypeOK ==
  /\ thread \in [Regs -> Val] /\ registers \in [Regs -> Val] /\ view \in [Regs -> Val]
  /\ registers_valid \in BOOLEAN
  /\ status \in {"T", "W"}
  /\ server \in {"reading", "handling", "waiting", "stopped", "exited", "detached"}
  /\ server = "handling" => own_buf \in Packets
  /\ doubtful \subseteq Regs
  /\ DOMAIN told \subseteq Regs /\ told \in [DOMAIN told -> Val]

\* Two register files agree on every register not in doubt.
Agree(f, g) == \A r \in Regs \ doubtful : f[r] = g[r]

\* While the debugger talks to a stopped inferior, what it must take the
\* registers to be is in the cache if the cache is valid, and in the thread if
\* it is not.  Reads, whole, short and broken off G packets, a refused bank and
\* the fetch they trigger never mix the two up, and put in doubt no register
\* but those the refused call or the unanswered packet named
\* (get_regcache, registers_from_string).
Coherent ==
  server \in {"reading", "handling"} =>
    IF registers_valid THEN Agree(registers, view) ELSE Agree(thread, view)

\* A register reported is the one of the last stop, or of the last write that
\* was acknowledged, unless it is in doubt: of a register the kernel refused to
\* read the code reports what happens to be in the cache (regcache.c:57-61).
RepliesTruthful ==
  server = "reading" /\ own_buf.type = "regs" =>
    \A r \in DOMAIN own_buf.regs \ doubtful : own_buf.regs[r] = view[r]

\* What the debugger is told while the inferior is stopped is one snapshot: a
\* register that no write has reached since is not reported with two values,
\* even when the kernel refused it the first time and would not the second
\* (get_regcache marks the cache valid all the same).
OneSnapshot ==
  [][own_buf'.type = "regs" /\ own_buf' # own_buf =>
       \A r \in DOMAIN own_buf'.regs \cap DOMAIN told : own_buf'.regs[r] = told[r]]_vars

\* An inferior is resumed with its registers as of the stop and the writes the
\* stub acknowledged since, apart from the registers in doubt: those the kernel
\* refused to move, and those of a G that error() left unanswered
\* (darwin_resume, store_inferior_registers).
ResumesWithView ==
  [][server = "handling" /\ server' = "waiting" =>
       \A r \in Regs \ doubtful' : thread'[r] = view[r]]_vars

=============================================================================
