--------------------------- MODULE RegCacheProofs ---------------------------
(***************************************************************************)
(* That the register cache keeps what the debugger knows, for any register *)
(* file, any values and any order of packets, of a debugger that asks      *)
(* before it writes a single register.                                     *)
(***************************************************************************)
EXTENDS RegCache, TLAPS

\* What the run's properties rest on: a running inferior, or one that has just
\* stopped, has no valid cache; the thread that has just stopped is what the
\* debugger will be told; a P in flight finds a valid cache; and what the
\* debugger has been told is still in the cache.
InvalidWhileRunning == server \in {"waiting", "stopped"} => ~ registers_valid
StopIsView == server = "stopped" => thread = view
WritesFindCache == server = "handling" /\ own_buf.type = "P" => registers_valid
ToldIsCached == \A r \in DOMAIN told : registers_valid /\ told[r] = registers[r]

Inv == /\ TypeOK /\ Coherent /\ RepliesTruthful
       /\ InvalidWhileRunning /\ StopIsView /\ WritesFindCache /\ ToldIsCached

-----------------------------------------------------------------------------
\* A register is moved by one of the two calls (Bank, darwin-ppc-low.c's
\* two flavours of thread state).
LEMMA BankType == \A r \in Regs : Bank(r) \in Banks
BY DEF Bank, Banks

\* The first n registers of a G packet are registers.
LEMMA PrefixType == ASSUME NEW n \in 0 .. Len(Order) PROVE Prefix(n) \subseteq Regs
<1>1. Order \in Seq(Regs) BY RegAssumption
<1>2. \A i \in 1 .. n : Order[i] \in Regs BY <1>1
<1>. QED BY <1>2 DEF Prefix

\* The packets, one kind at a time (handle_g, G, p and P packets).
LEMMA PacketCases ==
  ASSUME NEW packet \in Packets
  PROVE  \/ packet.type \in {"g", "?", "resume", "D", "k"}
         \/ /\ packet.type = "G" /\ packet.hex \in BOOLEAN
            /\ \E n \in 0 .. Len(Order) : packet.regs \in [Prefix(n) -> Val]
         \/ packet.type = "p" /\ packet.reg \in Regs
         \/ /\ packet.type = "P" /\ packet.hex \in BOOLEAN
            /\ \E r \in Regs : packet.regs \in [{r} -> Val]
<1>1. \/ packet \in [type : {"g", "?", "resume", "D", "k"}]
      \/ \E n \in 0 .. Len(Order) : packet \in [type : {"G"}, hex : BOOLEAN, regs : [Prefix(n) -> Val]]
      \/ packet \in [type : {"p"}, reg : Regs]
      \/ \E r \in Regs : packet \in [type : {"P"}, hex : BOOLEAN, regs : [{r} -> Val]]
  BY Zenon DEF Packets
<1>2. CASE packet \in [type : {"g", "?", "resume", "D", "k"}] BY <1>2
<1>3. CASE \E n \in 0 .. Len(Order) : packet \in [type : {"G"}, hex : BOOLEAN, regs : [Prefix(n) -> Val]]
  BY <1>3
<1>4. CASE packet \in [type : {"p"}, reg : Regs] BY <1>4
<1>5. CASE \E r \in Regs : packet \in [type : {"P"}, hex : BOOLEAN, regs : [{r} -> Val]] BY <1>5
<1>. QED BY <1>1, <1>2, <1>3, <1>4, <1>5

\* A packet that writes registers carries values of registers.
LEMMA WritePackets ==
  ASSUME NEW packet \in Packets, packet.type \in {"G", "P"}
  PROVE  \E S \in SUBSET Regs : packet.regs \in [S -> Val]
<1>1. CASE packet.type = "G"
  <2>1. PICK n \in 0 .. Len(Order) : packet.regs \in [Prefix(n) -> Val]
    BY <1>1, PacketCases
  <2>. QED BY <2>1, PrefixType
<1>2. CASE packet.type = "P"
  <2>1. PICK r \in Regs : packet.regs \in [{r} -> Val] BY <1>2, PacketCases
  <2>. QED BY <2>1
<1>. QED BY <1>1, <1>2

\* A packet that asks for one register names one.
LEMMA ReadPackets == ASSUME NEW packet \in Packets, packet.type = "p" PROVE packet.reg \in Regs
BY PacketCases

\* Writing some registers keeps the others (registers_from_string,
\* supply_register).
LEMMA OverrideType ==
  ASSUME NEW f \in [Regs -> Val], NEW S \in SUBSET Regs, NEW g \in [S -> Val]
  PROVE  /\ Override(f, g) \in [Regs -> Val]
         /\ DOMAIN g = S
         /\ \A r \in Regs : Override(f, g)[r] = IF r \in S THEN g[r] ELSE f[r]
BY DEF Override

\* Writing the same registers to two files leaves them agreeing where they did,
\* and on what was written.
LEMMA OverrideAgrees ==
  ASSUME NEW f \in [Regs -> Val], NEW h \in [Regs -> Val],
         NEW S \in SUBSET Regs, NEW g \in [S -> Val], NEW away,
         \A r \in Regs \ away : f[r] = h[r]
  PROVE  \A r \in Regs \ (away \ S) : Override(f, g)[r] = Override(h, g)[r]
<1>1. \A r \in Regs : Override(f, g)[r] = IF r \in S THEN g[r] ELSE f[r] BY OverrideType
<1>2. \A r \in Regs : Override(h, g)[r] = IF r \in S THEN g[r] ELSE h[r] BY OverrideType
<1>. QED BY <1>1, <1>2

-----------------------------------------------------------------------------
\* What every reader of the cache finds: get_regcache(inf, 1) makes it valid,
\* leaves in it what the debugger must see of the registers not in doubt, and
\* changes nothing the debugger has been told.
LEMMA GetRegcacheCoherent ==
  ASSUME TypeOK, ToldIsCached, UNCHANGED <<thread, status>>,
         NEW banks \in FetchOutcomes,
         IF registers_valid THEN Agree(registers, view) ELSE Agree(thread, view)
  PROVE  /\ Cached(banks) \in [Regs -> Val]
         /\ DoubtfulAfterFetch(banks) \subseteq Regs
         /\ \A r \in Regs \ DoubtfulAfterFetch(banks) : Cached(banks)[r] = view[r]
         /\ \A r \in DOMAIN told : told[r] = Cached(banks)[r]
<1>1. CASE registers_valid
  BY <1>1 DEF TypeOK, ToldIsCached, Cached, DoubtfulAfterFetch, Agree
<1>2. CASE ~ registers_valid
  <2>1. Cached(banks) = [r \in Regs |-> IF Bank(r) \in banks THEN thread[r] ELSE registers[r]]
    BY <1>2 DEF Cached, Loaded
  <2>2. DoubtfulAfterFetch(banks) = doubtful \cup {r \in Regs : Bank(r) \notin banks}
    BY <1>2 DEF DoubtfulAfterFetch, Unmoved
  <2>3. \A r \in Regs \ DoubtfulAfterFetch(banks) : Bank(r) \in banks /\ r \notin doubtful
    BY <2>2
  <2>. QED BY <1>2, <2>1, <2>2, <2>3 DEF TypeOK, ToldIsCached, Agree
<1>. QED BY <1>1, <1>2

\* A reply of registers from the cache, by any handler: it keeps the invariant,
\* and says again what has been said.
LEMMA AnswersInv ==
  ASSUME TypeOK, ToldIsCached, UNCHANGED <<thread, status, view>>,
         NEW banks \in FetchOutcomes, NEW asked \in SUBSET Regs,
         Answers(banks, [r \in asked |-> Cached(banks)[r]]),
         IF registers_valid THEN Agree(registers, view) ELSE Agree(thread, view)
  PROVE  /\ Inv'
         /\ own_buf'.type = "regs" /\ server' \in {"reading", "exited"}
         /\ \A r \in DOMAIN own_buf'.regs \cap DOMAIN told : own_buf'.regs[r] = told[r]
<1>. DEFINE regs == [r \in asked |-> Cached(banks)[r]]
<1>1. /\ registers_valid' = TRUE /\ registers' = Cached(banks)
      /\ doubtful' = DoubtfulAfterFetch(banks)
      /\ told' = ToldMore(regs)
      /\ own_buf' = [type |-> "regs", regs |-> regs]
      /\ server' \in {"reading", "exited"}
  BY DEF Answers, GetRegcache, Reply
<1>2. /\ Cached(banks) \in [Regs -> Val] /\ DoubtfulAfterFetch(banks) \subseteq Regs
      /\ \A r \in Regs \ DoubtfulAfterFetch(banks) : Cached(banks)[r] = view[r]
      /\ \A r \in DOMAIN told : told[r] = Cached(banks)[r]
  BY GetRegcacheCoherent
<1>3. /\ DOMAIN told' = asked \cup DOMAIN told
      /\ \A r \in asked \cup DOMAIN told : told'[r] = IF r \in asked THEN regs[r] ELSE told[r]
      /\ told' \in [DOMAIN told' -> Val]
  <2>1. told' = [r \in asked \cup DOMAIN told |-> IF r \in asked THEN regs[r] ELSE told[r]]
    BY <1>1 DEF ToldMore
  <2>2. \A r \in asked \cup DOMAIN told : (IF r \in asked THEN regs[r] ELSE told[r]) \in Val
    BY <1>2 DEF TypeOK
  <2>. QED BY <2>1, <2>2
<1>4. TypeOK' BY <1>1, <1>2, <1>3 DEF TypeOK
<1>5. Coherent' BY <1>1, <1>2 DEF Coherent, Agree
<1>6. RepliesTruthful' BY <1>1, <1>2 DEF RepliesTruthful
<1>7. ToldIsCached' BY <1>1, <1>2, <1>3 DEF ToldIsCached
<1>8. \A r \in DOMAIN own_buf'.regs \cap DOMAIN told : own_buf'.regs[r] = told[r]
  BY <1>1, <1>2
<1>. QED BY <1>1, <1>4, <1>5, <1>6, <1>7, <1>8
         DEF Inv, InvalidWhileRunning, StopIsView, WritesFindCache

\* The stop or exit reply (prepare_resume_reply), given after a stop and for ?.
LEMMA PrepareResumeReplyInv ==
  ASSUME TypeOK, ToldIsCached, UNCHANGED <<thread, status, view>>, PrepareResumeReply,
         IF registers_valid THEN Agree(registers, view) ELSE Agree(thread, view)
  PROVE  /\ Inv' /\ server' \in {"reading", "exited"}
         /\ own_buf'.type = "regs" =>
              \A r \in DOMAIN own_buf'.regs \cap DOMAIN told : own_buf'.regs[r] = told[r]
<1>1. CASE status = "T"
  <2>1. Expedite \subseteq Regs BY RegAssumption DEF Regs
  <2>2. PICK banks \in FetchOutcomes : Answers(banks, [r \in Expedite |-> Cached(banks)[r]])
    BY <1>1 DEF PrepareResumeReply
  <2>. QED BY <2>1, <2>2, AnswersInv
<1>2. CASE status # "T"
  <2>1. /\ UNCHANGED <<registers, registers_valid, doubtful, told>>
        /\ server' = "exited" /\ own_buf' = [type |-> "exit"]
    BY <1>2 DEF PrepareResumeReply, Reply
  <2>. QED BY <2>1 DEF Inv, TypeOK, Coherent, RepliesTruthful, InvalidWhileRunning,
                       StopIsView, WritesFindCache, ToldIsCached
<1>. QED BY <1>1, <1>2

-----------------------------------------------------------------------------
\* One lemma per handler.
LEMMA ReceiveInv ==
  ASSUME Inv, NEW packet \in Packets, AskedFirst(packet), Receive(packet) PROVE Inv'
BY DEF Inv, AskedFirst, Receive, history, TypeOK, Coherent, Agree, RepliesTruthful,
       InvalidWhileRunning, StopIsView, WritesFindCache, ToldIsCached

LEMMA CollectRegistersInv ==
  ASSUME Inv, CollectRegisters
  PROVE  /\ Inv'
         /\ \A r \in DOMAIN own_buf'.regs \cap DOMAIN told : own_buf'.regs[r] = told[r]
<1>. DEFINE asked == IF own_buf.type = "g" THEN Regs ELSE {own_buf.reg}
<1>1. /\ server = "handling" /\ own_buf \in Packets /\ own_buf.type \in {"g", "p"}
      /\ UNCHANGED <<thread, status, view>>
  BY DEF Inv, TypeOK, CollectRegisters, Handling
<1>2. asked \subseteq Regs BY <1>1, ReadPackets
<1>3. PICK banks \in FetchOutcomes : Answers(banks, [r \in asked |-> Cached(banks)[r]])
  BY DEF CollectRegisters
<1>4. IF registers_valid THEN Agree(registers, view) ELSE Agree(thread, view)
  BY <1>1 DEF Inv, Coherent
<1>. QED BY <1>1, <1>2, <1>3, <1>4, AnswersInv DEF Inv

\* What a write leaves of what the debugger has been told is in the cache yet.
LEMMA ToldAfterWrite ==
  ASSUME NEW f \in [Regs -> Val], NEW S \in SUBSET Regs, NEW g \in [S -> Val],
         DOMAIN told \subseteq Regs, told \in [DOMAIN told -> Val],
         \A r \in DOMAIN told : told[r] = f[r],
         told' = ToldLess(S), registers' = Override(f, g), registers_valid'
  PROVE  /\ ToldIsCached'
         /\ DOMAIN told' \subseteq Regs /\ told' \in [DOMAIN told' -> Val]
<1>1. told' = [r \in DOMAIN told \ S |-> told[r]] BY DEF ToldLess
<1>2. \A r \in Regs : registers'[r] = IF r \in S THEN g[r] ELSE f[r] BY OverrideType
<1>. QED BY <1>1, <1>2 DEF ToldIsCached

LEMMA RegistersFromStringInv == ASSUME Inv, RegistersFromString PROVE Inv'
<1>1. /\ server = "handling" /\ own_buf \in Packets /\ own_buf.type = "G"
      /\ UNCHANGED <<thread, status>>
      /\ told' = ToldLess(DOMAIN own_buf.regs)
  BY DEF Inv, TypeOK, RegistersFromString, Handling
<1>2. PICK banks \in FetchOutcomes :
        /\ registers_valid' = TRUE
        /\ registers' = Override(Cached(banks), own_buf.regs)
        /\ IF own_buf.hex
           THEN /\ view' = Override(view, own_buf.regs)
                /\ doubtful' = DoubtfulAfterFetch(banks) \ DOMAIN own_buf.regs
           ELSE /\ UNCHANGED view
                /\ doubtful' = DoubtfulAfterFetch(banks) \cup DOMAIN own_buf.regs
  BY DEF RegistersFromString, GetRegcache
<1>3. PICK S \in SUBSET Regs : own_buf.regs \in [S -> Val] BY <1>1, WritePackets
<1>4. DOMAIN own_buf.regs = S BY <1>3
<1>5. server' \in {"reading", "exited"} /\ own_buf'.type \in {"OK", "none"}
  BY <1>1 DEF RegistersFromString, Reply, Error
<1>6. /\ Cached(banks) \in [Regs -> Val] /\ DoubtfulAfterFetch(banks) \subseteq Regs
      /\ \A r \in Regs \ DoubtfulAfterFetch(banks) : Cached(banks)[r] = view[r]
      /\ \A r \in DOMAIN told : told[r] = Cached(banks)[r]
  <2>1. IF registers_valid THEN Agree(registers, view) ELSE Agree(thread, view)
    BY <1>1 DEF Inv, Coherent
  <2>. QED BY <1>1, <2>1, GetRegcacheCoherent DEF Inv
<1>7. /\ view \in [Regs -> Val] /\ thread \in [Regs -> Val] /\ status \in {"T", "W"}
      /\ DOMAIN told \subseteq Regs /\ told \in [DOMAIN told -> Val]
  BY DEF Inv, TypeOK
<1>. DEFINE new == own_buf.regs
<1>8. new \in [S -> Val] BY <1>3
<1>9. Override(Cached(banks), new) \in [Regs -> Val] /\ Override(view, new) \in [Regs -> Val]
  <2>. HIDE DEF new
  <2>. QED BY <1>6, <1>7, <1>8, OverrideType
<1>10. ToldIsCached' /\ DOMAIN told' \subseteq Regs /\ told' \in [DOMAIN told' -> Val]
  <2>1. told' = ToldLess(S) /\ registers' = Override(Cached(banks), new) BY <1>1, <1>2, <1>4
  <2>. HIDE DEF new
  <2>. QED BY <1>2, <1>6, <1>7, <1>8, <2>1, ToldAfterWrite
<1>11. doubtful' \subseteq Regs /\ \A r \in Regs \ doubtful' : registers'[r] = view'[r]
  <2>1. CASE own_buf.hex
    <3>1. /\ view' = Override(view, new) /\ registers' = Override(Cached(banks), new)
          /\ doubtful' = DoubtfulAfterFetch(banks) \ S
      BY <1>2, <1>4, <2>1
    <3>. HIDE DEF new
    <3>. QED BY <1>6, <1>7, <1>8, <3>1, OverrideAgrees
  <2>2. CASE ~ own_buf.hex
    <3>1. /\ view' = view /\ registers' = Override(Cached(banks), new)
          /\ doubtful' = DoubtfulAfterFetch(banks) \cup S
      BY <1>2, <1>4, <2>2
    <3>2. \A r \in Regs \ (DoubtfulAfterFetch(banks) \cup S) :
            Override(Cached(banks), new)[r] = view[r]
      <4>. HIDE DEF new
      <4>1. \A r \in Regs : Override(Cached(banks), new)[r] = IF r \in S THEN new[r] ELSE Cached(banks)[r]
        BY <1>6, <1>8, OverrideType
      <4>. QED BY <1>6, <4>1
    <3>. QED BY <1>6, <3>1, <3>2
  <2>. QED BY <2>1, <2>2
<1>12. TypeOK'
  <2>1. registers' \in [Regs -> Val] /\ view' \in [Regs -> Val] BY <1>2, <1>7, <1>9
  <2>. QED BY <1>1, <1>2, <1>5, <1>7, <1>10, <1>11, <2>1 DEF TypeOK
<1>13. Coherent' BY <1>2, <1>11 DEF Coherent, Agree
<1>. QED BY <1>5, <1>10, <1>12, <1>13
         DEF Inv, RepliesTruthful, InvalidWhileRunning, StopIsView, WritesFindCache

LEMMA SupplyRegisterInv == ASSUME Inv, SupplyRegister PROVE Inv'
<1>1. /\ server = "handling" /\ own_buf \in Packets /\ own_buf.type = "P" /\ registers_valid
      /\ UNCHANGED <<thread, status, registers_valid>>
  BY DEF Inv, TypeOK, SupplyRegister, Handling, WritesFindCache
<1>2. server' \in {"reading", "exited"} /\ own_buf'.type \in {"OK", "none"}
  BY DEF SupplyRegister, Reply, Error
<1>3. TypeOK BY DEF Inv
<1>4. /\ \A r \in Regs \ doubtful : registers[r] = view[r]
      /\ \A r \in DOMAIN told : told[r] = registers[r]
  BY <1>1 DEF Inv, Coherent, Agree, ToldIsCached
<1>5. CASE own_buf.hex
  <2>. DEFINE new == own_buf.regs
  <2>1. PICK S \in SUBSET Regs : own_buf.regs \in [S -> Val] BY <1>1, WritePackets
  <2>2. new \in [S -> Val] /\ DOMAIN new = S BY <2>1
  <2>3. /\ registers' = Override(registers, new) /\ view' = Override(view, new)
        /\ doubtful' = doubtful \ S /\ told' = ToldLess(S)
    BY <1>5, <2>2 DEF SupplyRegister
  <2>. HIDE DEF new
  <2>4. view \in [Regs -> Val] /\ registers \in [Regs -> Val] BY <1>3 DEF TypeOK
  <2>5. registers' \in [Regs -> Val] /\ view' \in [Regs -> Val]
    BY <2>2, <2>3, <2>4, OverrideType
  <2>6. ToldIsCached' /\ DOMAIN told' \subseteq Regs /\ told' \in [DOMAIN told' -> Val]
    <3>1. DOMAIN told \subseteq Regs /\ told \in [DOMAIN told -> Val] BY <1>3 DEF TypeOK
    <3>. QED BY <1>1, <1>4, <2>2, <2>3, <2>4, <3>1, ToldAfterWrite
  <2>7. \A r \in Regs \ doubtful' : registers'[r] = view'[r]
    BY <1>4, <2>2, <2>3, <2>4, OverrideAgrees
  <2>8. TypeOK' BY <1>1, <1>2, <1>3, <2>3, <2>5, <2>6 DEF TypeOK
  <2>9. Coherent' BY <1>1, <2>7 DEF Coherent, Agree
  <2>. QED BY <1>2, <2>6, <2>8, <2>9
           DEF Inv, RepliesTruthful, InvalidWhileRunning, StopIsView, WritesFindCache
<1>6. CASE ~ own_buf.hex
  <2>1. UNCHANGED <<registers, view, doubtful, told>> BY <1>6 DEF SupplyRegister, history
  <2>. QED BY <1>1, <1>2, <1>3, <1>4, <2>1
           DEF Inv, TypeOK, Coherent, Agree, RepliesTruthful, InvalidWhileRunning, StopIsView,
               WritesFindCache, ToldIsCached
<1>. QED BY <1>5, <1>6

LEMMA HandleQuestionInv ==
  ASSUME Inv, HandleQuestion
  PROVE  /\ Inv' /\ server' \in {"reading", "exited"}
         /\ own_buf'.type = "regs" =>
              \A r \in DOMAIN own_buf'.regs \cap DOMAIN told : own_buf'.regs[r] = told[r]
BY PrepareResumeReplyInv DEF Inv, HandleQuestion, Handling, Coherent

\* What is written back is a register file, and the debugger's, of the registers
\* not in doubt (darwin_ppc_store_registers).
LEMMA ResumeStores ==
  ASSUME Inv, Resume
  PROVE  /\ thread' \in [Regs -> Val] /\ doubtful' \subseteq Regs
         /\ \A r \in Regs \ doubtful' : thread'[r] = view[r]
<1>1. server = "handling" BY DEF Resume, Handling
<1>2. CASE registers_valid
  <2>1. PICK banks \in SUBSET Banks : thread' = Stored(banks) /\ doubtful' = doubtful \cup Unmoved(banks)
    BY <1>2 DEF Resume
  <2>2. thread' \in [Regs -> Val] BY <2>1 DEF Stored, Inv, TypeOK
  <2>3. \A r \in Regs \ doubtful' : Bank(r) \in banks /\ r \notin doubtful
    BY <2>1 DEF Unmoved
  <2>4. \A r \in Regs \ doubtful : registers[r] = view[r]
    BY <1>1, <1>2 DEF Inv, Coherent, Agree
  <2>. QED BY <2>1, <2>2, <2>3, <2>4 DEF Stored, Unmoved, Inv, TypeOK
<1>3. CASE ~ registers_valid
  BY <1>1, <1>3 DEF Resume, Inv, TypeOK, Coherent, Agree
<1>. QED BY <1>2, <1>3

\* Nothing told is a function to values (the history's empty record).
LEMMA NothingToldType == DOMAIN NothingTold = {} /\ NothingTold \in [DOMAIN NothingTold -> Val]
BY DEF NothingTold

LEMMA ResumeInv == ASSUME Inv, Resume PROVE Inv'
<1>1. thread' \in [Regs -> Val] /\ doubtful' \subseteq Regs BY ResumeStores
<1>2. /\ server' = "waiting" /\ registers_valid' = FALSE
      /\ UNCHANGED <<registers, status, own_buf, view>>
      /\ told' = NothingTold
  BY DEF Resume, RegcacheInvalidate
<1>3. DOMAIN told' = {} /\ told' \in [DOMAIN told' -> Val] BY <1>2, NothingToldType
<1>. QED BY <1>1, <1>2, <1>3
         DEF Inv, TypeOK, Coherent, RepliesTruthful, InvalidWhileRunning, StopIsView,
             WritesFindCache, ToldIsCached

LEMMA ResumeNothingInv == ASSUME Inv, ResumeNothing PROVE Inv'
<1>1. /\ server = "handling" /\ server' = "reading" /\ own_buf' = [type |-> "none"]
      /\ UNCHANGED <<thread, registers, status, view>>
      /\ registers_valid' = FALSE /\ told' = NothingTold
      /\ doubtful' = IF registers_valid THEN Regs ELSE doubtful
  BY DEF ResumeNothing, RegcacheInvalidate, Error, Handling
<1>2. DOMAIN told' = {} /\ told' \in [DOMAIN told' -> Val] BY <1>1, NothingToldType
<1>. QED BY <1>1, <1>2
         DEF Inv, TypeOK, Coherent, Agree, RepliesTruthful, InvalidWhileRunning, StopIsView,
             WritesFindCache, ToldIsCached

LEMMA InferiorStopsInv ==
  ASSUME Inv, NEW regs \in [Regs -> Val], NEW how \in {"T", "W"}, InferiorStops(regs, how)
  PROVE  Inv'
BY DEF InferiorStops, Inv, TypeOK, Coherent, RepliesTruthful, InvalidWhileRunning,
       StopIsView, WritesFindCache, ToldIsCached

LEMMA DarwinWaitInv ==
  ASSUME Inv, DarwinWait
  PROVE  /\ Inv' /\ server' \in {"reading", "exited"}
         /\ own_buf'.type = "regs" =>
              \A r \in DOMAIN own_buf'.regs \cap DOMAIN told : own_buf'.regs[r] = told[r]
<1>1. thread = view /\ ~ registers_valid
  BY DEF DarwinWait, Inv, StopIsView, InvalidWhileRunning
<1>. QED BY <1>1, PrepareResumeReplyInv DEF DarwinWait, Inv, Agree

LEMMA LeaveInv == ASSUME Inv, Detach \/ Kill PROVE Inv'
BY DEF Detach, Kill, history, Inv, TypeOK, Coherent, RepliesTruthful, InvalidWhileRunning,
       StopIsView, WritesFindCache, ToldIsCached

-----------------------------------------------------------------------------
\* The invariant holds of every behaviour of a debugger that asks first.
THEOREM RegCacheInv == Spec => []Inv
<1>1. Init => Inv
  <2>. SUFFICES ASSUME Init PROVE Inv OBVIOUS
  <2>1. TypeOK BY RegAssumption, NothingToldType DEF Init, TypeOK
  <2>. QED BY <2>1, NothingToldType
           DEF Init, Inv, Coherent, Agree, RepliesTruthful, InvalidWhileRunning, StopIsView,
               WritesFindCache, ToldIsCached
<1>2. Inv /\ [Next]_vars => Inv'
  <2>. SUFFICES ASSUME Inv, [Next]_vars PROVE Inv' OBVIOUS
  <2>1. ASSUME NEW packet \in Packets, AskedFirst(packet), Receive(packet) PROVE Inv'
    BY <2>1, ReceiveInv
  <2>2. CASE StubNext
    <3>1. ASSUME NEW regs \in [Regs -> Val], NEW how \in {"T", "W"}, InferiorStops(regs, how)
          PROVE  Inv'
      BY <3>1, InferiorStopsInv
    <3>. QED BY <2>2, <3>1, CollectRegistersInv, RegistersFromStringInv, SupplyRegisterInv,
                HandleQuestionInv, ResumeInv, ResumeNothingInv, DarwinWaitInv, LeaveInv
             DEF StubNext
  <2>3. CASE UNCHANGED vars
    BY <2>3 DEF vars, Inv, TypeOK, Coherent, Agree, RepliesTruthful, InvalidWhileRunning,
                StopIsView, WritesFindCache, ToldIsCached
  <2>. QED BY <2>1, <2>2, <2>3 DEF Next
<1>. QED BY <1>1, <1>2, PTL DEF Spec

\* Whatever mix of reads, writes, short and broken off G packets and refused
\* kernel calls, the valid one of cache and thread holds what the debugger must
\* see, of the registers neither refused nor reached by an unanswered G.
THEOREM CacheCoherent == Spec => []Coherent
BY RegCacheInv, PTL DEF Inv

\* Every variable keeps to its values, for every set of registers and values.
THEOREM RegCacheType == Spec => []TypeOK
BY RegCacheInv, PTL DEF Inv

\* g, p and stop replies (collect_register, prepare_resume_reply) report no
\* register wrongly that is not in doubt.
THEOREM TruthfulReplies == Spec => []RepliesTruthful
BY RegCacheInv, PTL DEF Inv

\* g, p and stop replies do not contradict one another between two stops
\* (get_regcache fills the cache once).
THEOREM SnapshotIsOne == Spec => OneSnapshot
<1>1. Inv /\ [Next]_vars =>
        [own_buf'.type = "regs" /\ own_buf' # own_buf =>
           \A r \in DOMAIN own_buf'.regs \cap DOMAIN told : own_buf'.regs[r] = told[r]]_vars
  <2>. SUFFICES ASSUME Inv, [Next]_vars, own_buf'.type = "regs", own_buf' # own_buf
                PROVE  \A r \in DOMAIN own_buf'.regs \cap DOMAIN told : own_buf'.regs[r] = told[r]
    OBVIOUS
  <2>1. CASE CollectRegisters \/ HandleQuestion \/ DarwinWait
    BY <2>1, CollectRegistersInv, HandleQuestionInv, DarwinWaitInv
  <2>2. ASSUME NEW packet \in Packets, Receive(packet) PROVE FALSE
    <3>1. own_buf' = packet BY <2>2 DEF Receive
    <3>2. packet.type # "regs" BY PacketCases
    <3>. QED BY <3>1, <3>2
  <2>3. CASE RegistersFromString \/ SupplyRegister \/ Resume \/ ResumeNothing
    BY <2>3 DEF RegistersFromString, SupplyRegister, Resume, ResumeNothing, Reply, Error
  <2>4. CASE Detach \/ Kill BY <2>4 DEF Detach, Kill
  <2>5. ASSUME NEW regs \in [Regs -> Val], NEW how \in {"T", "W"}, InferiorStops(regs, how)
        PROVE  FALSE
    BY <2>5 DEF InferiorStops
  <2>6. CASE UNCHANGED vars BY <2>6 DEF vars
  <2>. QED BY <2>1, <2>2, <2>3, <2>4, <2>5, <2>6 DEF Next, StubNext
<1>. QED BY RegCacheInv, <1>1, PTL DEF Spec, OneSnapshot

\* darwin_resume lets the inferior go with its registers and the debugger's
\* acknowledged writes, of the registers not in doubt.
THEOREM ResumedWithView == Spec => ResumesWithView
<1>1. Inv /\ [Next]_vars =>
        [server = "handling" /\ server' = "waiting" =>
           \A r \in Regs \ doubtful' : thread'[r] = view[r]]_vars
  <2>. SUFFICES ASSUME Inv, [Next]_vars, server = "handling", server' = "waiting"
                PROVE  \A r \in Regs \ doubtful' : thread'[r] = view[r]
    OBVIOUS
  <2>1. CASE Resume BY <2>1, ResumeStores
  <2>2. CASE UNCHANGED vars BY <2>2 DEF vars
  <2>3. CASE CollectRegisters
    BY <2>3 DEF CollectRegisters, Answers, Reply
  <2>4. CASE HandleQuestion \/ DarwinWait
    BY <2>4, HandleQuestionInv, DarwinWaitInv
  <2>5. CASE Next /\ ~ (Resume \/ CollectRegisters \/ HandleQuestion \/ DarwinWait)
    BY <2>5 DEF Next, StubNext, Receive, RegistersFromString, SupplyRegister, Reply, Error,
                ResumeNothing, InferiorStops, Detach, Kill
  <2>. QED BY <2>1, <2>2, <2>3, <2>4, <2>5
<1>. QED BY RegCacheInv, <1>1, PTL DEF Spec, ResumesWithView

=============================================================================
