-------------------------- MODULE ResumePlanProofs --------------------------
(***************************************************************************)
(* That ptrace is given what the packet asks for, and nothing of a packet  *)
(* with an error in it, for any number of threads, signals and actions.    *)
(***************************************************************************)
EXTENDS ResumePlan, SequenceTheorems, WellFoundedInduction, TLAPS

\* What is true of the array while handle_v_cont parses: of the actions before
\* the next one none is wrong, and if they are in GDB's form each has its slot,
\* but for a last one for all threads, which has become the default.
NoErrors(n) == \A i \in 1 .. n : ~ IsError(own_buf.actions[i])

DefaultTaken == next = Len(own_buf.actions) + 1 /\ own_buf.actions[next - 1].thread = None

Parsed ==
  server = "parsing" /\ own_buf.type = "vCont" =>
    /\ next \in 1 .. Len(own_buf.actions) + 1 /\ NoErrors(next - 1)
    /\ default_action.thread = All /\ Len(resume_info) <= next - 1
    /\ GdbForm(own_buf.actions) =>
         /\ \A i \in 1 .. Len(resume_info) : resume_info[i] = SlotOf(own_buf.actions[i])
         /\ Len(resume_info) = (IF DefaultTaken THEN next - 2 ELSE next - 1)
         /\ DefaultTaken => default_action = SlotOf(own_buf.actions[next - 1])

\* And once the array is closed.
Closed ==
  server \in {"resuming", "waiting"} /\ own_buf.type = "vCont" =>
    /\ NoErrors(Len(own_buf.actions))
    /\ Len(resume_info) \in 1 .. Len(own_buf.actions) + 1
    /\ resume_info[Len(resume_info)].thread = All
    /\ GdbForm(own_buf.actions) =>
         /\ Len(resume_info) >= Len(own_buf.actions)
         /\ \A i \in 1 .. Len(own_buf.actions) : resume_info[i] = SlotOf(own_buf.actions[i])

\* What myresume makes of c, s, C and S: its first entry is for the current
\* thread, by its number or as one of all.
Made ==
  server \in {"resuming", "waiting"} /\ own_buf.type # "vCont" =>
    /\ own_buf.type \in {"c", "s", "C", "S"}
    /\ Len(resume_info) >= 1
    /\ resume_info[1].thread \in {current_inferior, All}
    /\ Ptrace(resume_info[1]) = [step |-> Stepping(own_buf.type), sig |-> ParseSignalByte(own_buf.sig)]

Fits == {i \in DOMAIN resume_info : resume_info[i].thread \in {current_inferior, All}}

Received ==
  IF server = "reading"
  THEN own_buf.type = "none" /\ resume_info = <<>> /\ default_action = Nothing /\ next = 1
  ELSE own_buf \in Packets

Ordered == order = IF server = "waiting" THEN <<Ptrace(resume_info[FirstFits(Fits)])>> ELSE <<>>

Inv == TypeOK /\ Received /\ Parsed /\ Closed /\ Made /\ Ordered

-----------------------------------------------------------------------------
Less == {ss \in Nat \X Nat : ss[1] < ss[2]}

\* The search of darwin_resume ends at a first entry that fits.
LEMMA FirstFitsLeast ==
  ASSUME NEW fits \in SUBSET Nat, fits # {}
  PROVE  FirstFits(fits) \in fits /\ \A j \in fits : FirstFits(fits) <= j
<1>1. IsWellFoundedOn(Less, Nat) BY NatLessThanWellFounded DEF OpToRel, Less
<1>2. PICK m \in fits : \A j \in fits : ~ (<<j, m>> \in Less) BY <1>1, WFMin
<1>3. \A j \in fits : j \in Nat /\ m \in Nat OBVIOUS
<1>4. \A j \in fits : j < m => <<j, m>> \in Less BY <1>3 DEF Less
<1>5. \A j \in fits : ~ (j < m) BY <1>2, <1>4
<1>6. \E i \in fits : \A j \in fits : i <= j BY <1>3, <1>5
<1>. QED BY <1>6 DEF FirstFits

\* The packets by kind.
LEMMA PacketCases ==
  ASSUME NEW packet \in Packets
  PROVE  \/ packet.type \in {"c", "s"} /\ packet.sig = 0
         \/ packet.type \in {"C", "S"} /\ packet.sig \in Signals \cup {Bad}
         \/ packet.type \in {"Hg", "Hc", "Hs"} /\ packet.thread \in Ids
         \/ /\ packet.type = "vCont"
            /\ packet.actions \in Seq(Action) /\ Len(packet.actions) \in Nat \ {0}
<1>1. CASE packet \in [type : {"vCont"}, actions : BoundedSeq(Action, MaxActions) \ {<<>>}]
  <2>1. packet.type = "vCont" /\ packet.actions \in BoundedSeq(Action, MaxActions) /\ packet.actions # <<>>
    BY <1>1
  <2>2. PICK n \in 0 .. MaxActions : packet.actions \in [1 .. n -> Action]
    BY <2>1 DEF BoundedSeq, SeqOf
  <2>3. packet.actions \in Seq(Action) BY <2>2, ResumeAssumption, SeqDef
  <2>. QED BY <2>1, <2>3, EmptySeq
<1>2. CASE packet \in [type : {"c", "s"}, sig : {0}] BY <1>2
<1>3. CASE packet \in [type : {"C", "S"}, sig : Signals \cup {Bad}] BY <1>3
<1>4. CASE packet \in [type : {"Hg", "Hc", "Hs"}, thread : Ids] BY <1>4
<1>. QED BY <1>1, <1>2, <1>3, <1>4 DEF Packets

\* set_desired_inferior selects a thread of the list (all_threads is not empty).
LEMMA DesiredType ==
  ASSUME NEW use_general \in BOOLEAN PROVE Desired(use_general) \in ToSet(AllThreads)
<1>1. AllThreads[1] \in ToSet(AllThreads)
  <2>1. 1 \in DOMAIN AllThreads BY ResumeAssumption, EmptySeq
  <2>. QED BY <2>1 DEF ToSet
<1>. QED BY <1>1 DEF Desired, find_inferior_id

LEMMA ParsedSignal ==
  ASSUME NEW sig \in Signals \cup {Bad} PROVE ParseSignalByte(sig) \in Signals
BY ResumeAssumption DEF ParseSignalByte

\* A slot filled from an action the parse accepts.
LEMMA SlotType ==
  ASSUME NEW action \in Action, ~ IsError(action)
  PROVE  SlotOf(action) \in Slot
<1>1. action.sig \in Signals
  BY ResumeAssumption DEF Action, IsError
<1>2. (IF action.thread = None THEN All ELSE action.thread) \in Ids
  BY DEF Action, IsError, Ids
<1>. QED BY <1>1, <1>2 DEF SlotOf, Slot, Stepping

-----------------------------------------------------------------------------
\* Receive (packet_loop's getpkt): nothing of an earlier packet is left.
LEMMA ReceiveInv ==
  ASSUME Inv, NEW packet \in Packets, Receive(packet) PROVE Inv'
<1>1. TypeOK' BY DEF Inv, TypeOK, Receive, threads
<1>2. Received' BY DEF Inv, Received, Receive
<1>3. Ordered' BY DEF Inv, Ordered, Receive
<1>4. Closed' /\ Made' BY DEF Closed, Made, Receive
<1>5. Parsed'
  <2>. SUFFICES ASSUME packet.type = "vCont" PROVE Parsed' BY DEF Receive, Parsed
  <2>1. Len(packet.actions) \in Nat \ {0} BY PacketCases
  <2>2. /\ own_buf' = packet /\ next' = 1 /\ resume_info' = <<>> /\ default_action' = Nothing
    BY DEF Inv, Received, Receive
  <2>3. ~ DefaultTaken' BY <2>1, <2>2 DEF DefaultTaken
  <2>. QED BY <2>1, <2>2, <2>3, EmptySeq DEF Parsed, NoErrors, Nothing
<1>. QED BY <1>1, <1>2, <1>3, <1>4, <1>5 DEF Inv

\* The end of a handler leaves nothing but the selected threads.
LEMMA ReturnInv ==
  ASSUME Return, {general_thread', cont_thread', step_thread'} \subseteq Ids \cup {0},
         current_inferior' \in ToSet(AllThreads)
  PROVE  Inv'
<1>1. TypeOK'
  <2>1. resume_info' \in Seq(Slot) BY EmptySeq DEF Return
  <2>2. default_action' \in Slot BY ResumeAssumption DEF Return, Nothing, Slot, Ids
  <2>. QED BY <2>1, <2>2 DEF Return, TypeOK
<1>. QED BY <1>1 DEF Return, Inv, Received, Parsed, Closed, Made, Ordered

\* H (handle_H_set_thread).
LEMMA SetThreadInv == ASSUME Inv, SetThread PROVE Inv'
<1>1. own_buf \in Packets /\ own_buf.type \in {"Hg", "Hc", "Hs"}
  BY DEF Inv, Received, SetThread, Handling
<1>2. own_buf.thread \in Ids BY <1>1, PacketCases
<1>3. current_inferior' \in ToSet(AllThreads)
  BY DesiredType DEF SetThread, Inv, TypeOK
<1>. QED BY <1>2, <1>3, ReturnInv DEF SetThread, Inv, TypeOK

\* c, s, C and S (myresume).
LEMMA MyResumeInv == ASSUME Inv, MyResume PROVE Inv'
<1>. DEFINE step == Stepping(own_buf.type)
            sig  == ParseSignalByte(own_buf.sig)
            own  == [thread |-> current_inferior', leave_stopped |-> FALSE, step |-> step, sig |-> sig]
            rest == [thread |-> All, leave_stopped |-> cont_thread > 0, step |-> FALSE, sig |-> 0]
<1>1. own_buf \in Packets /\ own_buf.type \in {"c", "s", "C", "S"}
  BY DEF Inv, Received, MyResume, Handling
<1>2. own_buf.sig \in Signals \cup {Bad} BY <1>1, PacketCases, ResumeAssumption
<1>3. sig \in Signals BY <1>2, ParsedSignal
<1>4. current_inferior' \in ToSet(AllThreads) BY DesiredType DEF MyResume
<1>5. own \in Slot /\ rest \in Slot
  BY <1>3, <1>4, ResumeAssumption DEF Slot, Ids, Stepping
<1>6. resume_info' = IF step \/ sig # 0 \/ cont_thread > 0 THEN <<own, rest>> ELSE <<rest>>
  BY DEF MyResume
<1>7. /\ server' = "resuming" /\ own_buf' = own_buf /\ order' = order /\ order = <<>>
      /\ default_action' = default_action /\ next' = next
      /\ <<general_thread, cont_thread, step_thread>>' = <<general_thread, cont_thread, step_thread>>
  BY DEF MyResume, Handling, Inv, Ordered
<1>8. TypeOK'
  <2>1. resume_info' \in Seq(Slot) BY <1>5, <1>6
  <2>. QED BY <1>4, <1>7, <2>1 DEF Inv, TypeOK
<1>9. Made'
  <2>1. CASE step \/ sig # 0 \/ cont_thread > 0
    <3>1. resume_info' = <<own, rest>> BY <1>6, <2>1
    <3>2. Len(resume_info') = 2 /\ resume_info'[1] = own BY <3>1
    <3>. QED BY <1>1, <1>7, <3>2 DEF Made, Ptrace
  <2>2. CASE ~ (step \/ sig # 0 \/ cont_thread > 0)
    <3>1. resume_info' = <<rest>> BY <1>6, <2>2
    <3>2. Len(resume_info') = 1 /\ resume_info'[1] = rest BY <3>1
    <3>3. sig = 0 /\ step = FALSE BY <2>2, <1>3 DEF Stepping
    <3>4. Ptrace(rest) = [step |-> step, sig |-> sig] BY <3>3, Zenon DEF Ptrace
    <3>5. Len(resume_info') >= 1 /\ resume_info'[1].thread \in {current_inferior', All}
      BY <3>2
    <3>6. Ptrace(resume_info'[1]) = [step |-> step, sig |-> sig] BY <3>2, <3>4
    <3>. QED BY <1>1, <1>7, <3>5, <3>6 DEF Made
  <2>. QED BY <2>1, <2>2
<1>10. Parsed' /\ Closed' BY <1>1, <1>7 DEF Parsed, Closed
<1>. QED BY <1>1, <1>7, <1>8, <1>9, <1>10 DEF Inv, Received, Ordered

-----------------------------------------------------------------------------
\* Any step of the parse is about a vCont packet with some actions.
LEMMA ParsingFacts ==
  ASSUME Inv, Parsing
  PROVE  /\ own_buf \in Packets /\ own_buf.type = "vCont" /\ server = "parsing" /\ order = <<>>
         /\ own_buf.actions \in Seq(Action) /\ Len(own_buf.actions) \in Nat \ {0}
         /\ next \in 1 .. Len(own_buf.actions) /\ own_buf.actions[next] \in Action
         /\ NoErrors(next - 1) /\ default_action.thread = All /\ Len(resume_info) <= next - 1
<1>1. own_buf \in Packets /\ own_buf.type = "vCont" /\ server = "parsing" /\ order = <<>>
  BY DEF Parsing, Handling, Inv, Received, Ordered
<1>2. own_buf.actions \in Seq(Action) /\ Len(own_buf.actions) \in Nat \ {0}
  BY <1>1, PacketCases
<1>3. next \in 1 .. Len(own_buf.actions) BY <1>2 DEF Parsing
<1>4. NoErrors(next - 1) /\ default_action.thread = All /\ Len(resume_info) <= next - 1
  BY <1>1 DEF Inv, Parsed
<1>5. own_buf.actions[next] \in Action BY <1>2, <1>3, ElementOfSeq
<1>. QED BY <1>1, <1>2, <1>3, <1>4, <1>5

\* An action accepted is one more without an error.
LEMMA NoErrorsStep ==
  ASSUME NEW n \in Nat, NoErrors(n), ~ IsError(own_buf.actions[n + 1]) PROVE NoErrors(n + 1)
BY DEF NoErrors

\* The action for a thread keeps its slot.
LEMMA VContForThreadInv == ASSUME Inv, VContForThread PROVE Inv'
<1>. DEFINE action == own_buf.actions[next]
<1>1. Parsing BY DEF VContForThread
<1>2. /\ own_buf \in Packets /\ own_buf.type = "vCont" /\ server = "parsing" /\ order = <<>>
      /\ own_buf.actions \in Seq(Action) /\ Len(own_buf.actions) \in Nat \ {0}
      /\ next \in 1 .. Len(own_buf.actions) /\ action \in Action
      /\ NoErrors(next - 1) /\ default_action.thread = All /\ Len(resume_info) <= next - 1
  BY <1>1, ParsingFacts
<1>3. /\ ~ IsError(action) /\ action.thread # None
      /\ resume_info' = Append(resume_info, SlotOf(action)) /\ next' = next + 1
      /\ own_buf' = own_buf /\ server' = server /\ default_action' = default_action
      /\ order' = order /\ threads' = threads
  BY DEF VContForThread
<1>4. resume_info \in Seq(Slot) /\ SlotOf(action) \in Slot BY <1>2, <1>3, SlotType DEF Inv, TypeOK
<1>5. resume_info' \in Seq(Slot) /\ Len(resume_info') = Len(resume_info) + 1
  BY <1>3, <1>4
<1>6. TypeOK' BY <1>3, <1>5 DEF Inv, TypeOK, threads
<1>7. NoErrors(next)
  <2>1. next - 1 \in Nat /\ (next - 1) + 1 = next BY <1>2
  <2>. QED BY <1>2, <1>3, <2>1, NoErrorsStep
<1>8. Parsed'
  <2>1. \A i \in 1 .. next' - 1 : ~ IsError(own_buf'.actions[i]) BY <1>2, <1>3, <1>7 DEF NoErrors
  <2>2. ASSUME GdbForm(own_buf.actions)
        PROVE  /\ \A i \in 1 .. Len(resume_info') : resume_info'[i] = SlotOf(own_buf.actions[i])
               /\ Len(resume_info') = next' - 1 /\ ~ DefaultTaken'
    <3>1. ~ DefaultTaken BY <1>2 DEF DefaultTaken
    <3>2. /\ \A i \in 1 .. Len(resume_info) : resume_info[i] = SlotOf(own_buf.actions[i])
          /\ Len(resume_info) = next - 1
      BY <1>2, <2>2, <3>1 DEF Inv, Parsed
    <3>3. ~ DefaultTaken' BY <1>2, <1>3 DEF DefaultTaken
    <3>4. \A i \in 1 .. Len(resume_info') :
            resume_info'[i] = IF i = next THEN SlotOf(action) ELSE resume_info[i]
      BY <1>2, <1>3, <1>4, <3>2
    <3>. QED BY <1>2, <1>3, <1>5, <3>2, <3>3, <3>4
  <2>. QED BY <1>2, <1>3, <1>5, <2>1, <2>2 DEF Parsed, NoErrors
<1>9. Closed' /\ Made' BY <1>2, <1>3 DEF Closed, Made
<1>. QED BY <1>2, <1>3, <1>6, <1>8, <1>9 DEF Inv, Received, Ordered

\* The action for all threads is the default if it is the last.
LEMMA VContForAllInv == ASSUME Inv, VContForAll PROVE Inv'
<1>. DEFINE action == own_buf.actions[next]
<1>1. Parsing BY DEF VContForAll
<1>2. /\ own_buf \in Packets /\ own_buf.type = "vCont" /\ server = "parsing" /\ order = <<>>
      /\ own_buf.actions \in Seq(Action) /\ Len(own_buf.actions) \in Nat \ {0}
      /\ next \in 1 .. Len(own_buf.actions) /\ action \in Action
      /\ NoErrors(next - 1) /\ default_action.thread = All /\ Len(resume_info) <= next - 1
  BY <1>1, ParsingFacts
<1>3. /\ ~ IsError(action) /\ action.thread = None
      /\ default_action' = IF next = Len(own_buf.actions) THEN SlotOf(action) ELSE default_action
      /\ next' = next + 1
      /\ own_buf' = own_buf /\ server' = server /\ resume_info' = resume_info
      /\ order' = order /\ threads' = threads
  BY DEF VContForAll, DefaultAfter
<1>4. SlotOf(action) \in Slot /\ SlotOf(action).thread = All
  BY <1>2, <1>3, SlotType DEF SlotOf
<1>5. default_action' \in Slot /\ default_action'.thread = All
  BY <1>2, <1>3, <1>4 DEF Inv, TypeOK
<1>6. TypeOK' BY <1>3, <1>5 DEF Inv, TypeOK, threads
<1>7. NoErrors(next)
  <2>1. next - 1 \in Nat /\ (next - 1) + 1 = next BY <1>2
  <2>. QED BY <1>2, <1>3, <2>1, NoErrorsStep
<1>8. Parsed'
  <2>1. \A i \in 1 .. next' - 1 : ~ IsError(own_buf'.actions[i]) BY <1>2, <1>3, <1>7 DEF NoErrors
  <2>2. ASSUME GdbForm(own_buf.actions)
        PROVE  /\ \A i \in 1 .. Len(resume_info') : resume_info'[i] = SlotOf(own_buf.actions[i])
               /\ Len(resume_info') = next' - 2 /\ DefaultTaken'
               /\ default_action' = SlotOf(own_buf.actions[next' - 1])
    <3>1. ~ DefaultTaken BY <1>2 DEF DefaultTaken
    <3>2. /\ \A i \in 1 .. Len(resume_info) : resume_info[i] = SlotOf(own_buf.actions[i])
          /\ Len(resume_info) = next - 1
      BY <1>2, <2>2, <3>1 DEF Inv, Parsed
    <3>3. next \in DOMAIN own_buf.actions BY <1>2
    <3>4. next = Len(own_buf.actions) BY <1>3, <2>2, <3>3 DEF GdbForm
    <3>5. next' - 1 = next /\ next' - 2 = next - 1 BY <1>2, <1>3
    <3>6. DefaultTaken' BY <1>3, <3>4, <3>5 DEF DefaultTaken
    <3>. QED BY <1>3, <3>2, <3>4, <3>5, <3>6
  <2>. QED BY <1>2, <1>3, <1>5, <2>1, <2>2 DEF Parsed, NoErrors
<1>9. Closed' /\ Made' BY <1>2, <1>3 DEF Closed, Made
<1>. QED BY <1>2, <1>3, <1>6, <1>8, <1>9 DEF Inv, Received, Ordered

\* The end of the packet: the default closes the array.
LEMMA VContEndsInv == ASSUME Inv, VContEnds PROVE Inv'
<1>. DEFINE count == Len(own_buf.actions)
<1>1. own_buf \in Packets /\ own_buf.type = "vCont" /\ server = "parsing" /\ order = <<>>
  BY DEF VContEnds, Handling, Inv, Received, Ordered
<1>2. count \in Nat \ {0} BY <1>1, PacketCases
<1>3. /\ next = count + 1 /\ NoErrors(next - 1) /\ default_action.thread = All
      /\ Len(resume_info) <= next - 1
      /\ resume_info \in Seq(Slot) /\ default_action \in Slot
  BY <1>1 DEF VContEnds, Inv, Parsed, TypeOK
<1>4. /\ resume_info' = Append(resume_info, default_action) /\ server' = "resuming"
      /\ own_buf' = own_buf /\ order' = order /\ default_action' = default_action
      /\ general_thread' = general_thread /\ step_thread' = step_thread
      /\ cont_thread' = IF count = 1 /\ resume_info'[1].thread # All
                        THEN resume_info'[1].thread ELSE All
  BY DEF VContEnds
<1>5. /\ resume_info' \in Seq(Slot) /\ Len(resume_info') = Len(resume_info) + 1
      /\ \A i \in 1 .. Len(resume_info') :
           resume_info'[i] = IF i = Len(resume_info) + 1 THEN default_action ELSE resume_info[i]
  BY <1>3, <1>4
<1>6. current_inferior' \in ToSet(AllThreads) BY DesiredType DEF VContEnds
<1>7. TypeOK'
  <2>1. resume_info'[1] \in Slot BY <1>5, ElementOfSeq
  <2>2. cont_thread' \in Ids BY <1>4, <2>1 DEF Slot, Ids
  <2>. QED BY <1>1, <1>3, <1>4, <1>5, <1>6, <2>2 DEF Inv, TypeOK
<1>8. Closed'
  <2>1. count' = count /\ \A i \in 1 .. count : ~ IsError(own_buf'.actions[i])
    BY <1>2, <1>3, <1>4 DEF NoErrors
  <2>2. /\ Len(resume_info') \in 1 .. count + 1
        /\ resume_info'[Len(resume_info')].thread = All
    BY <1>2, <1>3, <1>5
  <2>3. ASSUME GdbForm(own_buf.actions)
        PROVE  /\ Len(resume_info') >= count
               /\ \A i \in 1 .. count : resume_info'[i] = SlotOf(own_buf.actions[i])
    <3>1. /\ \A i \in 1 .. Len(resume_info) : resume_info[i] = SlotOf(own_buf.actions[i])
          /\ Len(resume_info) = (IF DefaultTaken THEN count - 1 ELSE count)
          /\ DefaultTaken => default_action = SlotOf(own_buf.actions[count])
      BY <1>1, <1>2, <1>3, <2>3 DEF Inv, Parsed
    <3>2. CASE DefaultTaken BY <1>2, <1>5, <3>1, <3>2
    <3>3. CASE ~ DefaultTaken BY <1>2, <1>5, <3>1, <3>3
    <3>. QED BY <3>2, <3>3
  <2>. QED BY <1>1, <1>4, <2>1, <2>2, <2>3 DEF Closed, NoErrors
<1>9. Parsed' /\ Made' BY <1>1, <1>4 DEF Parsed, Made
<1>. QED BY <1>1, <1>4, <1>7, <1>8, <1>9 DEF Inv, Received, Ordered

\* An entry fits: the last of a vCont's array, the first of myresume's.
LEMMA SomeEntryFits ==
  ASSUME Inv, server \in {"resuming", "waiting"}
  PROVE  /\ Fits # {} /\ Fits \subseteq Nat
         /\ FirstFits(Fits) \in Fits /\ \A j \in Fits : FirstFits(Fits) <= j
<1>1. resume_info \in Seq(Slot) BY DEF Inv, TypeOK
<1>2. DOMAIN resume_info = 1 .. Len(resume_info) /\ Len(resume_info) \in Nat
  BY <1>1, LenProperties
<1>3. Fits # {}
  <2>1. CASE own_buf.type = "vCont"
    <3>1. Len(resume_info) \in DOMAIN resume_info /\ resume_info[Len(resume_info)].thread = All
      BY <1>2, <2>1 DEF Inv, Closed
    <3>. QED BY <3>1 DEF Fits
  <2>2. CASE own_buf.type # "vCont"
    <3>1. 1 \in DOMAIN resume_info /\ resume_info[1].thread \in {current_inferior, All}
      BY <1>2, <2>2 DEF Inv, Made
    <3>. QED BY <3>1 DEF Fits
  <2>. QED BY <2>1, <2>2
<1>4. Fits \subseteq Nat BY <1>2 DEF Fits
<1>. QED BY <1>3, <1>4, FirstFitsLeast

\* The ptrace request (darwin_resume).
LEMMA DarwinResumeInv == ASSUME Inv, DarwinResume PROVE Inv'
<1>1. /\ server = "resuming" /\ server' = "waiting" /\ threads' = threads /\ own_buf' = own_buf
      /\ resume_info' = resume_info /\ default_action' = default_action /\ next' = next
      /\ order' = <<Ptrace(resume_info[FirstFits(Fits)])>>
  BY DEF DarwinResume, Fits
<1>2. FirstFits(Fits) \in DOMAIN resume_info BY <1>1, SomeEntryFits DEF Fits
<1>3. resume_info[FirstFits(Fits)] \in Slot BY <1>2, ElementOfSeq, LenProperties DEF Inv, TypeOK
<1>4. Ptrace(resume_info[FirstFits(Fits)]) \in [step : BOOLEAN, sig : Signals]
  BY <1>3 DEF Slot, Ptrace
<1>5. TypeOK' BY <1>1, <1>4 DEF Inv, TypeOK, threads
<1>6. Ordered' BY <1>1 DEF Ordered, Fits, threads
<1>7. Parsed' BY <1>1 DEF Parsed
<1>8. Closed' BY <1>1 DEF Inv, Closed, NoErrors, threads
<1>9. Made' BY <1>1 DEF Inv, Made, threads
<1>. QED BY <1>1, <1>5, <1>6, <1>7, <1>8, <1>9 DEF Inv, Received

\* The stop (mywait, prepare_resume_reply) and the packet given up (err).
LEMMA StoppedInv == ASSUME Inv, Stopped PROVE Inv'
<1>1. general_thread' \in Ids BY DEF Stopped, Inv, TypeOK, Ids
<1>. QED BY <1>1, ReturnInv DEF Stopped, Inv, TypeOK

LEMMA VContErrorInv == ASSUME Inv, VContError PROVE Inv'
BY ReturnInv DEF VContError, threads, Inv, TypeOK

LEMMA StutterInv == ASSUME Inv, UNCHANGED vars PROVE Inv'
<1>1. TypeOK' BY DEF Inv, TypeOK, vars
<1>2. Received' BY DEF Inv, Received, vars
<1>3. Parsed' BY DEF Inv, Parsed, NoErrors, DefaultTaken, vars
<1>4. Closed' BY DEF Inv, Closed, NoErrors, vars
<1>5. Made' BY DEF Inv, Made, vars
<1>6. Ordered' BY DEF Inv, Ordered, Fits, vars
<1>. QED BY <1>1, <1>2, <1>3, <1>4, <1>5, <1>6 DEF Inv

\* The invariant of the resume requests, for any number of threads and actions.
THEOREM ResumeInv == Spec => []Inv
<1>1. Init => Inv
  <2>. SUFFICES ASSUME Init PROVE Inv OBVIOUS
  <2>1. AllThreads[1] \in ToSet(AllThreads)
    <3>1. 1 \in DOMAIN AllThreads BY ResumeAssumption, EmptySeq
    <3>. QED BY <3>1 DEF ToSet
  <2>2. Nothing \in Slot BY ResumeAssumption DEF Nothing, Slot, Ids
  <2>3. TypeOK BY <2>1, <2>2, EmptySeq DEF Init, TypeOK
  <2>. QED BY <2>3 DEF Init, Inv, Received, Parsed, Closed, Made, Ordered
<1>2. Inv /\ [Next]_vars => Inv'
  BY ReceiveInv, SetThreadInv, MyResumeInv, VContErrorInv, VContForThreadInv, VContForAllInv,
     VContEndsInv, DarwinResumeInv, StoppedInv, StutterInv DEF Next
<1>. QED BY <1>1, <1>2, PTL DEF Spec

\* Types of the selections, the array and the request.
THEOREM ResumeType == Spec => []TypeOK
<1>1. Inv => TypeOK BY DEF Inv
<1>. QED BY <1>1, ResumeInv, PTL

\* The run's ArrayClosed: handle_v_cont's array of one slot an action and one
\* more holds every entry, and ends with one for all threads when it is used.
THEOREM ArrayStaysClosed == Spec => []ArrayClosed
<1>1. Inv => ArrayClosed
  <2>. SUFFICES ASSUME Inv, own_buf.type = "vCont"
                PROVE  /\ Len(resume_info) <= Len(own_buf.actions) + 1
                       /\ server \in {"resuming", "waiting"} => Last(resume_info).thread = All
    BY DEF ArrayClosed
  <2>1. own_buf \in Packets /\ server \in {"parsing", "resuming", "waiting"}
    BY DEF Inv, Received, TypeOK
  <2>2. Len(own_buf.actions) \in Nat /\ Len(resume_info) \in Nat
    BY <2>1, PacketCases, LenProperties DEF Inv, TypeOK
  <2>3. CASE server = "parsing" BY <2>2, <2>3 DEF Inv, Parsed
  <2>4. CASE server \in {"resuming", "waiting"} BY <2>2, <2>4 DEF Inv, Closed, Last
  <2>. QED BY <2>1, <2>3, <2>4
<1>. QED BY <1>1, ResumeInv, PTL

\* The run's ErrorsResumeNothing: the err path leaves before the resume.
THEOREM ErrorsNeverResume == Spec => []ErrorsResumeNothing
<1>1. Inv => ErrorsResumeNothing
  <2>. SUFFICES ASSUME Inv, own_buf.type = "vCont", order # <<>>,
                       NEW i \in DOMAIN own_buf.actions, IsError(own_buf.actions[i])
                PROVE  FALSE
    BY DEF ErrorsResumeNothing
  <2>1. server = "waiting" /\ own_buf \in Packets BY DEF Inv, Ordered, Received
  <2>2. i \in 1 .. Len(own_buf.actions) BY <2>1, PacketCases, LenProperties
  <2>. QED BY <2>1, <2>2 DEF Inv, Closed, NoErrors
<1>. QED BY <1>1, ResumeInv, PTL

\* An action names the current thread if its slot fits it.
LEMMA NamesIfFits ==
  ASSUME NEW action PROVE Names(action) <=> SlotOf(action).thread \in {current_inferior, All}
BY DEF Names, SlotOf

\* The run's OrderAsAsked: the entry darwin_resume finds first is the one of
\* the first action that names the current thread.
THEOREM OrderIsAsked == Spec => []OrderAsAsked
<1>1. Inv => OrderAsAsked
  <2>. SUFFICES ASSUME Inv, server = "waiting",
                       own_buf.type = "vCont" => GdbForm(own_buf.actions), Asked # {}
                PROVE  order[1] \in Asked
    BY DEF OrderAsAsked
  <2>. DEFINE first == FirstFits(Fits)
  <2>1. order[1] = Ptrace(resume_info[first]) BY DEF Inv, Ordered
  <2>2. first \in Fits /\ \A j \in Fits : first <= j /\ j \in Nat BY SomeEntryFits
  <2>3. DOMAIN resume_info = 1 .. Len(resume_info) /\ Len(resume_info) \in Nat
    BY LenProperties DEF Inv, TypeOK
  <2>4. CASE own_buf.type # "vCont"
    <3>1. 1 \in Fits BY <2>3, <2>4 DEF Inv, Made, Fits
    <3>2. first = 1
      <4>1. first \in 1 .. Len(resume_info) BY <2>2, <2>3 DEF Fits
      <4>2. first <= 1 BY <2>2, <3>1
      <4>. QED BY <2>3, <4>1, <4>2
    <3>3. Ptrace(resume_info[1]) = [step |-> Stepping(own_buf.type), sig |-> ParseSignalByte(own_buf.sig)]
      BY <2>4 DEF Inv, Made
    <3>. QED BY <2>1, <2>4, <3>2, <3>3 DEF Asked
  <2>5. CASE own_buf.type = "vCont"
    <3>. DEFINE actions == own_buf.actions
    <3>1. own_buf \in Packets BY DEF Inv, Received
    <3>2. DOMAIN actions = 1 .. Len(actions) /\ Len(actions) \in Nat
      BY <2>5, <3>1, PacketCases, LenProperties
    <3>3. /\ Len(resume_info) >= Len(actions)
          /\ \A i \in 1 .. Len(actions) : resume_info[i] = SlotOf(actions[i])
      BY <2>5 DEF Inv, Closed
    <3>4. PICK i \in DOMAIN actions : Names(actions[i]) /\ \A j \in 1 .. i - 1 : ~ Names(actions[j])
      BY <2>5 DEF Asked
    <3>5. i \in DOMAIN resume_info /\ resume_info[i] = SlotOf(actions[i])
      BY <2>3, <3>2, <3>3, <3>4
    <3>6. i \in Fits BY <3>4, <3>5, NamesIfFits DEF Fits
    <3>7. first \in 1 .. i BY <2>2, <2>3, <3>2, <3>6 DEF Fits
    <3>8. resume_info[first] = SlotOf(actions[first]) BY <3>2, <3>3, <3>4, <3>7
    <3>9. Names(actions[first]) BY <2>2, <3>8, NamesIfFits DEF Fits
    <3>10. first = i BY <3>2, <3>4, <3>7, <3>9
    <3>11. Ptrace(SlotOf(actions[i])) = [step |-> Stepping(actions[i].letter), sig |-> actions[i].sig]
      BY DEF Ptrace, SlotOf
    <3>12. [step |-> Stepping(actions[i].letter), sig |-> actions[i].sig] \in Asked
      BY <2>5, <3>4 DEF Asked
    <3>. QED BY <2>1, <3>5, <3>10, <3>11, <3>12
  <2>. QED BY <2>4, <2>5
<1>. QED BY <1>1, ResumeInv, PTL
=============================================================================
