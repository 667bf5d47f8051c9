----------------------------- MODULE ResumePlan -----------------------------
(***************************************************************************)
(* What a resume request makes of the inferior: from the packets c, s, C,  *)
(* S and vCont, and the thread selections H leaves behind, through the     *)
(* thread_resume array of handle_v_cont and myresume (server.c) to the one *)
(* ptrace request darwin_resume (darwin-low.c) issues.  vCont's action     *)
(* list is parsed an action a step, as the code does, into slots that it   *)
(* fills, keeps or overwrites.                                             *)
(***************************************************************************)
EXTENDS Integers, Sequences, SequencesExt

CONSTANTS
  AllThreads,   \* the ids in all_threads, head first; the stub has one, the pid
  OtherIds,     \* ids a packet may name that are no thread of the stub
  Signals,      \* host signals a packet's signal may translate to; 0 is none
  MaxActions    \* bound: actions in a vCont packet

All  == -1       \* thread == -1: every thread
None == -2       \* an action without ":thread-id"
Bad  == -3       \* a signal the host does not have, text that is no thread-id
Ids  == OtherIds \cup ToSet(AllThreads) \cup {All}

ASSUME ResumeAssumption ==
  /\ AllThreads \in Seq(Nat \ {0}) /\ AllThreads # <<>>
  /\ OtherIds \subseteq Nat /\ Signals \subseteq Nat /\ 0 \in Signals
  /\ MaxActions \in Nat \ {0}

VARIABLES
  general_thread, cont_thread, step_thread,
  current_inferior,
  own_buf,          \* the packet being handled
  server,           \* "reading", "parsing", "resuming", "waiting"
  resume_info,      \* the array, as far as its slots are kept
  default_action,
  next,             \* the next action of the packet to parse
  order             \* history: the ptrace request this packet led to, <<>> or one

threads == <<general_thread, cont_thread, step_thread, current_inferior>>
vars == <<general_thread, cont_thread, step_thread, current_inferior, own_buf,
          server, resume_info, default_action, next, order>>

Slot == [thread : Ids, leave_stopped : BOOLEAN, step : BOOLEAN, sig : Signals]

\* One action of vCont: a letter, with a signal if it is a capital, and a
\* thread or none.  "?" stands for any other letter.
Action == [letter : {"c", "s", "?"}, sig : {0}, thread : Ids \cup {None, Bad}]
            \cup [letter : {"C", "S"}, sig : Signals \cup {Bad}, thread : Ids \cup {None, Bad}]

Packets == [type : {"c", "s"}, sig : {0}]
             \cup [type : {"C", "S"}, sig : Signals \cup {Bad}]
             \cup [type : {"Hg", "Hc", "Hs"}, thread : Ids]
             \cup [type : {"vCont"}, actions : BoundedSeq(Action, MaxActions) \ {<<>>}]

Nothing == [thread |-> All, leave_stopped |-> TRUE, step |-> FALSE, sig |-> 0]

Init == /\ general_thread = 0 /\ cont_thread = 0 /\ step_thread = 0
        /\ current_inferior = AllThreads[1]
        /\ own_buf = [type |-> "none"]
        /\ server = "reading"
        /\ resume_info = <<>> /\ default_action = Nothing /\ next = 1
        /\ order = <<>>

Receive(packet) ==
  /\ server = "reading"
  /\ own_buf' = packet
  /\ server' = "parsing"
  /\ UNCHANGED <<threads, resume_info, default_action, next, order>>

\* The handler returns and its locals are gone.
Return == /\ server' = "reading"
          /\ own_buf' = [type |-> "none"]
          /\ resume_info' = <<>> /\ default_action' = Nothing /\ next' = 1
          /\ order' = <<>>

Handling(types) == server = "parsing" /\ own_buf.type \in types

\* find_inferior_id finds a thread.
find_inferior_id(id) == id \in ToSet(AllThreads)

\* set_desired_inferior: the general thread, or the one to step if none in
\* particular is continued, or the one to continue; the first of all if the
\* wanted one is not found.
Desired(use_general) ==
  IF use_general /\ find_inferior_id(general_thread') THEN general_thread'
  ELSE IF ~ use_general /\ step_thread' > 0 /\ cont_thread' \in {0, All} /\ find_inferior_id(step_thread')
  THEN step_thread'
  ELSE IF ~ use_general /\ find_inferior_id(cont_thread') THEN cont_thread'
  ELSE AllThreads[1]

\* H: remembers the thread; only Hg selects it at once.
SetThread ==
  /\ Handling({"Hg", "Hc", "Hs"})
  /\ general_thread' = IF own_buf.type = "Hg" THEN own_buf.thread ELSE general_thread
  /\ cont_thread'    = IF own_buf.type = "Hc" THEN own_buf.thread ELSE cont_thread
  /\ step_thread'    = IF own_buf.type = "Hs" THEN own_buf.thread ELSE step_thread
  /\ current_inferior' = IF own_buf.type = "Hg" THEN Desired(TRUE) ELSE current_inferior
  /\ Return

-----------------------------------------------------------------------------
Stepping(letter) == letter \in {"s", "S"}

\* Fault for the run to find: a signal passed on as it came.
SignalKept(sig) == sig

\* parse_signal_byte: a signal the host does not have is dropped.
ParseSignalByte(sig) == IF sig = Bad THEN 0 ELSE sig

\* c, s, C, S: myresume makes an entry for the current thread if there is
\* anything to say about it, and a default that lets the others run unless
\* cont_thread names one.
MyResume ==
  /\ Handling({"c", "s", "C", "S"})
  /\ UNCHANGED <<general_thread, cont_thread, step_thread>>
  /\ current_inferior' = Desired(FALSE)
  /\ LET step == Stepping(own_buf.type)
         sig  == ParseSignalByte(own_buf.sig)
         own  == [thread |-> current_inferior', leave_stopped |-> FALSE, step |-> step, sig |-> sig]
         rest == [thread |-> All, leave_stopped |-> cont_thread > 0, step |-> FALSE, sig |-> 0]
     IN  resume_info' = IF step \/ sig # 0 \/ cont_thread > 0 THEN <<own, rest>> ELSE <<rest>>
  /\ server' = "resuming"
  /\ UNCHANGED <<own_buf, default_action, next, order>>

Parsing == Handling({"vCont"}) /\ next \in DOMAIN own_buf.actions

\* Fault for the run to find: no thread not taken for every thread.
SlotForNoThread(action) ==
  [thread |-> action.thread, leave_stopped |-> FALSE,
   step |-> Stepping(action.letter), sig |-> action.sig]

SlotOf(action) ==
  [thread |-> IF action.thread = None THEN All ELSE action.thread,
   leave_stopped |-> FALSE, step |-> Stepping(action.letter), sig |-> action.sig]

\* What the parse does not accept.
IsError(action) == action.letter = "?" \/ action.sig = Bad \/ action.thread = Bad

\* Fault for the run to find: an error that ends the parse and no more.
VContErrorBreaks ==
  /\ Parsing /\ IsError(own_buf.actions[next])
  /\ next' = Len(own_buf.actions) + 1
  /\ UNCHANGED <<threads, own_buf, server, resume_info, default_action, order>>

\* err: the whole packet is given up, and the empty reply sent.
VContError ==
  /\ Parsing /\ IsError(own_buf.actions[next])
  /\ Return
  /\ UNCHANGED threads

\* An action with a thread keeps its slot.
VContForThread ==
  /\ Parsing
  /\ LET action == own_buf.actions[next]
     IN  /\ ~ IsError(action) /\ action.thread # None
         /\ resume_info' = Append(resume_info, SlotOf(action))
  /\ next' = next + 1
  /\ UNCHANGED <<threads, own_buf, server, default_action, order>>

\* One without a thread is the default if it ends the packet; its slot is
\* reused either way.
DefaultAfter(action) ==
  IF next = Len(own_buf.actions) THEN SlotOf(action) ELSE default_action

VContForAll ==
  /\ Parsing
  /\ LET action == own_buf.actions[next]
     IN  /\ ~ IsError(action) /\ action.thread = None
         /\ default_action' = DefaultAfter(action)
  /\ next' = next + 1
  /\ UNCHANGED <<threads, own_buf, server, resume_info, order>>

\* The end of the packet: the default closes the array, and a packet of one
\* action for one thread is remembered as Hc would be.
VContEnds ==
  /\ Handling({"vCont"}) /\ next = Len(own_buf.actions) + 1
  /\ resume_info' = Append(resume_info, default_action)
  /\ cont_thread' = IF Len(own_buf.actions) = 1 /\ resume_info'[1].thread # All
                    THEN resume_info'[1].thread ELSE All
  /\ UNCHANGED <<general_thread, step_thread>>
  /\ current_inferior' = Desired(FALSE)
  /\ server' = "resuming"
  /\ UNCHANGED <<own_buf, default_action, next, order>>

-----------------------------------------------------------------------------
\* Fault for the run to find: the search goes past the first entry that fits.
LastFits(fits) == CHOOSE i \in fits : \A j \in fits : j <= i

\* darwin_resume looks for the thread up to the first entry for all threads.
FirstFits(fits) == CHOOSE i \in fits : \A j \in fits : i <= j

Ptrace(entry) == [step |-> entry.step, sig |-> entry.sig]

\* darwin_resume: one request for the process; leave_stopped is not looked at.
DarwinResume ==
  /\ server = "resuming"
  /\ LET fits == {i \in DOMAIN resume_info : resume_info[i].thread \in {current_inferior, All}}
     IN  order' = <<Ptrace(resume_info[FirstFits(fits)])>>
  /\ server' = "waiting"
  /\ UNCHANGED <<threads, own_buf, resume_info, default_action, next>>

\* The inferior stops (one that exits ends the session): the reply names its
\* thread and makes it the general one.
Stopped == /\ server = "waiting"
           /\ general_thread' = current_inferior
           /\ Return
           /\ UNCHANGED <<cont_thread, step_thread, current_inferior>>

Next == \/ \E packet \in Packets : Receive(packet)
        \/ SetThread \/ MyResume
        \/ VContError \/ VContForThread \/ VContForAll \/ VContEnds
        \/ DarwinResume \/ Stopped

Spec == Init /\ [][Next]_vars

-----------------------------------------------------------------------------
TypeOK ==
  /\ {general_thread, cont_thread, step_thread} \subseteq Ids \cup {0}
  /\ current_inferior \in ToSet(AllThreads)
  /\ server \in {"reading", "parsing", "resuming", "waiting"}
  /\ resume_info \in Seq(Slot) /\ default_action \in Slot
  /\ order \in {<<>>} \cup {<<o>> : o \in [step : BOOLEAN, sig : Signals]}

\* The array malloc'ed for one slot an action and one more is never outgrown,
\* and by the time it is used it ends with an entry for all threads, the one
\* darwin_resume's search relies on (target.h:31).
ArrayClosed ==
  own_buf.type = "vCont" =>
    /\ Len(resume_info) <= Len(own_buf.actions) + 1
    /\ server \in {"resuming", "waiting"} => Last(resume_info).thread = All

\* The form GDB sends: an action for all threads only at the end.
GdbForm(actions) ==
  \A i \in DOMAIN actions : actions[i].thread = None => i = Len(actions)

Names(action) == action.thread \in {current_inferior, All, None}

\* What the packet asks of the current thread, {} if nothing.
Asked ==
  IF own_buf.type # "vCont"
  THEN {[step |-> Stepping(own_buf.type), sig |-> ParseSignalByte(own_buf.sig)]}
  ELSE {[step |-> Stepping(own_buf.actions[i].letter), sig |-> own_buf.actions[i].sig] :
          i \in {i \in DOMAIN own_buf.actions : /\ Names(own_buf.actions[i])
                                                /\ \A j \in 1 .. i - 1 : ~ Names(own_buf.actions[j])}}

\* The program is stepped or continued, and with the signal, as the first
\* action that names it says, whatever was selected by earlier packets
\* (handle_v_cont, myresume, set_desired_inferior, darwin_resume together).
OrderAsAsked ==
  /\ server = "waiting"
  /\ own_buf.type = "vCont" => GdbForm(own_buf.actions)
  /\ Asked # {}
  => order[1] \in Asked

\* A vCont with anything wrong in it, wherever it stands, resumes nothing:
\* actions before it are not carried out either (the err path of handle_v_cont).
ErrorsResumeNothing ==
  own_buf.type = "vCont" /\ (\E i \in DOMAIN own_buf.actions : IsError(own_buf.actions[i]))
  => order = <<>>
=============================================================================
