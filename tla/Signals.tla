------------------------------ MODULE Signals ------------------------------
(***************************************************************************)
(* The signal numbers: those of the protocol (enum target_signal of        *)
(* gdb/signals.h), the table that names them and the two conversions from  *)
(* and to the host's (signals.c), and the way of a signal through them:    *)
(* from waitpid into the stop reply, from the reply to the debugger, and   *)
(* with the C or vCont that passes it on back to ptrace.                   *)
(***************************************************************************)
EXTENDS Integers, Sequences, TLC

CONSTANTS
  Host,        \* the SIGxxx macros the host defines, with their numbers
  RealtimeLo, RealtimeHi,  \* REALTIME_LO, REALTIME_HI; equal if not defined
  MaxNumber,   \* bound: the numbers a packet gives for a signal
  Exits        \* exit statuses of the program

VARIABLES
  status,      \* the stop reply's letter
  signo,       \* what waitpid reported: a host signal, or an exit status
  reply,       \* the number in the last stop reply, None before the first
  request,     \* the number the debugger asked to pass on, None without
  passed       \* the host signal ptrace was given for it

vars == <<status, signo, reply, request, passed>>

None == -1

-----------------------------------------------------------------------------
\* The enum's explicit numbers.
TARGET ==
  [SIGNAL_0 |-> 0, HUP |-> 1, INT |-> 2, QUIT |-> 3, ILL |-> 4, TRAP |-> 5, ABRT |-> 6,
   EMT |-> 7, FPE |-> 8, KILL |-> 9, BUS |-> 10, SEGV |-> 11, SYS |-> 12, PIPE |-> 13,
   ALRM |-> 14, TERM |-> 15, URG |-> 16, STOP |-> 17, TSTP |-> 18, CONT |-> 19,
   CHLD |-> 20, TTIN |-> 21, TTOU |-> 22, IO |-> 23, XCPU |-> 24, XFSZ |-> 25,
   VTALRM |-> 26, PROF |-> 27, WINCH |-> 28, LOST |-> 29, USR1 |-> 30, USR2 |-> 31,
   PWR |-> 32, POLL |-> 33, WIND |-> 34, PHONE |-> 35, WAITING |-> 36, LWP |-> 37,
   DANGER |-> 38, GRANT |-> 39, RETRACT |-> 40, MSG |-> 41, SOUND |-> 42, SAK |-> 43,
   PRIO |-> 44, REALTIME_33 |-> 45, CANCEL |-> 76, REALTIME_32 |-> 77,
   REALTIME_64 |-> 78, INFO |-> 142, UNKNOWN |-> 143, DEFAULT |-> 144,
   EXC_BAD_ACCESS |-> 145, EXC_BAD_INSTRUCTION |-> 146, EXC_ARITHMETIC |-> 147,
   EXC_EMULATION |-> 148, EXC_SOFTWARE |-> 149, EXC_BREAKPOINT |-> 150, LAST |-> 151]

\* The realtime signals are three runs of consecutive numbers.
RealtimeTarget(n) == CASE n \in 33 .. 63  -> n - 33 + TARGET.REALTIME_33
                       [] n = 32          -> TARGET.REALTIME_32
                       [] n \in 64 .. 127 -> n - 64 + TARGET.REALTIME_64

\* The names of the table, in its order; the entries without a name are "?".
RealtimeName(n) == "SIG" \o ToString(n)

RealtimeNames(first, last) == [i \in 1 .. last - first + 1 |-> RealtimeName(first + i - 1)]

ClassicNames ==
  <<"0", "HUP", "INT", "QUIT", "ILL", "TRAP", "ABRT", "EMT", "FPE", "KILL", "BUS", "SEGV",
    "SYS", "PIPE", "ALRM", "TERM", "URG", "STOP", "TSTP", "CONT", "CHLD", "TTIN", "TTOU",
    "IO", "XCPU", "XFSZ", "VTALRM", "PROF", "WINCH", "LOST", "USR1", "USR2", "PWR", "POLL",
    "WIND", "PHONE", "WAITING", "LWP", "DANGER", "GRANT", "RETRACT", "MSG", "SOUND", "SAK",
    "PRIO">>

LastNames ==
  <<"INFO", "?", "?", "EXC_BAD_ACCESS", "EXC_BAD_INSTRUCTION", "EXC_ARITHMETIC",
    "EXC_EMULATION", "EXC_SOFTWARE", "EXC_BREAKPOINT", "?">>

\* Of the strings the table makes out of numbers: no two are equal, and none is
\* a name that is written out.
ASSUME RealtimeNamesDiffer ==
  \A n \in 32 .. 127 :
    /\ \A m \in 32 .. 127 : RealtimeName(n) = RealtimeName(m) => n = m
    /\ RealtimeName(n) # "CANCEL"
    /\ \A i \in DOMAIN ClassicNames : RealtimeName(n) # ClassicNames[i]
    /\ \A i \in DOMAIN LastNames : RealtimeName(n) # LastNames[i]

\* Fault for the run to find: the realtime names in the order of their numbers.
SortedTable == ClassicNames \o RealtimeNames(33, 63) \o RealtimeNames(32, 32) \o <<"CANCEL">>
                 \o RealtimeNames(64, 127) \o LastNames

signals == ClassicNames \o RealtimeNames(33, 63) \o <<"CANCEL">> \o RealtimeNames(32, 32)
             \o RealtimeNames(64, 127) \o LastNames

\* target_signal_to_name: "?" for what has no name or is no signal.
target_signal_to_name(sig) ==
  IF sig \in 0 .. TARGET.LAST THEN signals[sig + 1] ELSE "?"

\* target_signal_from_name searches from SIGHUP up.
target_signal_from_name(name) ==
  LET named == {sig \in TARGET.HUP .. TARGET.LAST - 1 : signals[sig + 1] = name /\ name # "?"}
  IN  IF named = {} THEN TARGET.UNKNOWN
      ELSE CHOOSE sig \in named : \A other \in named : sig <= other

-----------------------------------------------------------------------------
\* The signals the conversions know besides the realtime ones, in the order in
\* which target_signal_from_host compares them with the host's number.
FirstRows ==
  <<"HUP", "INT", "QUIT", "ILL", "TRAP", "ABRT", "EMT", "FPE", "KILL", "BUS", "SEGV", "SYS",
    "PIPE", "ALRM", "TERM", "USR1", "USR2", "CLD", "CHLD", "PWR", "WINCH", "URG", "IO",
    "POLL", "STOP">>

LaterRows ==
  <<"TSTP", "CONT", "TTIN", "TTOU", "VTALRM", "PROF", "XCPU", "XFSZ", "WIND", "PHONE",
    "LOST", "WAITING", "CANCEL", "LWP", "DANGER", "GRANT", "RETRACT", "MSG", "SOUND", "SAK",
    "PRIO", "EXC_BAD_ACCESS", "EXC_BAD_INSTRUCTION", "EXC_ARITHMETIC", "EXC_EMULATION",
    "EXC_SOFTWARE", "EXC_BREAKPOINT", "INFO">>

Rows == FirstRows \o LaterRows

\* What a row returns; SIGCLD is another name of SIGCHLD.
Returned(name) == TARGET[IF name = "CLD" THEN "CHLD" ELSE name]

Realtime == RealtimeLo .. RealtimeHi - 1

\* A host may have two names for a number; SIGCLD is SIGCHLD's.
ASSUME HostAssumption ==
  /\ \A name \in DOMAIN Host : Host[name] \in Nat \ {0} /\ \E i \in DOMAIN Rows : Rows[i] = name
  /\ "TRAP" \in DOMAIN Host
  /\ {"CLD", "CHLD"} \subseteq DOMAIN Host => Host["CLD"] = Host["CHLD"]
  /\ RealtimeLo \in Nat /\ RealtimeHi \in 0 .. 128
  /\ RealtimeLo < RealtimeHi => RealtimeLo >= 32
  /\ MaxNumber \in Nat /\ Exits \subseteq 0 .. 255

\* Fault for the run to find: the host's numbers taken for the protocol's.
SameNumbers(hostsig) == IF hostsig \in 0 .. 31 THEN hostsig ELSE TARGET.UNKNOWN

\* target_signal_from_host: the first row of a macro with the number.
target_signal_from_host(hostsig) ==
  LET fits == {i \in DOMAIN Rows : Rows[i] \in DOMAIN Host /\ Host[Rows[i]] = hostsig}
  IN  IF hostsig = 0 THEN TARGET.SIGNAL_0
      ELSE IF fits # {}
      THEN Returned(Rows[CHOOSE i \in fits : \A j \in fits : i <= j])
      ELSE IF hostsig \in Realtime THEN RealtimeTarget(hostsig)
      ELSE TARGET.UNKNOWN

\* Fault for the run to find: SIGINFO's case left to the default.
CasesBeforeInfo(oursig) ==
  {name \in DOMAIN Host : (\E i \in DOMAIN Rows : Rows[i] = name /\ i < Len(Rows)) /\ Returned(name) = oursig}

\* The switch of do_target_signal_to_host: the macro of a case the host has.
Cases(oursig) ==
  {name \in DOMAIN Host : (\E i \in DOMAIN Rows : Rows[i] = name) /\ Returned(name) = oursig}

\* Its default: the realtime signal of the host with the number.
RealtimeSignals(oursig) == {n \in Realtime : RealtimeTarget(n) = oursig}

\* Fault for the run to find: a signal the host lacks passed on by number.
NumberPassed(oursig) == oursig

\* do_target_signal_to_host: the host's signal, None with oursig_ok cleared.
do_target_signal_to_host(oursig) ==
  IF oursig = TARGET.SIGNAL_0 THEN 0
  ELSE IF Cases(oursig) # {} THEN Host[CHOOSE name \in Cases(oursig) : TRUE]
  ELSE IF RealtimeSignals(oursig) # {} THEN CHOOSE n \in RealtimeSignals(oursig) : TRUE
  ELSE None

target_signal_to_host_p(oursig) == do_target_signal_to_host(oursig) # None

target_signal_to_host(oursig) ==
  IF target_signal_to_host_p(oursig) THEN do_target_signal_to_host(oursig) ELSE 0

-----------------------------------------------------------------------------
\* The program the stub started has stopped at its first instruction.
Init == /\ status = "T" /\ signo = Host["TRAP"]
        /\ reply = None /\ request = None /\ passed = 0

\* prepare_resume_reply: the number goes through the table whatever it is,
\* and out as two hex digits.
PrepareResumeReply(sig) == reply' = target_signal_from_host(sig) % 256

\* ?: the last status, told again.
HandleQuestion ==
  /\ status = "T"
  /\ PrepareResumeReply(signo)
  /\ UNCHANGED <<status, signo, request, passed>>

\* parse_signal_byte of C and S.
HandleC(number) ==
  /\ status = "T" /\ request = None /\ number <= 255
  /\ request' = number
  /\ passed' = target_signal_to_host(number)
  /\ UNCHANGED <<status, signo, reply>>

\* vCont gives up on a signal the host does not have.
HandleVCont(number) ==
  /\ status = "T" /\ request = None
  /\ target_signal_to_host_p(number)
  /\ request' = number
  /\ passed' = target_signal_to_host(number)
  /\ UNCHANGED <<status, signo, reply>>

\* What waitpid reports of the program it was resumed for.
HostSignals == {Host[name] : name \in DOMAIN Host} \cup Realtime

Reports == [status : {"T", "X"}, signo : HostSignals] \cup [status : {"W"}, signo : Exits]

DarwinWait ==
  /\ request # None
  /\ \E report \in Reports : /\ status' = report.status /\ signo' = report.signo
                             /\ PrepareResumeReply(report.signo)
  /\ request' = None /\ passed' = 0

Next == \/ HandleQuestion \/ DarwinWait
        \/ \E number \in 0 .. MaxNumber : HandleC(number) \/ HandleVCont(number)

Spec == Init /\ [][Next]_vars

-----------------------------------------------------------------------------
TypeOK ==
  /\ status \in {"T", "X", "W"} /\ signo \in HostSignals \cup Exits
  /\ reply \in {None} \cup 0 .. 255
  /\ request \in {None} \cup 0 .. MaxNumber /\ passed \in {0} \cup HostSignals

\* The names the host has for one of its signals, the protocol's spelling.
NamesOf(hostsig) ==
  {IF name = "CLD" THEN "CHLD" ELSE name : name \in {n \in DOMAIN Host : Host[n] = hostsig}}
    \cup (IF hostsig \in Realtime THEN {RealtimeName(hostsig)} ELSE {})

\* A signal makes it "from wait to child_wait to the user intact"
\* (signals.h:40): the debugger, which reads the number by the protocol's
\* table, shows the name the host has for what waitpid reported
\* (prepare_resume_reply, target_signal_from_host).
SignalIntact ==
  status \in {"T", "X"} /\ reply # None => target_signal_to_name(reply) \in NamesOf(signo)

\* A signal the debugger passes on as it was told it is the one that stopped
\* the program (target_signal_from_host, then do_target_signal_to_host).
PassedBack == request # None /\ request = reply => passed = signo

\* A number that names no signal of the host passes none on, rather than
\* another one (parse_signal_byte, handle_v_cont).
NeverAnother ==
  request # None /\ passed # 0 => target_signal_to_name(request) \in NamesOf(passed)

\* The names of the enum's member with a number.
MemberNames(sig) ==
  {Rows[i] : i \in {i \in DOMAIN Rows : Rows[i] # "CLD" /\ Returned(Rows[i]) = sig}}
    \cup {RealtimeName(n) : n \in {n \in 32 .. 127 : RealtimeTarget(n) = sig}}
    \cup (IF sig = TARGET.SIGNAL_0 THEN {"0"} ELSE {})

\* The table "must match in order and size the signals in enum target_signal"
\* (signals.c:47; the check at signals.c:939 is not compiled into the stub).
\* So what it calls a number the debugger sends is the member with that
\* number, the search by that name finds the number again, and a number
\* without a member has no name.
NamesMatch ==
  request # None =>
    LET name == target_signal_to_name(request)
    IN  IF MemberNames(request) = {} THEN name = "?"
        ELSE /\ MemberNames(request) = {name}
             /\ request # TARGET.SIGNAL_0 => target_signal_from_name(name) = request
=============================================================================
