--------------------------- MODULE SignalsProofs ---------------------------
(***************************************************************************)
(* That the two conversions are inverse on every host whose signals the    *)
(* tables know, whatever numbers it gives them and however many it has     *)
(* two names for, so that a signal passed on as it was told is the one     *)
(* that stopped the program; that the table of names matches the enum, so  *)
(* that the debugger reads a number by the host's name for the signal.     *)
(***************************************************************************)
EXTENDS Signals, SequenceLemmas, WellFoundedInduction

\* What the run's invariants rest on: the reply is the translation of the
\* last report, what was passed that of the number asked for.
Inv == /\ TypeOK
       /\ status # "W" => signo \in HostSignals
       /\ reply # None => reply = target_signal_from_host(signo)
       /\ request # None => status = "T" /\ passed = target_signal_to_host(request)

-----------------------------------------------------------------------------
Less == {ss \in Nat \X Nat : ss[1] < ss[2]}

\* The first comparison that succeeds: a set of row numbers has a least one.
LEMMA LeastExists ==
  ASSUME NEW S \in SUBSET Nat, S # {}
  PROVE  \E m \in S : \A j \in S : m <= j
<1>1. IsWellFoundedOn(Less, Nat) BY NatLessThanWellFounded DEF OpToRel, Less
<1>2. PICK m \in S : \A j \in S : ~ (<<j, m>> \in Less) BY <1>1, WFMin
<1>3. \A j \in S : j \in Nat /\ m \in Nat OBVIOUS
<1>4. \A j \in S : j < m => <<j, m>> \in Less BY <1>3 DEF Less
<1>5. \A j \in S : ~ (j < m) BY <1>2, <1>4
<1>6. \A j \in S : m <= j BY <1>3, <1>5
<1>. QED BY <1>6

\* No row returns "no signal" or one of the realtime numbers (the enum's
\* explicit numbers against the rows of target_signal_from_host).
LEMMA RowValues ==
  \A i \in DOMAIN Rows : Returned(Rows[i]) \in 1 .. 44 \cup {76, 142} \cup 145 .. 150
BY SMTT(60) DEF FirstRows, LaterRows, Rows, Returned, TARGET

\* Two rows with one number are SIGCLD and SIGCHLD (the enum has no number
\* twice).
LEMMA RowsDistinct ==
  ASSUME NEW i \in DOMAIN Rows, NEW j \in DOMAIN Rows, Returned(Rows[i]) = Returned(Rows[j])
  PROVE  Rows[i] = Rows[j] \/ {Rows[i], Rows[j]} = {"CLD", "CHLD"}
BY SMTT(60) DEF FirstRows, LaterRows, Rows, Returned, TARGET

\* So a case of the switch yields one number of the host.
LEMMA CaseUnique ==
  ASSUME NEW name \in DOMAIN Host, NEW other \in DOMAIN Host, Returned(name) = Returned(other)
  PROVE  Host[name] = Host[other]
<1>1. PICK i \in DOMAIN Rows : Rows[i] = name BY HostAssumption
<1>2. PICK j \in DOMAIN Rows : Rows[j] = other BY HostAssumption
<1>3. name = other \/ {name, other} = {"CLD", "CHLD"} BY <1>1, <1>2, RowsDistinct
<1>4. CASE name = other BY <1>4
<1>5. CASE {name, other} = {"CLD", "CHLD"}
  <2>1. {"CLD", "CHLD"} \subseteq DOMAIN Host BY <1>5
  <2>2. Host["CLD"] = Host["CHLD"] BY <2>1, HostAssumption
  <2>. QED BY <1>5, <2>2
<1>. QED BY <1>3, <1>4, <1>5

\* The three runs of realtime numbers do not meet each other or the rows.
LEMMA RealtimeValues ==
  \A n \in 32 .. 127 : RealtimeTarget(n) \in (45 .. 75) \cup (77 .. 141)
BY DEF RealtimeTarget, TARGET

LEMMA RealtimeDistinct ==
  \A n, m \in 32 .. 127 : RealtimeTarget(n) = RealtimeTarget(m) => n = m
BY DEF RealtimeTarget, TARGET

LEMMA RealtimeRange == Realtime \subseteq 32 .. 127
BY HostAssumption DEF Realtime

-----------------------------------------------------------------------------
(* The table of names.                                                     *)

\* The entries, whatever a number makes of a string.
Names == {ClassicNames[i] : i \in 1 .. 45} \cup {RealtimeName(n) : n \in 32 .. 127}
           \cup {"CANCEL"} \cup {LastNames[i] : i \in 1 .. 10}

LEMMA PartsTyped ==
  /\ ClassicNames \in Seq(Names) /\ Len(ClassicNames) = 45
  /\ LastNames \in Seq(Names) /\ Len(LastNames) = 10
  /\ <<"CANCEL">> \in Seq(Names) /\ Len(<<"CANCEL">>) = 1
<1>1. Len(ClassicNames) = 45 /\ ClassicNames = [i \in 1 .. 45 |-> ClassicNames[i]]
  BY DEF ClassicNames
<1>2. Len(LastNames) = 10 /\ LastNames = [i \in 1 .. 10 |-> LastNames[i]]
  BY DEF LastNames
<1>3. [i \in 1 .. 45 |-> ClassicNames[i]] \in Seq(Names)
  BY DEF Names
<1>4. [i \in 1 .. 10 |-> LastNames[i]] \in Seq(Names)
  BY DEF Names
<1>5. "CANCEL" \in Names
  BY DEF Names
<1>6. <<"CANCEL">> \in Seq(Names) /\ Len(<<"CANCEL">>) = 1
  BY <1>5
<1> HIDE DEF Names
<1> QED BY <1>1, <1>2, <1>3, <1>4, <1>6, Zenon

LEMMA RunsTyped ==
  ASSUME NEW first \in 32 .. 127, NEW last \in first .. 127
  PROVE  /\ RealtimeNames(first, last) \in Seq(Names)
         /\ Len(RealtimeNames(first, last)) = last - first + 1
         /\ \A i \in 1 .. last - first + 1 :
              RealtimeNames(first, last)[i] = RealtimeName(first + i - 1)
<1> DEFINE run == [i \in 1 .. last - first + 1 |-> RealtimeName(first + i - 1)]
<1>1. last - first + 1 \in Nat
  OBVIOUS
<1>2. \A i \in 1 .. last - first + 1 : RealtimeName(first + i - 1) \in Names
  BY DEF Names
<1>3. run \in [1 .. last - first + 1 -> Names]
  BY <1>2
<1>4. run \in Seq(Names) /\ Len(run) = last - first + 1
  BY <1>1, <1>3
<1> QED BY <1>4 DEF RealtimeNames

\* What the table calls a number: the six parts one after the other.
LEMMA TableIs ==
  /\ \A sig \in 0 .. 44 : signals[sig + 1] = ClassicNames[sig + 1]
  /\ \A sig \in 45 .. 75 : signals[sig + 1] = RealtimeName(sig - 12)
  /\ signals[77] = "CANCEL" /\ signals[78] = RealtimeName(32)
  /\ \A sig \in 78 .. 141 : signals[sig + 1] = RealtimeName(sig - 14)
  /\ \A sig \in 142 .. 151 : signals[sig + 1] = LastNames[sig - 141]
<1> DEFINE a == ClassicNames
           b == RealtimeNames(33, 63)
           c == <<"CANCEL">>
           d == RealtimeNames(32, 32)
           e == RealtimeNames(64, 127)
           f == LastNames
<1>1. /\ a \in Seq(Names) /\ Len(a) = 45 /\ c \in Seq(Names) /\ Len(c) = 1
      /\ f \in Seq(Names) /\ Len(f) = 10 /\ c[1] = "CANCEL"
  BY PartsTyped
<1>2. /\ b \in Seq(Names) /\ Len(b) = 31 /\ \A i \in 1 .. 31 : b[i] = RealtimeName(33 + i - 1)
      /\ d \in Seq(Names) /\ Len(d) = 1 /\ d[1] = RealtimeName(32)
      /\ e \in Seq(Names) /\ Len(e) = 64 /\ \A i \in 1 .. 64 : e[i] = RealtimeName(64 + i - 1)
  <2>1. /\ b \in Seq(Names) /\ Len(b) = 63 - 33 + 1
        /\ \A i \in 1 .. 63 - 33 + 1 : b[i] = RealtimeName(33 + i - 1)
    <3>1. 33 \in 32 .. 127 /\ 63 \in 33 .. 127
      OBVIOUS
    <3> QED BY <3>1, RunsTyped, Zenon
  <2>2. /\ d \in Seq(Names) /\ Len(d) = 32 - 32 + 1
        /\ \A i \in 1 .. 32 - 32 + 1 : d[i] = RealtimeName(32 + i - 1)
    <3>1. 32 \in 32 .. 127 /\ 32 \in 32 .. 127
      OBVIOUS
    <3> QED BY <3>1, RunsTyped, Zenon
  <2>3. /\ e \in Seq(Names) /\ Len(e) = 127 - 64 + 1
        /\ \A i \in 1 .. 127 - 64 + 1 : e[i] = RealtimeName(64 + i - 1)
    <3>1. 64 \in 32 .. 127 /\ 127 \in 64 .. 127
      OBVIOUS
    <3> QED BY <3>1, RunsTyped, Zenon
  <2>4. d[1] = RealtimeName(32 + 1 - 1) /\ 32 + 1 - 1 = 32
    BY <2>2
  <2> HIDE DEF b, d, e
  <2> QED BY <2>1, <2>2, <2>3, <2>4
<1>3. signals = ((((a \o b) \o c) \o d) \o e) \o f
  BY DEF signals
<1> HIDE DEF a, b, c, d, e, f
<1> DEFINE ab == a \o b
           abc == ab \o c
           abcd == abc \o d
           abcde == abcd \o e
<1>4. /\ ab \in Seq(Names) /\ Len(ab) = 76
      /\ \A i \in 1 .. 45 : ab[i] = a[i]
      /\ \A i \in 1 .. 31 : ab[45 + i] = b[i]
  <2> HIDE DEF ab
  <2>1. /\ ab \in Seq(Names) /\ Len(ab) = Len(a) + Len(b)
        /\ DOMAIN a = 1 .. Len(a) /\ DOMAIN b = 1 .. Len(b)
        /\ \A i \in DOMAIN a : ab[i] = a[i]
        /\ \A i \in DOMAIN b : ab[Len(a) + i] = b[i]
    <3>1. a \in Seq(Names) /\ b \in Seq(Names)
      BY <1>1, <1>2
    <3> QED BY <3>1, ConcatGrows DEF ab
  <2> QED BY <1>1, <1>2, <2>1
<1> HIDE DEF ab
<1>5. /\ abc \in Seq(Names) /\ Len(abc) = 77
      /\ \A i \in 1 .. 76 : abc[i] = ab[i]
      /\ \A i \in 1 .. 1 : abc[76 + i] = c[i]
  <2> HIDE DEF abc
  <2>1. /\ abc \in Seq(Names) /\ Len(abc) = Len(ab) + Len(c)
        /\ DOMAIN ab = 1 .. Len(ab) /\ DOMAIN c = 1 .. Len(c)
        /\ \A i \in DOMAIN ab : abc[i] = ab[i]
        /\ \A i \in DOMAIN c : abc[Len(ab) + i] = c[i]
    <3>1. ab \in Seq(Names) /\ c \in Seq(Names)
      BY <1>1, <1>4
    <3> QED BY <3>1, ConcatGrows DEF abc
  <2> QED BY <1>1, <1>4, <2>1
<1> HIDE DEF abc
<1>6. /\ abcd \in Seq(Names) /\ Len(abcd) = 78
      /\ \A i \in 1 .. 77 : abcd[i] = abc[i]
      /\ \A i \in 1 .. 1 : abcd[77 + i] = d[i]
  <2> HIDE DEF abcd
  <2>1. /\ abcd \in Seq(Names) /\ Len(abcd) = Len(abc) + Len(d)
        /\ DOMAIN abc = 1 .. Len(abc) /\ DOMAIN d = 1 .. Len(d)
        /\ \A i \in DOMAIN abc : abcd[i] = abc[i]
        /\ \A i \in DOMAIN d : abcd[Len(abc) + i] = d[i]
    <3>1. abc \in Seq(Names) /\ d \in Seq(Names)
      BY <1>2, <1>5
    <3> QED BY <3>1, ConcatGrows DEF abcd
  <2> QED BY <1>2, <1>5, <2>1
<1> HIDE DEF abcd
<1>7. /\ abcde \in Seq(Names) /\ Len(abcde) = 142
      /\ \A i \in 1 .. 78 : abcde[i] = abcd[i]
      /\ \A i \in 1 .. 64 : abcde[78 + i] = e[i]
  <2> HIDE DEF abcde
  <2>1. /\ abcde \in Seq(Names) /\ Len(abcde) = Len(abcd) + Len(e)
        /\ DOMAIN abcd = 1 .. Len(abcd) /\ DOMAIN e = 1 .. Len(e)
        /\ \A i \in DOMAIN abcd : abcde[i] = abcd[i]
        /\ \A i \in DOMAIN e : abcde[Len(abcd) + i] = e[i]
    <3>1. abcd \in Seq(Names) /\ e \in Seq(Names)
      BY <1>2, <1>6
    <3> QED BY <3>1, ConcatGrows DEF abcde
  <2> QED BY <1>2, <1>6, <2>1
<1> HIDE DEF abcde
<1>8. /\ \A i \in 1 .. 142 : signals[i] = abcde[i]
      /\ \A i \in 1 .. 10 : signals[142 + i] = f[i]
  <2>1. signals = abcde \o f
    BY <1>3 DEF abcde, abcd, abc, ab
  <2>2. /\ DOMAIN abcde = 1 .. Len(abcde) /\ DOMAIN f = 1 .. Len(f)
        /\ \A i \in DOMAIN abcde : signals[i] = abcde[i]
        /\ \A i \in DOMAIN f : signals[Len(abcde) + i] = f[i]
    <3>1. abcde \in Seq(Names) /\ f \in Seq(Names)
      BY <1>1, <1>7
    <3> QED BY <2>1, <3>1, ConcatGrows
  <2>3. DOMAIN abcde = 1 .. 142 /\ DOMAIN f = 1 .. 10 /\ Len(abcde) = 142
    BY <1>1, <1>7, <2>2
  <2>4. ASSUME NEW i \in 1 .. 142 PROVE signals[i] = abcde[i]
    <3>1. i \in DOMAIN abcde
      BY <2>3
    <3> QED BY <2>2, <3>1, Zenon
  <2>5. ASSUME NEW i \in 1 .. 10 PROVE signals[142 + i] = f[i]
    <3>1. i \in DOMAIN f
      BY <2>3
    <3>2. signals[Len(abcde) + i] = f[i]
      BY <2>2, <3>1, Zenon
    <3>3. Len(abcde) = 142
      BY <2>3
    <3> QED BY <3>2, <3>3
  <2> QED BY <2>4, <2>5, Zenon
<1>9. /\ \A i \in 1 .. 78 : signals[i] = abcd[i]
      /\ \A i \in 1 .. 77 : signals[i] = abc[i]
      /\ \A i \in 1 .. 76 : signals[i] = ab[i]
      /\ \A i \in 1 .. 45 : signals[i] = a[i]
  <2>1. /\ \A i \in 1 .. 45 : ab[i] = a[i]
        /\ \A i \in 1 .. 76 : abc[i] = ab[i]
        /\ \A i \in 1 .. 77 : abcd[i] = abc[i]
        /\ \A i \in 1 .. 78 : abcde[i] = abcd[i]
        /\ \A i \in 1 .. 142 : signals[i] = abcde[i]
    BY <1>4, <1>5, <1>6, <1>7, <1>8, Zenon
  <2>2. ASSUME NEW i \in 1 .. 78 PROVE signals[i] = abcd[i]
    BY <2>1
  <2>3. ASSUME NEW i \in 1 .. 77 PROVE signals[i] = abc[i]
    BY <2>1, <2>2
  <2>4. ASSUME NEW i \in 1 .. 76 PROVE signals[i] = ab[i]
    BY <2>1, <2>3
  <2>5. ASSUME NEW i \in 1 .. 45 PROVE signals[i] = a[i]
    BY <2>1, <2>4
  <2> QED BY <2>2, <2>3, <2>4, <2>5
<1>10. ASSUME NEW sig \in 0 .. 44
       PROVE  signals[sig + 1] = ClassicNames[sig + 1]
  <2>1. sig + 1 \in 1 .. 45
    OBVIOUS
  <2> QED BY <1>9, <2>1, Zenon DEF a
<1>11. ASSUME NEW sig \in 45 .. 75
       PROVE  signals[sig + 1] = RealtimeName(sig - 12)
  <2>1. sig - 44 \in 1 .. 31 /\ 45 + (sig - 44) = sig + 1 /\ 33 + (sig - 44) - 1 = sig - 12
    OBVIOUS
  <2>2. ab[45 + (sig - 44)] = b[sig - 44] /\ b[sig - 44] = RealtimeName(33 + (sig - 44) - 1)
    BY <1>2, <1>4, <2>1
  <2> QED BY <1>9, <2>1, <2>2
<1>12. signals[77] = "CANCEL" /\ signals[78] = RealtimeName(32)
  <2>1. 76 + 1 = 77 /\ 77 + 1 = 78 /\ 1 \in 1 .. 1
    OBVIOUS
  <2>2. abc[76 + 1] = c[1] /\ abcd[77 + 1] = d[1]
    BY <1>5, <1>6, <2>1, Zenon
  <2>3. abc[77] = "CANCEL" /\ abcd[78] = RealtimeName(32)
    BY <1>1, <1>2, <2>1, <2>2
  <2>4. 77 \in 1 .. 77 /\ 78 \in 1 .. 78
    OBVIOUS
  <2> QED BY <1>9, <2>3, <2>4, Zenon
<1>13. ASSUME NEW sig \in 78 .. 141
       PROVE  signals[sig + 1] = RealtimeName(sig - 14)
  <2>1. sig - 77 \in 1 .. 64 /\ 78 + (sig - 77) = sig + 1 /\ 64 + (sig - 77) - 1 = sig - 14
    OBVIOUS
  <2>2. /\ abcde[78 + (sig - 77)] = e[sig - 77]
        /\ e[sig - 77] = RealtimeName(64 + (sig - 77) - 1)
    <3>1. \A i \in 1 .. 64 : abcde[78 + i] = e[i]
      BY <1>7
    <3>2. \A i \in 1 .. 64 : e[i] = RealtimeName(64 + i - 1)
      BY <1>2
    <3> QED BY <2>1, <3>1, <3>2
  <2>3. sig + 1 \in 1 .. 142
    OBVIOUS
  <2>4. signals[sig + 1] = abcde[sig + 1]
    BY <1>8, <2>3
  <2> QED BY <2>1, <2>2, <2>4
<1>14. ASSUME NEW sig \in 142 .. 151
       PROVE  signals[sig + 1] = LastNames[sig - 141]
  <2>1. sig - 141 \in 1 .. 10 /\ 142 + (sig - 141) = sig + 1
    OBVIOUS
  <2> QED BY <1>8, <2>1 DEF f
<1> QED BY <1>10, <1>11, <1>12, <1>13, <1>14

\* The protocol's spelling of a host's macro.
Spelling(name) == IF name = "CLD" THEN "CHLD" ELSE name

\* Each row's number is that of the table's entry with its name: the rows of
\* SIGHUP to SIGPRIO, those of SIGCANCEL and of what follows the realtime ones.
LEMMA RowNames ==
  ASSUME NEW i \in DOMAIN Rows
  PROVE  \/ /\ Returned(Rows[i]) \in 1 .. 44
            /\ ClassicNames[Returned(Rows[i]) + 1] = Spelling(Rows[i])
         \/ /\ Returned(Rows[i]) = 76
            /\ Spelling(Rows[i]) = "CANCEL"
         \/ /\ Returned(Rows[i]) \in {142} \cup 145 .. 150
            /\ LastNames[Returned(Rows[i]) - 141] = Spelling(Rows[i])
BY SMTT(60) DEF FirstRows, LaterRows, Rows, Returned, TARGET, ClassicNames, LastNames, Spelling

\* So the debugger reads a row's number by the row's name.
LEMMA RowRead ==
  ASSUME NEW i \in DOMAIN Rows
  PROVE  target_signal_to_name(Returned(Rows[i])) = Spelling(Rows[i])
<1> DEFINE sig == Returned(Rows[i])
<1>1. \/ sig \in 1 .. 44 /\ ClassicNames[sig + 1] = Spelling(Rows[i])
      \/ sig = 76 /\ Spelling(Rows[i]) = "CANCEL"
      \/ sig \in {142} \cup 145 .. 150 /\ LastNames[sig - 141] = Spelling(Rows[i])
  BY RowNames
<1> HIDE DEF sig
<1>2. signals[sig + 1] = Spelling(Rows[i])
  BY <1>1, TableIs
<1>3. sig \in 0 .. TARGET.LAST
  BY <1>1 DEF TARGET
<1> QED BY <1>2, <1>3 DEF target_signal_to_name, sig

\* And a realtime signal's number by its own.
LEMMA RealtimeRead ==
  ASSUME NEW n \in 32 .. 127
  PROVE  target_signal_to_name(RealtimeTarget(n)) = RealtimeName(n)
<1> DEFINE sig == RealtimeTarget(n)
<1>1. \/ n \in 33 .. 63 /\ sig = n + 12
      \/ n = 32 /\ sig = 77
      \/ n \in 64 .. 127 /\ sig = n + 14
  BY DEF RealtimeTarget, TARGET
<1> HIDE DEF sig
<1>2. signals[sig + 1] = RealtimeName(n)
  <2>1. CASE n \in 33 .. 63 /\ sig = n + 12
    <3>1. sig \in 45 .. 75 /\ sig - 12 = n
      BY <2>1
    <3> QED BY <3>1, TableIs
  <2>2. CASE n = 32 /\ sig = 77
    BY <2>2, TableIs
  <2>3. CASE n \in 64 .. 127 /\ sig = n + 14
    <3>1. sig \in 78 .. 141 /\ sig - 14 = n
      BY <2>3
    <3> QED BY <3>1, TableIs
  <2> QED BY <1>1, <2>1, <2>2, <2>3
<1>3. sig \in 0 .. TARGET.LAST
  BY <1>1 DEF TARGET
<1> QED BY <1>2, <1>3 DEF target_signal_to_name, sig

-----------------------------------------------------------------------------
(* The table against the enum.                                             *)

\* The row of a number up to SIGPRIO's.
RowOf ==
  <<1, 2, 3, 4, 5, 6, 7, 8, 9, 10, 11, 12, 13, 14, 15, 22, 25, 26, 27, 19, 28, 29, 23,
    32, 33, 30, 31, 21, 36, 16, 17, 20, 24, 34, 35, 37, 39, 40, 41, 42, 43, 44, 45, 46>>

LEMMA RowOfClassic ==
  ASSUME NEW sig \in 1 .. 44
  PROVE  /\ RowOf[sig] \in DOMAIN Rows /\ Rows[RowOf[sig]] # "CLD"
         /\ Returned(Rows[RowOf[sig]]) = sig
BY SMTT(60) DEF RowOf, Rows, FirstRows, LaterRows, Returned, TARGET

LEMMA RowOfLast ==
  ASSUME NEW sig \in {76, 142} \cup 145 .. 150
  PROVE  \E i \in {38, 53} \cup 47 .. 52 :
           i \in DOMAIN Rows /\ Rows[i] # "CLD" /\ Returned(Rows[i]) = sig
<1> DEFINE i == IF sig = 76 THEN 38 ELSE IF sig = 142 THEN 53 ELSE sig - 98
<1>1. i \in {38, 53} \cup 47 .. 52
  OBVIOUS
<1>2. i \in DOMAIN Rows /\ Rows[i] # "CLD" /\ Returned(Rows[i]) = sig
  BY SMTT(60) DEF Rows, FirstRows, LaterRows, Returned, TARGET
<1> QED BY <1>1, <1>2

\* Every number of the table has a member of the enum, but the three of the
\* entries without a name.
LEMMA Members ==
  ASSUME NEW sig \in 0 .. 151
  PROVE  \/ sig = 0 \/ sig \in {143, 144, 151}
         \/ \E i \in DOMAIN Rows : Rows[i] # "CLD" /\ Returned(Rows[i]) = sig
         \/ \E n \in 32 .. 127 : RealtimeTarget(n) = sig
<1>1. CASE sig \in 1 .. 44
  BY <1>1, RowOfClassic
<1>2. CASE sig \in {76, 142} \cup 145 .. 150
  BY <1>2, RowOfLast
<1>3. CASE sig \in 45 .. 75
  <2>1. sig - 12 \in 33 .. 63 /\ RealtimeTarget(sig - 12) = sig
    BY <1>3 DEF RealtimeTarget, TARGET
  <2> QED BY <2>1
<1>4. CASE sig = 77
  <2>1. RealtimeTarget(32) = sig
    BY <1>4 DEF RealtimeTarget, TARGET
  <2> QED BY <2>1
<1>5. CASE sig \in 78 .. 141
  <2>1. sig - 14 \in 64 .. 127 /\ RealtimeTarget(sig - 14) = sig
    BY <1>5 DEF RealtimeTarget, TARGET
  <2> QED BY <2>1
<1>6. CASE sig \in {0, 143, 144, 151}
  BY <1>6
<1> QED BY <1>1, <1>2, <1>3, <1>4, <1>5, <1>6

\* No row's name is that of an entry without one, or made of a number.
LEMMA RowNamesApart ==
  ASSUME NEW i \in DOMAIN Rows
  PROVE  /\ Spelling(Rows[i]) # "?"
         /\ \A n \in 32 .. 127 : RealtimeName(n) # Spelling(Rows[i])
<1>1. Spelling(Rows[i]) # "?"
  BY SMTT(60) DEF Rows, FirstRows, LaterRows, Spelling
<1>2. DOMAIN ClassicNames = 1 .. 45 /\ DOMAIN LastNames = 1 .. 10
  BY DEF ClassicNames, LastNames
<1> DEFINE sig == Returned(Rows[i])
<1>3. \/ sig \in 1 .. 44 /\ ClassicNames[sig + 1] = Spelling(Rows[i])
      \/ sig = 76 /\ Spelling(Rows[i]) = "CANCEL"
      \/ sig \in {142} \cup 145 .. 150 /\ LastNames[sig - 141] = Spelling(Rows[i])
  BY RowNames
<1> HIDE DEF sig
<1>4. CASE sig \in 1 .. 44 /\ ClassicNames[sig + 1] = Spelling(Rows[i])
  <2>1. sig + 1 \in DOMAIN ClassicNames
    BY <1>2, <1>4
  <2> QED BY <1>1, <1>4, <2>1, RealtimeNamesDiffer, Zenon
<1>5. CASE Spelling(Rows[i]) = "CANCEL"
  BY <1>1, <1>5, RealtimeNamesDiffer, Zenon
<1>6. CASE sig \in {142} \cup 145 .. 150 /\ LastNames[sig - 141] = Spelling(Rows[i])
  <2>1. sig - 141 \in DOMAIN LastNames
    BY <1>2, <1>6
  <2> QED BY <1>1, <1>6, <2>1, RealtimeNamesDiffer, Zenon
<1> QED BY <1>3, <1>4, <1>5, <1>6

LEMMA RealtimeNamed ==
  ASSUME NEW n \in 32 .. 127
  PROVE  RealtimeName(n) # "?"
<1>1. 2 \in DOMAIN LastNames /\ LastNames[2] = "?"
  BY DEF LastNames
<1> QED BY <1>1, RealtimeNamesDiffer, Zenon

\* The three entries without a name have none.
LEMMA Unnamed ==
  ASSUME NEW sig \in {143, 144, 151}
  PROVE  target_signal_to_name(sig) = "?"
<1>1. LastNames[2] = "?" /\ LastNames[3] = "?" /\ LastNames[10] = "?"
  BY DEF LastNames
<1>2. signals[sig + 1] = LastNames[sig - 141]
  BY TableIs
<1>3. LastNames[sig - 141] = "?"
  <2>1. sig - 141 = 2 \/ sig - 141 = 3 \/ sig - 141 = 10
    OBVIOUS
  <2> QED BY <1>1, <2>1
<1>4. sig \in 0 .. TARGET.LAST
  BY DEF TARGET
<1> QED BY <1>2, <1>3, <1>4 DEF target_signal_to_name

\* Members with equal names are equal.
LEMMA NamedOnce ==
  ASSUME NEW sig \in 1 .. 151, NEW other \in 1 .. 151,
         target_signal_to_name(sig) = target_signal_to_name(other),
         target_signal_to_name(sig) # "?"
  PROVE  sig = other
<1>1. ASSUME NEW s \in {sig, other}
      PROVE  \/ \E i \in DOMAIN Rows : Rows[i] # "CLD" /\ Returned(Rows[i]) = s
             \/ \E n \in 32 .. 127 : RealtimeTarget(n) = s
  <2>1. s \notin {143, 144, 151}
    BY Unnamed
  <2>2. s \in 0 .. 151 /\ s # 0
    OBVIOUS
  <2> QED BY <2>1, <2>2, Members
<1>2. CASE \E i \in DOMAIN Rows : Rows[i] # "CLD" /\ Returned(Rows[i]) = sig
  <2>1. PICK i \in DOMAIN Rows : Rows[i] # "CLD" /\ Returned(Rows[i]) = sig
    BY <1>2
  <2>2. target_signal_to_name(sig) = Rows[i] /\ Rows[i] = Spelling(Rows[i])
    BY <2>1, RowRead DEF Spelling
  <2>3. CASE \E j \in DOMAIN Rows : Rows[j] # "CLD" /\ Returned(Rows[j]) = other
    <3>1. PICK j \in DOMAIN Rows : Rows[j] # "CLD" /\ Returned(Rows[j]) = other
      BY <2>3
    <3>2. target_signal_to_name(other) = Rows[j]
      BY <3>1, RowRead DEF Spelling
    <3> QED BY <2>1, <2>2, <3>1, <3>2
  <2>4. CASE \E n \in 32 .. 127 : RealtimeTarget(n) = other
    <3>1. PICK n \in 32 .. 127 : RealtimeTarget(n) = other
      BY <2>4
    <3>2. target_signal_to_name(other) = RealtimeName(n)
      BY <3>1, RealtimeRead
    <3> QED BY <2>2, <3>2, RowNamesApart
  <2> QED BY <1>1, <2>3, <2>4
<1>3. CASE \E n \in 32 .. 127 : RealtimeTarget(n) = sig
  <2>1. PICK n \in 32 .. 127 : RealtimeTarget(n) = sig
    BY <1>3
  <2>2. target_signal_to_name(sig) = RealtimeName(n)
    BY <2>1, RealtimeRead
  <2>3. CASE \E j \in DOMAIN Rows : Rows[j] # "CLD" /\ Returned(Rows[j]) = other
    <3>1. PICK j \in DOMAIN Rows : Rows[j] # "CLD" /\ Returned(Rows[j]) = other
      BY <2>3
    <3>2. target_signal_to_name(other) = Spelling(Rows[j])
      BY <3>1, RowRead
    <3> QED BY <2>2, <3>2, RowNamesApart
  <2>4. CASE \E m \in 32 .. 127 : RealtimeTarget(m) = other
    <3>1. PICK m \in 32 .. 127 : RealtimeTarget(m) = other
      BY <2>4
    <3>2. target_signal_to_name(other) = RealtimeName(m)
      BY <3>1, RealtimeRead
    <3>3. n = m
      BY <2>2, <3>2, RealtimeNamesDiffer, Zenon
    <3> QED BY <2>1, <3>1, <3>3
  <2> QED BY <1>1, <2>3, <2>4
<1> QED BY <1>1, <1>2, <1>3

\* The members of a number are one or none, and the table calls it by the one.
LEMMA MemberNamed ==
  ASSUME NEW sig \in Nat
  PROVE  IF MemberNames(sig) = {} THEN target_signal_to_name(sig) = "?"
         ELSE /\ MemberNames(sig) = {target_signal_to_name(sig)}
              /\ sig \in 0 .. 151 /\ target_signal_to_name(sig) # "?"
<1> DEFINE rows  == {Rows[i] : i \in {i \in DOMAIN Rows : Rows[i] # "CLD" /\ Returned(Rows[i]) = sig}}
           times == {RealtimeName(n) : n \in {n \in 32 .. 127 : RealtimeTarget(n) = sig}}
           zero  == IF sig = 0 THEN {"0"} ELSE {}
<1>1. MemberNames(sig) = rows \cup times \cup zero
  BY DEF MemberNames, TARGET
<1>2. rows # {} => sig \in 1 .. 44 \cup {76, 142} \cup 145 .. 150
  BY RowValues
<1>3. times # {} => sig \in (45 .. 75) \cup (77 .. 141)
  <2> SUFFICES ASSUME times # {} PROVE sig \in (45 .. 75) \cup (77 .. 141)
    OBVIOUS
  <2>1. PICK n \in 32 .. 127 : RealtimeTarget(n) = sig
    OBVIOUS
  <2> QED BY <2>1, RealtimeValues
<1>4. CASE \E i \in DOMAIN Rows : Rows[i] # "CLD" /\ Returned(Rows[i]) = sig
  <2>1. PICK i \in DOMAIN Rows : Rows[i] # "CLD" /\ Returned(Rows[i]) = sig
    BY <1>4
  <2>2. \A j \in DOMAIN Rows : Rows[j] # "CLD" /\ Returned(Rows[j]) = sig => Rows[j] = Rows[i]
    BY <2>1, RowsDistinct
  <2>3. rows = {Rows[i]}
    BY <2>1, <2>2
  <2>4. sig \in 1 .. 44 \cup {76, 142} \cup 145 .. 150 /\ times = {} /\ zero = {}
    <3>1. sig \in 1 .. 44 \cup {76, 142} \cup 145 .. 150
      BY <2>1, RowValues
    <3> HIDE DEF times
    <3> QED BY <3>1, <1>3
  <2>5. target_signal_to_name(sig) = Rows[i] /\ Rows[i] # "?"
    BY <2>1, RowRead, RowNamesApart DEF Spelling
  <2> HIDE DEF rows, times, zero
  <2> QED BY <1>1, <2>3, <2>4, <2>5
<1>5. CASE \E n \in 32 .. 127 : RealtimeTarget(n) = sig
  <2>1. PICK n \in 32 .. 127 : RealtimeTarget(n) = sig
    BY <1>5
  <2>2. times = {RealtimeName(n)}
    BY <2>1, RealtimeDistinct
  <2>3. sig \in (45 .. 75) \cup (77 .. 141) /\ rows = {} /\ zero = {}
    <3>1. sig \in (45 .. 75) \cup (77 .. 141)
      BY <2>1, RealtimeValues
    <3> HIDE DEF rows
    <3> QED BY <3>1, <1>2
  <2>4. target_signal_to_name(sig) = RealtimeName(n) /\ RealtimeName(n) # "?"
    BY <2>1, RealtimeRead, RealtimeNamed
  <2> HIDE DEF rows, times, zero
  <2> QED BY <1>1, <2>2, <2>3, <2>4
<1>6. CASE sig = 0
  <2>1. rows = {} /\ times = {}
    <3> HIDE DEF rows, times
    <3> QED BY <1>2, <1>3, <1>6
  <2>2. zero = {"0"}
    BY <1>6
  <2>3. target_signal_to_name(sig) = "0"
    <3>1. signals[0 + 1] = ClassicNames[0 + 1]
      BY TableIs
    <3>2. ClassicNames[1] = "0"
      BY DEF ClassicNames
    <3> QED BY <1>6, <3>1, <3>2 DEF target_signal_to_name, TARGET
  <2> HIDE DEF rows, times, zero
  <2> QED BY <1>1, <1>6, <2>1, <2>2, <2>3
<1>7. CASE /\ sig # 0
           /\ \A i \in DOMAIN Rows : ~ (Rows[i] # "CLD" /\ Returned(Rows[i]) = sig)
           /\ \A n \in 32 .. 127 : RealtimeTarget(n) # sig
  <2>1. rows = {} /\ times = {} /\ zero = {}
    BY <1>7
  <2>2. sig \notin 0 .. 151 \/ sig \in {143, 144, 151}
    BY <1>7, Members
  <2>3. target_signal_to_name(sig) = "?"
    BY <2>2, Unnamed DEF target_signal_to_name, TARGET
  <2> HIDE DEF rows, times, zero
  <2> QED BY <1>1, <2>1, <2>3
<1> QED BY <1>4, <1>5, <1>6, <1>7

\* The search finds a number again by its name.
LEMMA FoundByName ==
  ASSUME NEW sig \in 1 .. 150, target_signal_to_name(sig) # "?"
  PROVE  target_signal_from_name(target_signal_to_name(sig)) = sig
<1> DEFINE name  == target_signal_to_name(sig)
           named == {s \in TARGET.HUP .. TARGET.LAST - 1 : signals[s + 1] = name /\ name # "?"}
<1>1. TARGET.HUP = 1 /\ TARGET.LAST = 151
  BY DEF TARGET
<1>2. \A s \in 1 .. 150 : signals[s + 1] = target_signal_to_name(s)
  BY <1>1 DEF target_signal_to_name
<1>3. \A s \in 1 .. 150 : target_signal_to_name(s) = name => s = sig
  BY NamedOnce
<1>4. named = {s \in 1 .. 150 : signals[s + 1] = name /\ name # "?"}
  <2> DEFINE numbers == 1 .. 150
  <2>1. TARGET.HUP .. TARGET.LAST - 1 = numbers
    BY <1>1
  <2> HIDE DEF name, numbers
  <2>2. named = {s \in numbers : signals[s + 1] = name /\ name # "?"}
    BY <2>1
  <2> QED BY <2>2 DEF numbers
<1> HIDE DEF name
<1>5. name # "?" /\ name = target_signal_to_name(sig)
  BY DEF name
<1>6. named = {sig}
  BY <1>2, <1>3, <1>4, <1>5
<1>7. target_signal_from_name(name) = CHOOSE s \in named : \A other \in named : s <= other
  <2> HIDE DEF named
  <2>1. target_signal_from_name(name) =
          IF named = {} THEN TARGET.UNKNOWN
          ELSE CHOOSE s \in named : \A other \in named : s <= other
    BY Zenon DEF target_signal_from_name, named
  <2> QED BY <1>6, <2>1
<1>8. (CHOOSE s \in named : \A other \in named : s <= other) = sig
  <2> HIDE DEF named
  <2>1. \E s \in named : \A other \in named : s <= other
    BY <1>6
  <2>2. (CHOOSE s \in named : \A other \in named : s <= other) \in named
    BY <2>1
  <2> QED BY <1>6, <2>2
<1> QED BY <1>7, <1>8 DEF name

-----------------------------------------------------------------------------
\* What target_signal_from_host finds for a signal of the host: a row that
\* compares equal, or the realtime number.
LEMMA FromHostCases ==
  ASSUME NEW hostsig \in HostSignals
  PROVE  \/ \E name \in DOMAIN Host :
              Host[name] = hostsig /\ target_signal_from_host(hostsig) = Returned(name)
         \/ /\ hostsig \in Realtime
            /\ target_signal_from_host(hostsig) = RealtimeTarget(hostsig)
<1>. DEFINE fits == {i \in DOMAIN Rows : Rows[i] \in DOMAIN Host /\ Host[Rows[i]] = hostsig}
            first == CHOOSE i \in fits : \A j \in fits : i <= j
<1>1. hostsig # 0 BY HostAssumption, RealtimeRange DEF HostSignals
<1>2. CASE fits # {}
  <2>1. fits \subseteq Nat BY DEF FirstRows, LaterRows, Rows
  <2>2. \E i \in fits : \A j \in fits : i <= j BY <1>2, <2>1, LeastExists
  <2>3. first \in fits BY <2>2
  <2>4. target_signal_from_host(hostsig) = Returned(Rows[first])
    BY <1>1, <1>2 DEF target_signal_from_host
  <2>5. Rows[first] \in DOMAIN Host /\ Host[Rows[first]] = hostsig BY <2>3
  <2>. QED BY <2>4, <2>5
<1>3. CASE fits = {}
  <2>1. \A name \in DOMAIN Host : Host[name] # hostsig BY <1>3, HostAssumption
  <2>2. hostsig \in Realtime BY <2>1 DEF HostSignals
  <2>3. target_signal_from_host(hostsig) = RealtimeTarget(hostsig)
    BY <1>1, <1>3, <2>2 DEF target_signal_from_host
  <2>. QED BY <2>2, <2>3
<1>. QED BY <1>2, <1>3

\* do_target_signal_to_host undoes target_signal_from_host.
THEOREM RoundTrip ==
  ASSUME NEW hostsig \in HostSignals
  PROVE  target_signal_to_host(target_signal_from_host(hostsig)) = hostsig
<1>. DEFINE oursig == target_signal_from_host(hostsig)
<1>0. hostsig # None BY HostAssumption, RealtimeRange DEF HostSignals, None
<1>1. SUFFICES do_target_signal_to_host(oursig) = hostsig
  BY <1>0 DEF target_signal_to_host, target_signal_to_host_p
<1>2. CASE \E name \in DOMAIN Host : Host[name] = hostsig /\ oursig = Returned(name)
  <2>1. PICK name \in DOMAIN Host : Host[name] = hostsig /\ oursig = Returned(name) BY <1>2
  <2>2. PICK i \in DOMAIN Rows : Rows[i] = name BY HostAssumption
  <2>3. oursig # TARGET.SIGNAL_0 BY <2>1, <2>2, RowValues DEF TARGET
  <2>4. name \in Cases(oursig) BY <2>1, <2>2 DEF Cases
  <2>. DEFINE case == CHOOSE other \in Cases(oursig) : TRUE
  <2>5. case \in Cases(oursig) BY <2>4
  <2>6. Host[case] = hostsig BY <2>1, <2>5, CaseUnique DEF Cases
  <2>. QED BY <2>3, <2>4, <2>6 DEF do_target_signal_to_host
<1>3. CASE hostsig \in Realtime /\ oursig = RealtimeTarget(hostsig)
  <2>1. oursig \in (45 .. 75) \cup (77 .. 141) BY <1>3, RealtimeRange, RealtimeValues
  <2>2. Cases(oursig) = {} BY <2>1, RowValues DEF Cases
  <2>3. RealtimeSignals(oursig) = {hostsig}
    BY <1>3, RealtimeRange, RealtimeDistinct DEF RealtimeSignals
  <2>4. oursig # TARGET.SIGNAL_0 BY <2>1 DEF TARGET
  <2>. QED BY <2>2, <2>3, <2>4 DEF do_target_signal_to_host
<1>. QED BY <1>2, <1>3, FromHostCases

\* The reply's two hex digits have room for every number, that of an exit
\* status included (prepare_resume_reply).
LEMMA FromHostFits ==
  ASSUME NEW hostsig PROVE target_signal_from_host(hostsig) \in 0 .. 255
<1>. DEFINE fits == {i \in DOMAIN Rows : Rows[i] \in DOMAIN Host /\ Host[Rows[i]] = hostsig}
            first == CHOOSE i \in fits : \A j \in fits : i <= j
<1>1. CASE hostsig # 0 /\ fits # {}
  <2>1. fits \subseteq Nat BY DEF FirstRows, LaterRows, Rows
  <2>2. \E i \in fits : \A j \in fits : i <= j BY <1>1, <2>1, LeastExists
  <2>3. first \in fits BY <2>2
  <2>4. target_signal_from_host(hostsig) = Returned(Rows[first])
    BY <1>1 DEF target_signal_from_host
  <2>. QED BY <2>3, <2>4, RowValues
<1>2. CASE hostsig # 0 /\ fits = {} /\ hostsig \in Realtime
  <2>1. target_signal_from_host(hostsig) = RealtimeTarget(hostsig)
    BY <1>2 DEF target_signal_from_host
  <2>. QED BY <1>2, <2>1, RealtimeRange, RealtimeValues
<1>3. CASE hostsig = 0
  BY <1>3 DEF target_signal_from_host, TARGET
<1>4. CASE hostsig # 0 /\ fits = {} /\ hostsig \notin Realtime
  <2>1. target_signal_from_host(hostsig) = TARGET.UNKNOWN BY <1>4 DEF target_signal_from_host
  <2>. QED BY <2>1 DEF TARGET
<1>. QED BY <1>1, <1>2, <1>3, <1>4

\* What target_signal_to_host passes on is a signal of the host or none.
LEMMA ToHostType == ASSUME NEW oursig PROVE target_signal_to_host(oursig) \in {0} \cup HostSignals
<1>. DEFINE case == CHOOSE name \in Cases(oursig) : TRUE
            event == CHOOSE n \in RealtimeSignals(oursig) : TRUE
<1>1. Cases(oursig) # {} => Host[case] \in HostSignals BY DEF Cases, HostSignals
<1>2. RealtimeSignals(oursig) # {} => event \in HostSignals BY DEF HostSignals, RealtimeSignals
<1>3. do_target_signal_to_host(oursig) \in {0, None} \cup HostSignals
  BY <1>1, <1>2 DEF do_target_signal_to_host
<1>. QED BY <1>3 DEF target_signal_to_host, target_signal_to_host_p

-----------------------------------------------------------------------------
\* prepare_resume_reply keeps the reply the translation of the report.
LEMMA ReplyTranslates ==
  ASSUME NEW sig, PrepareResumeReply(sig)
  PROVE  reply' \in 0 .. 255 /\ reply' = target_signal_from_host(sig)
BY FromHostFits DEF PrepareResumeReply

\* Inv is kept by every handler (?, C, vCont) and every stop.
THEOREM SignalsInv == Spec => []Inv
<1>1. Init => Inv
  BY HostAssumption DEF Init, Inv, TypeOK, HostSignals, None
<1>2. Inv /\ [Next]_vars => Inv'
  <2>. SUFFICES ASSUME Inv, [Next]_vars PROVE Inv' OBVIOUS
  <2>1. CASE HandleQuestion
    BY <2>1, ReplyTranslates DEF HandleQuestion, Inv, TypeOK
  <2>2. CASE \E number \in 0 .. MaxNumber : HandleC(number)
    BY <2>2, ToHostType DEF HandleC, Inv, TypeOK
  <2>3. CASE \E number \in 0 .. MaxNumber : HandleVCont(number)
    BY <2>3, ToHostType DEF HandleVCont, Inv, TypeOK
  <2>4. CASE DarwinWait
    <3>1. PICK report \in Reports : /\ status' = report.status /\ signo' = report.signo
                                    /\ PrepareResumeReply(report.signo)
      BY <2>4 DEF DarwinWait
    <3>2. /\ status' \in {"T", "X", "W"} /\ signo' \in HostSignals \cup Exits
          /\ status' # "W" => signo' \in HostSignals
      BY <3>1 DEF Reports
    <3>3. request' = None /\ passed' = 0 BY <2>4 DEF DarwinWait
    <3>. QED BY <3>1, <3>2, <3>3, ReplyTranslates DEF Inv, TypeOK
  <2>5. CASE UNCHANGED vars BY <2>5 DEF vars, Inv, TypeOK
  <2>. QED BY <2>1, <2>2, <2>3, <2>4, <2>5 DEF Next
<1>. QED BY <1>1, <1>2, PTL DEF Spec

\* Types of what the stub remembers of a signal, for any host.
THEOREM SignalsType == Spec => []TypeOK
<1>1. Inv => TypeOK BY DEF Inv
<1>. QED BY <1>1, SignalsInv, PTL

\* The run's PassedBack on every host, realtime signals and aliases included:
\* C or vCont with the number of the stop reply gives ptrace the signal that
\* waitpid reported.
THEOREM SignalsPassedBack == Spec => []PassedBack
<1>1. Inv => PassedBack
  <2>. SUFFICES ASSUME Inv, request # None, request = reply PROVE passed = signo
    BY DEF PassedBack
  <2>1. signo \in HostSignals /\ passed = target_signal_to_host(target_signal_from_host(signo))
    BY DEF Inv
  <2>. QED BY <2>1, RoundTrip
<1>. QED BY <1>1, SignalsInv, PTL

\* A signal makes it from waitpid to the debugger's screen intact, on every
\* host.
THEOREM SignalsIntact == Spec => []SignalIntact
<1>1. Inv => SignalIntact
  <2> SUFFICES ASSUME Inv, status \in {"T", "X"}, reply # None
               PROVE  target_signal_to_name(reply) \in NamesOf(signo)
    BY DEF SignalIntact
  <2>1. signo \in HostSignals /\ reply = target_signal_from_host(signo)
    BY DEF Inv
  <2>2. CASE \E name \in DOMAIN Host : Host[name] = signo /\ reply = Returned(name)
    <3>1. PICK name \in DOMAIN Host : Host[name] = signo /\ reply = Returned(name)
      BY <2>2
    <3>2. PICK i \in DOMAIN Rows : Rows[i] = name
      BY HostAssumption
    <3>3. target_signal_to_name(reply) = Spelling(name)
      BY <3>1, <3>2, RowRead
    <3> QED BY <3>1, <3>3 DEF NamesOf, Spelling
  <2>3. CASE signo \in Realtime /\ reply = RealtimeTarget(signo)
    BY <2>3, RealtimeRange, RealtimeRead DEF NamesOf
  <2> QED BY <2>1, <2>2, <2>3, FromHostCases
<1> QED BY <1>1, SignalsInv, PTL

\* What the debugger's number passes on is a signal of that name, or none.
THEOREM NeverAnotherPassed == Spec => []NeverAnother
<1>1. Inv => NeverAnother
  <2> SUFFICES ASSUME Inv, request # None, passed # 0
               PROVE  target_signal_to_name(request) \in NamesOf(passed)
    BY DEF NeverAnother
  <2>1. passed = do_target_signal_to_host(request) /\ passed # None
    BY DEF Inv, target_signal_to_host, target_signal_to_host_p
  <2>2. CASE Cases(request) # {}
    <3>1. PICK name \in Cases(request) : passed = Host[name]
      BY <2>1, <2>2 DEF do_target_signal_to_host
    <3>2. PICK i \in DOMAIN Rows : Rows[i] = name /\ Returned(name) = request
      BY <3>1 DEF Cases
    <3>3. target_signal_to_name(request) = Spelling(name)
      BY <3>2, RowRead
    <3>4. name \in DOMAIN Host
      BY DEF Cases
    <3> QED BY <3>1, <3>3, <3>4 DEF NamesOf, Spelling
  <2>3. CASE Cases(request) = {}
    <3>1. PICK n \in RealtimeSignals(request) : passed = n
      BY <2>1, <2>3 DEF do_target_signal_to_host
    <3>2. n \in Realtime /\ RealtimeTarget(n) = request
      BY DEF RealtimeSignals
    <3> QED BY <3>1, <3>2, RealtimeRange, RealtimeRead DEF NamesOf
  <2> QED BY <2>2, <2>3
<1> QED BY <1>1, SignalsInv, PTL

\* The table matches the enum in order and size, for every number the debugger
\* may send: what it calls one is the enum's member, and the search by that name
\* finds the number again.
THEOREM TableMatches == Spec => []NamesMatch
<1>1. Inv => NamesMatch
  <2> SUFFICES ASSUME Inv, request # None PROVE NamesMatch
    BY DEF NamesMatch
  <2>1. request \in Nat
    BY HostAssumption DEF Inv, TypeOK
  <2>2. CASE MemberNames(request) = {}
    BY <2>1, <2>2, MemberNamed DEF NamesMatch
  <2>3. CASE MemberNames(request) # {}
    <3>1. /\ MemberNames(request) = {target_signal_to_name(request)}
          /\ request \in 0 .. 151 /\ target_signal_to_name(request) # "?"
      BY <2>1, <2>3, MemberNamed
    <3>2. request # 151
      BY <3>1, Unnamed
    <3>3. request # 0 =>
            target_signal_from_name(target_signal_to_name(request)) = request
      BY <3>1, <3>2, FoundByName
    <3> QED BY <2>3, <3>1, <3>3 DEF NamesMatch, TARGET
  <2> QED BY <2>2, <2>3
<1> QED BY <1>1, SignalsInv, PTL
=============================================================================
