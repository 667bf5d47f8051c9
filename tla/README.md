# A TLA+ development of osxgdbserver

osxgdbserver is a GDB remote server for Mac OS X on PowerPC: a single-threaded
process that talks the GDB remote protocol to a debugger and controls one
program through Mach and `ptrace`. This directory models it, model-checks the
models with TLC and proves theorems about them with TLAPS. Paths are relative
to the repository (`src/server.c` is its `src/src/server.c` in `PROJECT.json`,
which maps every definition to the lines it stands for).

## The system

The stub is one thread. `main` starts or attaches to the inferior, runs a new
program to its entry point, accepts a connection and enters `packet_loop`: read
a packet, handle it, send the reply, exit if the inferior is gone. Handlers
share one buffer (`own_buf`), which holds the request and then the reply. The
concurrency is outside: the debugger sends at any time, the inferior runs
between a resume and the `waitpid` that ends it, the kernel may refuse a call,
and the line may lose what it carries.

| component | state | operations | what is hard | what makes it correct |
|---|---|---|---|---|
| memory and software breakpoints (`mem-break.c`, `target.c`, memory half of `darwin-low.c`) | list of traps with the bytes they hide; inferior memory | Z0, z0, m, M; ptrace word by word when Mach refuses | ranges that overlap traps, refused words, several traps on one place | the debugger sees the program, never a trap; every trap stays armed; lifting restores |
| register cache (`regcache.c`, `darwin-ppc-low.c`, `reg-ppc.c`) | copy of the registers, valid flag | g, G, p, P, ?, resume, D, k | lazy fetch, late write-back, refused kernel calls | reads see what the debugger wrote; the program runs on with it; one snapshot from stop to stop |
| packet layer (`remote-utils.c`, `packet_loop`) | read-ahead buffer, mode of acknowledgement | getpkt, putpkt, no-ack mode, ^C, end of file | retransmission on both sides, reads that bypass the buffer, `error()` jumping out | replies match commands, nothing runs twice, nobody waits for ever |
| resumption requests (`handle_v_cont`, `myresume`, `darwin_resume`) | selected threads, action array | H, c, s, C, S, vCont | leftovers of earlier packets, slots reused, errors in mid-parse | the program gets the step and signal asked for, or nothing |
| step-over API (`mem-break.c:124-217`) | `reinserting`, reinsert breakpoints | uninsert, reinsert, check | nothing calls it | a lifted trap comes back |
| inferior list (`inferiors.c`) | list of threads, `current_inferior` | add, clear, find, select (H) | a pointer that outlives its thread | nothing looks at a freed thread; a packet is about the thread it names |
| signal numbers (`signals.c`) | none | two conversions, two searches by name | numbers that agree for most signals only, an enum out of order | a signal keeps its identity from `waitpid` to the debugger and back to `ptrace` |
| start, attach, exit (`darwin-low.c`, `server.c`) | status, life of the process, connection | create, attach, run to entry, detach, kill, exit | a program that dies on the way, a ^C that races a stop, a debugger that hangs up | a program let go is clean; its end is told; the stub ends |
| queries, Mach-O reading, symbols, logging | none | text | - | - |

Interaction: the packet layer hands one command at a time to a handler;
handlers of memory and registers work while the inferior is stopped; a resume
writes the cache back, makes one `ptrace` request and blocks; the stop it
returns becomes the reply and refills the cache for its expedited registers.

## Modules

| module | models | checked by | proved in |
|---|---|---|---|
| `BreakpointOps` | raw memory access with partial failure, and shadowing, as operators | `MemBreak`, `ShadowLoop` | |
| `MemBreak` | the list, memory and the Z, z, m, M handlers | `MCMemBreak` | `MemBreakProofs` |
| `ShadowMemory` | abstract: a program's memory and a set of armed instructions | refined by `MemBreak` | `MemBreakProofs` |
| `ShadowLoop` | the loops of `check_mem_read` and `check_mem_write`, with their offsets | `MCShadowLoop` | `ShadowLoopProofs` |
| `RegCache` | the register cache and the packets around it | `MCRegCache` | `RegCacheProofs` |
| `ResumePlan` | resume packets, vCont's parse, `darwin_resume` | `MCResumePlan` | `ResumePlanProofs` |
| `Signals` | the signal tables, and a signal's way to the debugger and back | `MCSignals` | `SignalsProofs` |
| `RemoteLink` | getpkt, putpkt, readchar, the loop, a GDB-like debugger, the line | `MCRemoteLink` | `RemoteLinkProofs` |
| `Session` | start or attachment, run to entry, `packet_loop`, the ways out, the life of the process, its traps, ^C | `MCSession` | `SessionProofs` |
| `SequenceLemmas` | nothing: facts about sequences the proofs share | | itself |

**Memory.** A handler is one step: the stub is sequential and the inferior is
stopped. A buffer is a function from the addresses it covers to bytes, so
`buf + (start - mem_addr)` is an application. Where the C code loops over the
breakpoint list, `BreakpointOps` says what the loop leaves behind in closed
form: for each byte the last breakpoint over it decides what is read or
written, and the first one over it saves the debugger's byte. `ShadowLoop` runs
the loops one breakpoint at a time, with `copy_len`, `copy_offset` and
`buf_offset` as the code computes them, and checks that every prefix of the
list yields the closed form. Mach's calls take a range whole or not at all; the
`ptrace` fallback goes word by word, so a failing `M` may change a prefix. The
mapped memory is fixed and writable (`vm_protect` is the kernel's affair);
addresses do not wrap, `CORE_ADDR` being 64 bits wide (`include/server.h:61`).
Refused words are those that are not mapped.

**Registers.** Three history variables say what the debugger may expect. `view`
is what it must take the registers to be, from the last stop and the writes it
was told OK for. `doubtful` holds the registers of which that cannot be said: the
kernel refused to move their bank (integer or float state), or a G reached them
and got no answer. A bad hex digit makes `fromhex` call `error()` after the digits
before it have gone into the cache (`regcache.c:160`); the debugger cannot know
how many, and an acknowledged write ends the doubt. `told` is what it has been
told since the last stop. `Coherent`, `RepliesTruthful` and `ResumesWithView`
speak of the registers not in doubt, and so say that a refusal or a broken-off
packet spreads to no others; `OneSnapshot` speaks of all of them. Registers are
names; offsets and hex are left out, but for whether the digits are good.

**Resume.** A vCont packet is a sequence of actions; letters, signals and
thread ids the parse rejects are `"?"` and `Bad`. Text between actions that the
parser skips over is left out. Signals are host signals: the translation is
`Signals`'.

**Signals.** A host is what its `<signal.h>` defines: a function from the names
of the macros to numbers, and a set of realtime numbers. The rows of
`target_signal_from_host` are a sequence in the code's order (the first
comparison that succeeds decides, and `SIGCLD` comes before `SIGCHLD`); the
switch of `do_target_signal_to_host` yields the number of the case that has the
signal's value; realtime numbers go through the three ranges the code tests. The
table of names is the code's, entry by entry, so that the enum's odd places (32
after 63 and CANCEL) are where they are. A stop is a number from `waitpid`, its
reply two hex digits, C and vCont a number from the debugger.

**Packet layer.** A packet is two tokens, so that a reader can stop in the
middle of one and a lost `#` swallows the next packet. A real packet has more
characters, of which each one read by `putpkt` in search of an ack causes a
retransmission: the model has one per token. A packet without a body is good, is
acknowledged and ends `packet_loop`, for which `getpkt` returned 0. The debugger
is modelled as GDB behaves: one command at a time, a reply that turns up while it
waits for an ack is acknowledged and dropped, a timeout when the line is silent.
What `write` sends to a connection the debugger has closed is lost or refused.

**Session.** This is the composition: what `packet_loop`, the memory, the
resume and the connection do to one another over the life of a process, each
reduced to what the others see of it. The program is straight-line code, of
which some instructions are `dyld`'s; it may fault at any of them, be killed
from outside at any time, and die between the stop `waitpid` reports and the
Mach call that follows. Memory is one content per instruction (`MemBreak` has
the ranges), a packet is one token (`RemoteLink` has the pieces), and the link
is reliable. `server` says where in `main` the stub is: each blocking call is a
place of its own, and `error()` leads to `exit(1)` before `packet_loop` and back
to the loop without a reply inside it. When the stub is gone the kernel kills
what it traced. On TCP `remote_open` greets the debugger with a `+`, which it takes
for an ack; a socket, port or connection that is refused ends the stub. `planted`
is the debugger's own account of its breakpoints, kept from what it asked for: it
is what makes a D polite and a SIGTRAP explained, so that a trap only the stub
knows of (that of `run_to_entry_point`) counts against both properties.
`current_inferior` is a state of its own because
`clear_inferiors` frees what it points to and does not reset it.
`extended_protocol` is never set in the source, so `R` and the restarts after
`k` and a termination are dead code and left out.

Definitions headed "Fault for the run to find" are plausible bugs; no
specification uses them. `PROJECT.json` pairs each property with the one that
must violate it when it replaces the code's definition.

## Runs

| run | question | result |
|---|---|---|
| `memory_shadow` | Does the list with the memory implement `ShadowMemory`, traps always armed? | yes, with one trap per location |
| `memory_duplicates` | Does deleting a breakpoint restore the instruction (`mem-break.h:34`), for any debugger? | no: two Z0 at one place and then an M leave trap bytes |
| `shadow_loops` | Do the loops stay in bounds and compute the closed forms, for any list? | yes |
| `registers` | Do cache, thread and debugger agree through reads, writes, refusals, `error()` and resumes, and are replies one snapshot? | yes, but for registers refused or written without an answer, and if the debugger asks before its first P |
| `resume_plan` | Does `ptrace` get the step and signal asked for, whatever was selected before? | yes, for packets in GDB's form |
| `link_tcp` | On a reliable line, with ^C, no-ack mode, empty packets and hang-up at any time: do replies match, commands run once, sessions end? | yes |
| `link_serial` | On a noisy line: does every reply get through? | yes, if no ^C is typed |
| `link_interrupt` | Does a ^C stop a running program (`remote-utils.c:432`)? | no |
| `link_noack` | Is the OK to QStartNoAckMode acknowledged (`server.c:260`)? | no |
| `session` | From launch or attachment to exit: is a program let go clean by a debugger that lifts its own breakpoints, is every SIGTRAP one it can account for, does a ^C stop it once, is its end told, does the stub end? | yes |
| `session_entry` | Is the program at its entry point when the debugger connects (`server.c:885`)? | no: any first stop is taken for it |
| `signals` | Does a signal keep its name and number on the way to the debugger and back? | yes, on Mac OS X |

Three assumptions about the debugger are named operators of the modules:
`OnePerLocation` (no second Z0 at an address), `AskedFirst` (no P before a stop
reply or a read has filled the cache) and `GdbForm` (an action without a thread
ends the packet). GDB keeps all three and the code enforces none.
`memory_duplicates` shows what happens without the first; without the second a
P is lost, without the third an action that follows the default takes its place.
`Session`'s debugger is `Polite`: one breakpoint per location, its breakpoints
lifted before it detaches, by its own account of them, and ^C only while it waits
for a stop.

Things the code does that no property speaks about are listed as hazards in
`PROJECT.json`. No line of the repository says otherwise of these: an exit status
goes through the signal table (`exit(29)` is told as 142, anything above 31 as
143), `D` does not write the register cache back, a P before the first fetch is
lost, a register the kernel refuses is reported with what the cache holds, a
reply is lost when the process is killed while `darwin_wait` asks for its threads,
and the SIGINT of a ^C that `putpkt` reads may stop the program late. One thing
a line does contradict: `include/target.h:36` says of `leave_stopped` "If
non-zero, leave this thread stopped", and `darwin_resume` never reads it. Only a
vCont that names no thread of the program would show it, for which `OrderAsAsked`
claims nothing.

`link_serial` types no ^C. With one, `RepliesDelivered` fails: a ^C that races a
stop is taken by `putpkt` for a missing ack, the reply goes out twice, its
second ack answers the next reply before the debugger has it, and if the line
then loses that reply nobody repeats it. The property is not claimed by any
document, so this is recorded as a hazard and no finding.

### Bounds

* `memory_shadow`: two-byte traps and words, two adjacent instructions, one data
  byte, one unmapped instruction, ranges of up to three bytes, binary memory.
  Ranges start, end and fail in every position relative to a trap and a word;
  traps adjoin; the trap differs in its two bytes, so a swapped offset shows.
  The list can be full (three breakpoints).
* `shadow_loops`: lists of up to three breakpoints at any of seven addresses,
  overlapping and duplicate ones included, ranges of up to five bytes and the
  empty one, bytes named after their origin.
* `registers`: two integer registers, one expedited, one float, two values. Each
  bank can be refused alone; G can stop short, or break off at a bad digit, within
  and between banks. 777,000 states.
* `resume_plan`: one thread (the stub has one), ids that match, do not match or
  mean all, two actions: a specific one before and after a foreign one and
  before the default.
* `link_tcp`: four commands of any kind, three ^C. `link_serial`: three commands
  and three disturbed tokens, enough to lose a command, its ack, the reply or
  the ack of the reply and then a retransmission of it. Interrupts, commands and
  noise are counted in guards; queues need no bound. A debugger that times out
  does so with the line empty and the stub blocked in `read`: a timeout with a
  reply on its way, or while the program runs, is not explored.
* `session`: three instructions, `dyld`'s first, the entry point and one more;
  the debugger's breakpoint is at the entry point, where the stub's own was, and
  two ^C, so that one can race a stop while another is pending. 875,000 states;
  with the entry point and `dyld`'s instruction both as sites (3.3 million) the
  safety properties hold as well.
* `signals`: Darwin's 31 signals; numbers up to 160, past the end of the enum;
  exit statuses 0, 29, 42 and 255: one that is a signal's number, one the tables
  do not know, and the ends of a byte.

`CHECK_DEADLOCK FALSE` appears where the system stops: the loop ends, the stub
exits, the session's commands are used up.

### Fairness

In `RemoteLink` the stub's steps are weakly fair: one thread that blocks in
`read` and `waitpid` only. `InferiorStops` is weakly fair under `EndsAlone`, an
assumption about the program being debugged, dropped in `link_interrupt`, where
only a signal stops it. The debugger reads what arrives and does not wait in
silence for ever. Sending, hanging up, ^C and noise are not fair. An answered
command, an abandoned one and a closed session all satisfy `NeverStuck`;
`RepliesDelivered` says which may be abandoned.

In `Session` the stub, the debugger's reading, the delivery of a pending signal
and the program's execution are weakly fair. The program has no loop, so it
comes to its end if nobody stops it; that is the assumption under which
`EndTold` (the debugger learns of an end it waits for, and the stub exits) and
`DetachEnds` (the stub exits after D, whether or not the program was gone by then)
are claimed. Nothing obliges the
debugger to send, to connect or to hang up.

## Proofs

All theorems are for every value of the constants that satisfies the named
assumptions, which TLC evaluates in each run. Each safety invariant and each
action property that a passing run checks is stated by one, the replies on a
noisy line excepted (see "Only model-checked").

`SequenceLemmas` holds what the proofs about lists and queues keep needing: which
element is where after one is removed, pushed, appended or read, after one queue
is put behind another, and that moving positions leaves their number alone.

### Memory

`MemBreakProofs` proves, for all memory layouts, instruction sets, word and trap
lengths and traps that satisfy the named assumptions of `BreakpointOps` and
`MemBreak`:

* `InvInductive`: `Spec => []IInv`;
* `TypeCorrect`: `Spec => []TypeOK`;
* `TrapsStayArmed`: `Spec => []TrapsArmed`.

`TrapsArmed` is not inductive alone: two breakpoints at one location would make
a deletion write saved bytes over a trap another record stands for, so `IInv`
adds that locations are distinct and that a Z0 under way names a free one
(`OnePerLocation` establishes it on receipt). The arithmetic rests on
`InsnAssumption`: instructions are aligned, so spans of different breakpoints
are disjoint and a span is mapped whole or not at all. From disjointness a byte
has at most one breakpoint over it (`CoveringUnique`), which makes the `CHOOSE`
of the closed forms that breakpoint; there is one lemma per handler, and the
theorem adds them up. A range that is mapped whole is accepted whole
(`WriteMemoryMapped`), which is why planting and lifting succeed where it
matters, and a partly refused M writes trap bytes wherever it touches a trap.

The same module proves `MemBreakImplementsShadow`: `Spec =>
ImplementsShadow`, the refinement `memory_shadow` checks. What the debugger may
see of a byte is the saved one under a breakpoint and memory's elsewhere
(`ViewBytes`); each handler has a lemma that says what it does to that view.
Z0 and z0 change nothing in it, m reads it, and M changes it where Mach or
`ptrace` accepts the bytes and under every trap the range touches, also when the
write fails: `ShadowMemory` permits exactly that of a failing write, and
`IInv` supplies the rest.

`ShadowLoopProofs` proves that the loops of `check_mem_read` and
`check_mem_write` compute the closed forms all of this is built on, with no
assumption about the list: breakpoints may overlap and repeat.

* `LoopsAgree`: `Spec => []LoopAgrees`;
* `CopiesInBounds`: `Spec => []CopyInBounds`, for any range, the empty one
  included, and any trap length;
* `LoopTyped`: `Spec => []TypeOK`.

The induction over the list is the one over the loop's steps: the invariant
states the closed form of the part already walked, and `OneMore` says what one
breakpoint more at the end of a list changes in it. `LastCovering` is a `CHOOSE`
of a greatest element, which exists because lists are finite
(`GreatestExists`). `CopiesOverlap` is the arithmetic: the offsets name just the
bytes that breakpoint and range have in common, and map one to the other.

### Registers

`RegCacheProofs` proves, for any register file split into two banks, any values
and any order of a `g` packet (`RegAssumption`), of a debugger that asks for the
registers before it writes a single one (`Spec`):

* `RegCacheInv`: `Spec => []Inv`, typed and all of the run's invariants;
* `RegCacheType`, `CacheCoherent`, `TruthfulReplies`: each of them;
* `SnapshotIsOne`: `Spec => OneSnapshot`, and `ResumedWithView`:
  `Spec => ResumesWithView`.

`Inv` adds four facts to the run's invariants. A running inferior, or one that has
just stopped, has no valid cache (`InvalidWhileRunning`), and its thread is what the
debugger will be told (`StopIsView`), which `DarwinWait` needs to refill the cache.
A `P` being handled finds a valid cache (`WritesFindCache`): without it the write
would land in a cache a later fetch overwrites. What the debugger has been told is
still in a valid cache (`ToldIsCached`), which is what `OneSnapshot` rests on.

### Resumption

`ResumePlanProofs` proves, for any threads, signals and packets, vCont lists of
any length among them: `OrderIsAsked`, `ErrorsNeverResume`, `ArrayStaysClosed`
and `ResumeType`. The inductive invariant relates the array being built to the
prefix of the packet already parsed (`Parsed`: no error in it, each action in
its slot unless it became the default), says what that comes to when the parse
ends (`Closed`) and what `myresume` makes of c, s, C and S (`Made`), and that the
request `ptrace` got is that of the first entry that fits the current thread
(`Ordered`).

### Signals

`SignalsProofs` proves `RoundTrip` (`target_signal_to_host` undoes
`target_signal_from_host`) and the run's invariants, `SignalsType`,
`SignalsPassedBack`, `SignalsIntact`, `NeverAnotherPassed` and `TableMatches`,
for every host under `HostAssumption`: each of its macros has a row and a
positive number, `SIGCLD` and `SIGCHLD` are one number where both exist, and
realtime numbers lie between 32 and 127. Other macros may share a number: the
first row with it decides. That no two rows return one value (`RowsDistinct`) is
checked by the solver over the whole table; the row that decides is the least of
those that match.

The inductive invariant says that the number reported is one of the host's
unless the program exited, and that what was replied and passed on are its
conversions. Names come in through the table: it is five
runs one behind the other (`TableIs`), and lemmas about each part say what its
rows are called (`RowOfClassic`, `RealtimeRead`, `RowOfLast`). `NamedOnce` and
`MemberNamed` say that a name the enum gives a number is the one in its row,
and `FoundByName` that the search by name, which takes the first row that
matches, comes back to it, since no row before it can carry the same name
(`RowNamesApart`).

The provers cannot compute a string out of a number, so one fact about such
strings is an assumption: `RealtimeNamesDiffer` says that `SIG32` to `SIG127` all
differ, from each other and from the names that are written out. It has
no constant in it; TLC evaluates it in full in the run.

### Packet layer

`RemoteLinkProofs` proves, for any set of commands, any number of them, any
number of ^C, with and without a greeting and hang-ups:

* `RemoteLinkInv`: `Spec => []Inv`, and `RemoteLinkType`: `Spec => []TypeOK`, on
  any line;
* `AnswersMatchUntilNoise`: `Spec => [](noise = 0 => AnswersMatch)`, on any line;
* `AnswersAlwaysMatch`, `CommandsCarriedOutOnce` and `AnswersArrive`: the run's
  `AnswersMatch`, `AtMostOnce` and `RepliesDelivered` where `MaxNoise = 0`, that
  is on TCP, the one line on which the run checks the first two.

The invariant describes all that is under way while nothing has been lost, the
two queues, `readchar`'s buffer and the packet `getpkt` is in the middle of,
taken together:

* `OnePacket`: at most one command is on its way, in one piece, and it is the
  debugger's present one;
* `InTurn`: the last command the stub read is that one or an older one, according
  to whether it is still on its way;
* `AckFirst`: while `putpkt` waits, an ack lies before any command. Without this
  it would read the command's `$` and `#` as failed acks and the command would be
  gone;
* `InStep`: commands are handled while the debugger waits for them;
* `Outgoing`: no reply is to a command yet to come, an answer to the present one
  comes behind the ack of it, and what a waiting debugger finds are
  answers to the present command, so that those `putpkt` repeats meet a debugger
  that still waits for an ack and drops them;
* `Owed`: what the debugger waits for is on its way once the stub has sent it;
* `NoAckMode`: the sides differ in mode only while the OK to `QStartNoAckMode` is
  on its way.

They are inductive only together: that `putpkt` finds its ack needs
that the debugger sends nothing before its reply, which needs that the reply it
takes is the present one. ^C is the disturbance that remains: `putpkt` takes it for
a missing ack and repeats its reply, and the invariant is what says that the
copies are harmless on a line that keeps its order. Its conjuncts were checked with
TLC on the constants of `link_tcp` before they were proved.

### Session

`SessionProofs` proves, for any program, entry point, set of breakpoint sites and
number of ^C (`SessionAssumption`), launched or attached to:

* `SessionInv`: `Spec => []Inv`;
* `SessionType`, `DetachedIsClean`, `TrapsAreExplained`, `StatusIsTruthful`,
  `InterruptsStopOnce`, `FreedNotUsed`: the run's safety invariants.

They hold up each other, so there is one invariant for all. `TrapsListed`
accounts for every trap in memory: as long as there is a process its traps are
those of the list, one each, with the instruction saved; before the run to the
entry point the list is empty, and during it the entry point is all it holds.
`ListsAgree` relates the list to what the debugger takes itself to have planted:
they are equal, but for the request on its way. It says that the stub's own
breakpoint is gone by the time a debugger is there, and together the two give what
`D`, which lifts nothing, relies on, and what explains a SIGTRAP. `ListsAgree` needs
that the debugger has one request under way at a time (`OneRequest`) and that
`putpkt` never takes one for an ack (`AckAhead`). The greeting makes this harder: a
debugger that takes it for the ack of its first request goes on to wait for a
reply while that request is still unread, and the ack of the request is then one
too many. `GreetedFirst` says that this can be the first request only, `Acks` that
no more than these two are under way, and `Awaited` that what a waiting debugger
finds ahead of its reply are acks. `Waits` relates the place
the stub is at to the life of the process (it works only on one that has stopped,
died or been let go), from which `StatusKept` follows across the waits that fail.
`FreedLast` is the argument about `current_inferior`: after `clear_inferiors` only
the end of `D` is left, and no ^C can be on the line then, because the debugger
types one only while it waits for a stop, so that one behind a request is behind a
resumption (`NoneBehind`). `InterruptsOnce` counts the ^C on the line, of which reading a
token takes one at most and none if it is another token (`ShiftCounts`).

### Only model-checked

* Liveness, which is out of TLAPS's reach: `NeverStuck`, `EndsOnHangUp`,
  `EndTold`, `DetachEnds`.
* `RepliesDelivered` on a noisy line without ^C (`link_serial`). The invariant
  above holds only until something is lost; the noisy one would have to count the
  copies of a command, of its acks and of its reply that retransmission leaves on
  the line, and to exclude the greeting and ^C, with which the property is false.

## Plan

Done: memory, registers, resumption, packet layer, signals, the session, each
with its safety invariants proved; `MemBreak` proved to implement `ShadowMemory`,
and the loops to compute its closed forms.

Left: `RepliesDelivered` as a theorem for a noisy line, for a debugger that sends
neither ^C nor kill nor asks for no-ack mode. At most one ack or end of a packet
would be under way while the debugger waits for an ack and none otherwise, with
the acks that a repeated reply draws bounded in the same way.

## Not modelled

* The step-over half of `mem-break.c` (`uninsert_breakpoint`,
  `reinsert_breakpoint`, `reinsert_breakpoint_by_bp`, `check_breakpoints`):
  nothing calls it, so no state of the stub depends on it.
* `remove_thread`, `remove_inferior`, `change_inferior_id`, `find_inferior`:
  called by nothing. The list never has more than the one thread the stub makes.
* The restart paths: `extended_protocol` is never set.
* Query contents, target description text, Mach-O parsing and symbol lookup
  (text and file reading without state), argument parsing and logging.
* Buffer framing limits (constants), a hazard without a property.
* Conditional breakpoints, which the repository's README describes and the
  source does not have.

Code outside the repository (the debugger, the program, the kernel, the line) is
modelled from how the code uses it and marked external in the map.
