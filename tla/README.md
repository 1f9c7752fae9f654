# TLA+ models of the JTAG debug server

The repository is an MCP server that lets an assistant debug embedded targets: it starts GDB
as a subprocess and speaks GDB/MI to it, starts probe servers (OpenOCD, J-Link, pyOCD, QEMU),
decodes peripheral registers with SVD files, and triggers logic-analyzer captures around
breakpoints.  It is an asyncio program: every MCP tool call is a task, and two calls may
interleave at every `await`.  Nearly all of what is hard about it is there: state that is
read before an `await` and used after it, records that arrive after the command they answer
has been given up, processes that exit or hang while somebody waits for them.

This directory holds one TLA+ module per component, the TLC instances that check them, and
proofs (TLAPS) of the properties that matter most.  All paths below are relative to the
repository (`src/...`); `PROJECT.json` maps every definition to the lines it models.

Contents: 1 the system, 2 the modules, 3 the runs, 4 fairness, 5 the proofs, 6 what is
abstracted, 7 where the code and its documentation disagree, 8 the plan.

To repeat a run: `tlc -workers 2 -config MIConnection_calls.cfg MCMIConnection.tla`.
To repeat the proofs of a module: `tlapm MIConnectionProofs.tla`.

## 1. The system

### Components, their state and operations

| component | source | state | operations |
|---|---|---|---|
| MIConnection | `server/gdb/mi_connection.py` | `_state`, `_process`, `_token_counter`, `_pending` and `_pending_order`, `_write_lock`, `_reader_task`, the event and the console queue | `start`, `stop`, `send`, `send_raw`, `_reader_loop` with three handlers |
| MI parser | `server/gdb/mi_parser.py` | `_buffer` | `feed`, `reset`, recursive descent over one line |
| DebugSession | `server/gdb/session.py` | `_conn`, `_event_task`, `_stop_event`, `_last_stop`, `_breakpoints` | `connect`, `disconnect`, run control, breakpoints, memory, `_event_loop` |
| Tool server | `server/mcp_server.py` | `_sessions`, `_svd_decoders`, `_svd_paths`, `_saleae_connections`, `_saleae_coordinators` by session id | 33 tools, `lifespan` |
| SessionStore | `server/session_store.py` | `session.json` and `channels.json` per session | `save`, `load`, `delete`, `list_sessions`, channel map |
| Safety gate | `server/safety.py`, `hooks/safety_gate.py` | none | `require_confirmation` and pattern tables |
| CaptureCoordinator | `server/saleae/capture.py` | `_current_capture`, channel map; Logic 2 behind it | `capture_timed`, `capture_triggered`, `capture_around_breakpoint` |
| Saleae connection, analyzers | `server/saleae/connection.py`, `analyzer_config.py` | one attribute | `connect`, `get_device_info`; `disconnect` and the settings have no caller in the server |
| Probe servers | `server/probe/{openocd,jlink,pyocd,qemu}.py` | `_process` of each object | `start`, `stop`, `is_running`; six classes, one protocol |
| Probe detection | `server/probe/detect.py` | none | parses `lsusb`; no caller in the server |
| SVD parser | `server/svd/parser.py` | a cache of three devices; the lazily computed registers of each peripheral | `load`, `_resolve_derived`, `registers` |
| SVD registry | `server/svd/registry.py` | none | directory search |
| RegisterDecoder | `server/svd/decoder.py` | none | decode, encode a field, find |

### How they interact

A tool looks its `DebugSession` up in `_sessions` and awaits one of its methods.  The session
checks a state and awaits `MIConnection.send`, which registers a future under a token, writes
the command under `_write_lock` and waits for the future with a timer.  The reader task parses
GDB's output with `MIParser.feed`: result records settle futures, `*stopped` and `*running`
change the connection's state and go into the event queue, console text into the console
queue.  The session's event loop takes the events, stores the stop, counts the hit, and sets
`_stop_event`, on which `continue`, `step` and `interrupt` wait.  The register tools combine
`read_memory`/`write_memory` with `RegisterDecoder`; the inspecting tools send one command after
the other and put the pieces together; the capture coordinator combines
`set_breakpoint`/`continue_execution` with blocking calls to Logic 2 in executor threads.

### What is hard, and what makes each part correct

| component | hard behaviour | it is correct if |
|---|---|---|
| MIConnection | answers after a timeout, cancellation, EOF with calls open, `stop()` beside `send()`, a lock held while GDB does not read, full queues | the two structures of pending commands agree; no call is forgotten; losing or closing the connection settles everybody; the last word on the target is never dropped; every call ends |
| MI parser | text cut anywhere, several lines at once, nesting | exactly the records of the complete lines come out, in order |
| DebugSession | one stop event shared by all clients; the event loop may be faster or slower than the tool | a run returns its own stop; no wake-up is lost; state, breakpoints and hit counts are GDB's; every tool ends |
| Tool server, store | connect and disconnect of one id in parallel, crashes between file operations | no GDB without an owner; what is saved can be deleted; a disconnect leaves no trace |
| Writing tools | read-modify-write with awaits, timeouts whose answers come late, a target that is resumed | a field write changes that field; reported writes happened |
| Inspecting tools | many commands with other clients' in between, one console queue for all, every command may fail | raw output was printed after the call and, undisturbed, is the command's own; the fault report comes, and is the target's status |
| CaptureCoordinator | one capture at a time, several callers and coordinators, failures everywhere | the stop is inside the capture; no call that could stop its capture leaves it recording, and none leaves a file; every call ends |
| Probe servers | a process that exits, hangs, ignores SIGTERM while someone waits | no server without an owner; every call ends |
| SVD parser | chains and cycles of `derivedFrom`, resolved lazily | the registers are those of the first ancestor that has any; `load` returns |

## 2. The modules

Each module's header names its source and its abstraction; its properties are at the end.
`MC...` modules hold the constants of the instances.  Definitions marked `Mutant` are the ways
a plausible bug would change the definition below them: substituting one makes TLC report the
property that PROJECT.json names for it.

| module | models | state ↔ code | actions ↔ code |
|---|---|---|---|
| `CommandChannel` | abstract: what a user of the connection may rely on | `phase`, `request` per caller | open, ask, answer, abandon, finish, lose, close |
| `MIConnection` | the connection, one action per stretch of code between two suspensions | variables carry the attributes' names without the underscore; `call[c]` is where caller `c` is suspended in `send()`, `stop[s]` the same for `stop()`; `write_queue` is the lock with its waiters; `stdin`, `stdout` are the pipes | `Send`, `CommandLockAcquired`, `Drained`, `TimerFires`, `TimeoutHandled`, `InterruptLockAcquired`, `CallerResumes`, `CallCancelled`; `StopBegin` … `StopKills`; `ReadResult`, `ReadAsync`, `ReadConsole`, `ReaderError`, `ReaderEOF` |
| `MIConnectionProofs` | theorems about it, and that it implements `CommandChannel` | | |
| `DebugSession`, `DebugSessionProofs` | run control and the breakpoint table of one connected session, with several tools at once | `stop_event`, `last_stop`, `breakpoints`, `event_loop` as in the code; the connection reduced to its state, the order of pending tokens and a reader; `table`, `core`, `stops` are GDB's and the target's | each operation to its first `await`, then one action per resumption; `ProcessStop` is `_process_stop` |
| `SessionRegistry`, `SessionRegistryProofs` | `session_connect`, `session_disconnect`, `saleae_connect` and `saleae_configure` as far as they save, `lifespan` and the store, with crashes | `sessions`, `decoder`, `channels` are the dictionaries; `file`, `mapFile` the disk; `conn`, `gdb` what each object owns; `cleared` remembers what was disconnected | one action per stretch between awaits; `Stop` is an end at any point, `Crash` one inside `write_text` or `delete` |
| `GdbLink` | what the tools can tell of `MIConnection.send` | `pipe` the commands GDB has not answered, `reply` per client | `Answers`, `TimesOut`: a late answer goes to the oldest command that waits |
| `RegisterAccess`, `RegisterAccessProofs` | `peripheral_read`, `peripheral_read_all`, `peripheral_write`, `memory_write`, `register_write`, `flash_write` over the session's methods and the decoder | `mem` the target's cells; `op`, `pc` per client | `Begin`, `ReadReturned`, `WriteReturned`, `ReadbackReturned`, `FileReturned`, `CompareReturned`, `GivesUp`; `Executes` is GDB |
| `Inspection`, `InspectionProofs` | the tools that look at a session through several commands: registers, memory, backtrace, expressions, disassembly, source, symbols, raw commands, the dashboard, fault analysis | `Script` gives each tool's commands, what it looks for in the answers and which errors it catches; `console` is the console queue | `Begins`, `Returns`, `Collects` (after the 0.1 s of `raw_command`), `GivesUp`; `ExecutesAsk`, `ExecutesConsole` are GDB |
| `FaultDiagnosis` | what `fault_analyze` makes of the registers | | `Sentences`, `Diagnosis` |
| `CaptureCoordinator`, `CaptureCoordinatorProofs` | the three capture methods, and `saleae_connect` and `session_disconnect` as far as they change the coordinator | `current` is each coordinator's `_current_capture`; `capture` Logic 2's captures | one action per resumption; `Fails` and `CleanUp` are the exception handlers |
| `ProbeServer`, `ProbeServerProofs` | start and stop of the six server classes; `kind` tells those that wait a moment from the one that polls its port | `process` is `_process`; `proc` what became of each process | `Start`, `Spawned`, `StillRunning`, `PortReady`, …, `StopTimesOut` |
| `MIGrammar` | what one line says: `_parse_line` and the recursive descent below it | | operators |
| `MIParser` | `feed`, for any `_parse_line` | `buffer` is `_buffer`, `found` the list of the call; `stream` what has not arrived yet | `Feed(n)`: the next `n` tokens arrive; `ParsesLine`, `LineRaises`: a turn of the loop; `FeedReturns` |
| `ParserProofs` | theorems about `MIParser` and `SVDDevice` | | |
| `SVDDevice` | `_resolve_derived` and `SVDPeripheral.registers` | `stack` makes the Python recursion explicit; `resolved`, `visited` as in the code | one action per call and return |

They compose in three ways.  `MIConnection` is shown to implement `CommandChannel` through a
refinement mapping (`Channel == INSTANCE CommandChannel WITH ...`); `RegisterAccess` and `Inspection` both extend `GdbLink`, which keeps of
the connection what its run `connection_stray` shows: an answer reaches the oldest command that
waits, not always its own.  `DebugSession` and `CaptureCoordinator` assume of the layer below
what its module establishes (records delivered in order, a call that ends).

## 3. The runs

Twelve runs; every property of a passing run is shown to be breakable by a mutant.

| run | instance | checks | shows |
|---|---|---|---|
| `connection_calls` | 2 callers, 1 `stop()`, 2 commands, big and small | `PendingInStep`, `NobodyStranded`, `OneCallPerAnswer`, `ImplementsChannel`, `EveryCallFinishes` | the table of pending commands is consistent and forgets nobody, the connection is a `CommandChannel`, and every call ends: 300 000 states |
| `connection_events` | 1 caller, 2 `stop()`, all async classes, queue of 2 | `TypeOK`, `ClosedMeansSettled`, `QueueEndsInState`, `ExitedIsFinal` | queues that overflow, overlapping stops, a reader that gives up: 3 million states |
| `connection_stray` | as `connection_calls` | `OwnAnswer` is **violated** | section 7, item 1 |
| `session_tools` | `RunnerAndHelper`: one client runs, steps, resets and sets breakpoints, another deletes, resets, disconnects; 4 commands, 3 stops | `TypeOK`, `FreshStop`, `NoLostStop`, `StateIsGdbs`, `BreakpointsMatch`, `HitsMatch` | 560 000 states |
| `session_ends` | `Waiters`: continue, step, interrupt, disconnects that may overlap, with all timers | `EveryToolEnds` | every tool ends whatever GDB does |
| `registry_shared` | 2 clients, 2 ids, one of them named by both, 4 session objects | `TypeOK`, `NoOrphan`, `SavedIsRegistered`, `LeavesNoTrace` | connect, reconnect, failure, disconnect, crash (also inside a file operation) and restart: 3.3 million states |
| `access` | 2 clients, every writing and reading tool, a word of two bits, a field that begins in it and ends behind it, values that fit and that do not, 1 image, 1 resume, 1 timeout | `TypeOK`, `FieldOnly`, `WrittenMeansStored` | late answers and refused writes are not reported as written: 1.8 million states |
| `inspect` | one client runs any of 16 scripts (a tool, or one way through it), another raw commands; 3 fault states, 1 resume, 1 timeout, a disconnect | `TypeOK`, `AlwaysReports`, `NothingStale`, `OwnOutput`, `FaultsExplained` | whose output `raw_command` returns, and that the fault report comes and is right: 2.2 million states |
| `capture` | 2 clients, every two kinds of capture, no analyzer or 2, 2 captures, 2 coordinators | `TypeOK`, `StopIsCovered`, `NoCaptureLeft`, `ExtractionComplete`, `CaptureEnds` | any call of Logic 2 may fail, with or without effect, and any capture end by itself: 720 000 states |
| `probe` | 1 caller, both kinds, 3 processes | `TypeOK`, `NoOrphan`, `EveryCallEnds` | |
| `parser` | up to 3 lines of every kind, or an answer nested three deep, in pieces of 1 to 3 tokens | `RecordsOfLines` | 130 000 states |
| `svd` | every device of 3 peripherals: 1000 graphs | `TypeOK`, `InheritedRegisters`, `LoadReturns` | |

### Why the bounds are enough

* **Connection.** Two callers are needed for an answer to reach the wrong call, a third party
  (`stop()`) for a queue on the lock.  Two commands let one time out while the next is open.
  A queue of two drops its oldest with something left behind it; `MaxPipe` only bounds what
  GDB emits unasked, and a reader that is behind by one record sees every order of a record
  against everything else.  The proofs of section 5 carry the safety properties of this
  module to any number of everything.
* **Session.** Every property relates a command to the stops around it; three stops and four
  commands give an initial stop, a stop that is the command's own, and one more on each side,
  and allow a step of two counts.  `session_tools` has no timers, because a timed-out command may be executed
  later, and nothing in the code corrects the table after that; `session_ends` has all of them.
* **Registry.** Four objects: a reconnect on each id, or a connect, a restart, a connect.  The
  calls on `i1` overlap in every order; the history variable `overlapped` holds the ids on which
  they did since the server came up, and `NoOrphan` and `SavedIsRegistered` are promised while it
  is empty.  `LeavesNoTrace` is promised always.
* **Register access.** A word of two one-bit cells is the smallest with a field and a bit next
  to it.  The field has the upper bit and one behind the word, as a wrong SVD file may say.  Of
  the values 3 fits the word, but put into the field it makes a word that is too long to be
  packed; 5 does not fit the word, but cut to the field it is 1, which does.
  `MaxPipe = 1` lets a call begin only on an empty pipe, but calls in progress send on: a command
  given up by a timeout stays in the pipe, with the interrupt behind it, while the other client's
  call takes its next step.
* **Inspection.** One call of each client: the pieces of two calls of one client do not meet,
  because a call is over before the next begins, and what a call leaves behind (lines in the
  queue, commands in the pipe, late answers) is left to the other client.  `Lines` prints nothing
  or two lines into a queue of two, so a queue that already holds a line drops one.  The three
  fault states have a bus fault whose address is known, one whose address is lost together with a
  stacking fault, and a forced hard fault without a cause; `Failing` makes a status register, the
  register names and a listing fail while the target is halted; everything fails while it runs.
* **Capture.** Logic 2 records one capture at a time, so two captures give one and its
  successor; with two coordinators a call may work on one that is no longer registered.  One client may have its
  captures decoded, by two analyzers, so that the first may fail and the second not.
* **Probe.** Three processes: a start, a retry, and one more after a stop; the proof removes
  the bound.
* **Parser.** Chunks of up to three tokens cut a line at every position, also between `\r` and
  `\n`; the deep values cover every pair of constructors inside every other.
* **SVD.** Three peripherals give chains of three, cycles of one, two and three with and without
  a tail; the recursion limit of four is beyond any chain that is no cycle.

Deadlock is checked where the modelled program goes on for ever or has an explicit final
stutter (`access`, `inspect`, `probe`, `parser`, `svd`).  The others switch it off, because the
bound on commands, captures or objects lets them come to rest.

## 4. Fairness

Only what the code schedules is fair.

* `MIConnection!FairSpec`: asyncio runs every ready task (weak fairness of the resumptions of
  each caller and stopper, and of the reader) and every timer in the end (`TimerFires`,
  `StopKills`).  One assumption about the environment is needed, `GdbReads`: GDB goes on
  reading commands from its stdin.  It need not obey `-gdb-exit`, which is what the kill is
  for, and need not run or stop the target.  Without it `StopFinishes` fails (section 7, item 2).
* `DebugSession!FairSpec`: the loop, each tool's resumptions and its timers.  GDB owes nothing.
* `ProbeServer!FairSpec`: the resumption of each suspended call; the processes owe nothing.
  (Reading the standard error of a process that has exited ends.)
* `CaptureCoordinator!Spec`: weak fairness of `Advances(c)`, what a call does by itself: Logic 2
  answers the calls that do not wait (the executor thread returns), and the timers run.  That a
  capture completes, a trigger fires or the target stops is not assumed: `WaitTimesOut` and
  `ContinueFails` are the code's own timers (`wait_for`, the timeout of `continue_execution`).
* `SVDDevice!FairSpec`: a call that was made runs on.

## 5. The proofs

| theorem | module | says |
|---|---|---|
| `TypeCorrect` | `MIConnectionProofs` | `TypeOK`, with the bounds of both queues |
| `TableInStep` | | `PendingInStep` |
| `NobodyIsStranded` | | `NobodyStranded` |
| `ClosedIsSettled` | | `ClosedMeansSettled` |
| `ExitedIsLeftByStop` | | `ExitedIsFinal` |
| `LastWordIsKept` | | `QueueEndsInState` |
| `AnswersAreTakenOnce` | | `OneCallPerAnswer` |
| `AnswersMatchWithoutTimeouts` | | `OwnAnswer`, given that no timer of `send()` fires |
| `ConnectionImplementsChannel` | | `Spec => ImplementsChannel` |
| `TypeCorrect`, `StateIsKnown` | `DebugSessionProofs` | `TypeOK`, `StateIsGdbs`, for any clients, tools and timers |
| `StopsAreFresh`, `NoStopIsLost` | | `FreshStop`, `NoLostStop`, given `RunsAlone` |
| `TheTablesMatch`, `TheHitsMatch` | | `BreakpointsMatch`, `HitsMatch`, given `RunsAlone` and `SetsAlone` |
| `TypeCorrect`, `NoGdbIsOrphaned`, `SavedSessionsAreRegistered`, `DisconnectLeavesNoTrace` | `SessionRegistryProofs` | the run's four invariants |
| `TypeCorrect`, `NoCaptureIsLeft`, `StopsAreCovered`, `ExtractionIsComplete` | `CaptureCoordinatorProofs` | the run's four invariants |
| `TypeCorrect` | `ProbeServerProofs` | `TypeOK`, however the calls overlap |
| `NoServerIsOrphaned` | | `NoOrphan`, given `Sequential` |
| `TypeCorrect`, `OnlyTheFieldChanges`, `WritesAreStored` | `RegisterAccessProofs` | `TypeOK`, `FieldOnly`, `WrittenMeansStored`, for words and fields of any size |
| `TypeCorrect`, `ReportAlwaysComes` | `InspectionProofs` | `TypeOK`, `AlwaysReports` |
| `RawOutputIsFresh`, `OutputIsOwn` | | `NothingStale`, `OwnOutput` |
| `FaultsAreExplained` | | `FaultsExplained` |
| `RecordsAreOfLines` | `ParserProofs` | `RecordsOfLines`, given `LinesParse` |
| `TypeCorrect`, `RegistersAreInherited` | | `TypeOK`, `InheritedRegisters`, for any file |
| `WalkEndsEarly` | | `load` never fails, given fewer peripherals than the recursion limit |

Assumptions are the named `ASSUME`s of the modules (sets are disjoint, bounds are naturals, a
register lies in the memory) and nothing else, for **any** number of callers, stoppers, clients,
ids, processes, coordinators, captures and analyzers, any `QueueSize`, and any value of the bounds.
`AnswersMatchWithoutTimeouts` is about the behaviours in which no command times out.
`NoServerIsOrphaned` has a hypothesis on how its component is used, `Sequential` (calls
of one server object do not overlap); so have four theorems about the session: `RunsAlone` (one
client runs the target and resets it to a halt, nothing is interrupted and no timer fires) and
`SetsAlone` (it also is the one that sets breakpoints).  `NoOrphan` and `SavedIsRegistered` of the registry say
themselves that they are promised while no two calls have overlapped on an id.  All of these are
necessary: without them the properties fail (section 7).

*Connection.* `NobodyStranded` is not inductive.  `IInv` adds `Life` (the order in which
process, reader and `stop()` come and go: no process exactly while "disconnected", no reader
that reads once a stopper is past its join), `Tokens` (open calls have distinct issued tokens,
and a call whose timer has fired has a settled future), `PendingInStep` and
`EmptyWithoutProcess`.  With distinct tokens, popping token *t* settles exactly one call; with
`PendingInStep` the fallback pops a token that is in the dictionary; with `Life` no send can
enter a table that `stop()` has already emptied.  `ClosedMeansSettled` follows: without a
process the table is empty, and an unset future would be in it.  `Ascending` needs its own
lemmas, because `list.remove` takes out one element and the property is about all.
`AnswersAreTakenOnce` follows a token on its way: it is written to GDB once, answered once and
popped once, so at each moment it is in one place only, and what two futures hold comes from two
answers.  `LastWordIsKept` follows the last execution record instead: it is what the
connection's state says, and the queue that drops its oldest never drops its last.

`AnswersMatchWithoutTimeouts` says what is left of the promise that `connection_stray` refutes.
Its invariant `Matched` holds that, while the reader reads, every command in `stdin` and every
result in `stdout` has its token in the table: a call that is cancelled or whose write fails
leaves its token there, `stop()` cancels the reader in the step that writes `-gdb-exit`, and
`_reject_all_pending` runs only once the reader is over.  By `Way` the token of the result being
read is in no pipe any more, so it can go, and the fallback to the oldest command is never taken.
Without the hypothesis a timer breaks `Matched` twice: it takes out a token whose answer is to
come, and it writes a line without one.

*Refinement.* The mapping reads `phase` off start, process and state, and a caller's request
off its position and its future.  Each step maps to one step of the channel or to a stutter:
`HandleResult` to `Answer` or, if the popped token's caller has left, to a stutter; the three
places that call `_reject_all_pending` to `Lose` or `Close`, for which `NobodyStranded` is
exactly what is needed: a request still open is a request in the table.

*Debug session.* What `TypeCorrect` and `StateIsKnown` need holds whatever the clients do: of the
records on their way the last that names a state decides, and if there is none the session
already has GDB's state.  The other four are about one runner.  `Owned`: commands that wait for
GDB and answers that wait to be read belong to the client that sent them.  `OneStop`: at most
one stop is on its way, be it a record or an event in the queue, and the target stands while one is.
`Phase`: it is on its way, or the target runs, only while the runner's command has been executed
and the stop event is not set; so the stop that sets it is that of the runner's own command
(`FreshStop`), and one that was processed before the wait is still noted (`NoLostStop`).  `InStep`: the
session's table and GDB's differ by the insertions and deletions that were executed and whose
answers are not yet processed, and the hit counts by the hit of the stop on its way.
TLC shows that the hypotheses cannot be dropped: with a timer on `send`, or another client that interrupts,
`FreshStop`, `NoLostStop` and `BreakpointsMatch` fail, and with another client that sets
breakpoints `HitsMatch` does.  `RunnerAndHelper`, the instance of `session_tools`, satisfies them.

*Registry.* `IInv` has two parts.  `Base` holds whatever the clients do: types, that a tool in
progress has an object, that a stopped server has nothing.  `Orderly` holds while `overlapped`
is empty: a tool in progress is alone on its id and works on the session registered under it,
and a live GDB belongs to an object whose connection is up or stopping.  Then the object that
`Pop` drops or `Register` replaces has no GDB any more.  An overlap is remembered until the
server goes, and then nothing is left that it could have disturbed.  `LeavesNoTrace` is inductive
together with the types: every action that writes under an id takes it out of `cleared`, also
the ones that crash in the middle, and `Pop`, which puts it in, leaves nothing.

*Capture.* `IInv` strengthens the types with what each point of a call implies: `Phase` (between
its start and its stop a call has a capture of its own, before it has none), `Named` (captures
that calls and coordinators name have been started, each by one call), `Held` (nobody else knows
a capture before its task resumes; from then on it is its coordinator's current one for as long
as it records), `Covers` (from the stop on, a capture that still records has recorded at the
stop) and `Decoding` (a temporary file is there only while a table is exported).  `Held` is what
the clean-up needs: it stops the capture that was current when it began, and that is the call's
own if this one still records.  It may also be another call's; then that call's stop raises,
which is why `StopIsCovered` holds although `OwnCaptureOnly` does not (section 7, item 11).
`NoCaptureIsLeft` is about the code's part only.  Where the code does nothing any more a capture
may record on, and the history variable `abandoned` says so: `start_capture()` raised but Logic 2
has begun (nobody has the capture), a trigger did not fire in time, `wait()` raised (no `stop()`
follows), or the `stop()` of the clean-up raised (that is swallowed).  In all other cases, in
particular after a failed or refused run and after a `stop()` that raised at the first try, the
call still has its capture in hand and stops it.

*Register access.* `IInv` says, as long as no command has timed out, that every command on the
pipe is waited for by a client of its own, which has no answer yet (`InTurn`).  So the fallback
that gives an answer to the oldest command gives it to the right one, and a client that is told
of a success after its write had that write executed (`DoneIsStored`).  With one time-out
`InTurn` is lost, and the property with it (`connection_stray` shows the same one layer below).
`OnlyTheFieldChanges` says that the word which a write sends is the one that was read, but for
the bits of the field.  It rests on lemmas about numbers: a word is the sum of its cells, storing
and reading it back loses nothing, and replacing a field leaves quotient and remainder around it
alone.  Those are inductions over the word's length.  The induction theorems of the library
cannot be instantiated, but its `WFMin` (a set of numbers has a least one) can, and
`InductiveSet` derives from it that a set with 0 and every successor is `Nat`; `Recursion` gets
from that the existence of functions defined by recursion, here `Pow2` and the word.

*Inspection.* `Fresh`: every line in the console queue was printed during every raw command that
runs now.  It holds because `raw_command` empties the queue before its command and what GDB
prints is printed during all that run at the time; the queue drops lines when it is full and
gains none.  It does not say whose line it is: a command that timed out may be executed later, and
its output fall into another call (`OwnOutput` excludes it, section 7, item 20).  Timeouts, late answers and lost sessions do not enter the argument of `RawOutputIsFresh`.
The other four share `FullInv`.  `Linked`: each client has at most one command on the pipe, which
is that of the step it is at, and no answer while it is there; as long as nothing has timed out
every command on the pipe has its sender.  So the oldest command's answer goes to the client
that sent it.  `Own`: while a raw command runs undisturbed, no other console command runs, and
until GDB has executed it the queue is empty; what is in the queue then is its output.  `Got`:
while the target has not moved, the pieces a call was given, and the answer it has not seen yet, are what
the target holds.  `ReportAlwaysComes` needs besides that the script of `fault_analyze` cannot get
stuck: each step catches every error, and the recursion that passes over refused steps
(`Suspends`) ends behind the last step and never fails, which is an induction over the script.

*Parser.* `MPInv` says, also in the middle of `feed()`, that what earlier calls returned and what
this one has found are the records of the first `n` lines, and that their text, the buffer and
the stream are the whole text in a row.  `Cut` is the step: if the buffer has a newline, its first line is
the next that was written, wherever the pieces were cut.  That all lines in a row begin with the
first `n` of them is an induction (`JoinedPrefix`), with `InductiveSet` and `Recursion` again.
`MIGrammar` is recursive, so the theorem takes `_parse_line` as a parameter and assumes of it
`LinesParse`: it finds each line's record if it gets the line by itself.  TLC evaluates that for
the grammar and all lines of the instance (`GrammarIsFollowed` in `MCMIParser`).

*SVD.* `Line(p)` is the least set that contains `p` and with a peripheral without `<registers>`
its parent; a property of the least such set needs no induction over the chain, and
`InheritedRegisters` is inductive as it stands.  It holds for cycles too: an `Ask` that ends at the
recursion limit leaves nothing behind.  `WalkEndsEarly` rests on `Walk`: the calls in progress below the
top are as many as the peripherals visited, and the top is a new one unless it is derived from itself.

Only model-checked: all liveness (`EveryCallFinishes`, `EveryToolEnds`,
`EveryCallEnds`, `CaptureEnds`, `LoadReturns`: the proof system does not handle fairness with
`ENABLED`), and `LinesParse`, since `MIGrammar` is written with `RECURSIVE`
operators, about which the proof system cannot reason.

## 6. What is abstracted or left out

* GDB, the target, Logic 2, the probe processes and the operating system are external.  The
  code never sets `mi-async`, so GDB may or may not read a command while the target runs.
* `MIConnection`: one `start()` per object, as `DebugSession.connect` makes a new one each time.
  Raw writes are short and never suspend in `drain()`; the interrupt that the session writes
  itself is in `DebugSession`, and is for the connection the raw line that a timeout writes.  A cancellation inside `drain()` is not modelled.
* `DebugSession`: starts connected; `connect` is in `SessionRegistry`, memory and `flash` in
  `RegisterAccess`, `read_registers`, `backtrace`, `evaluate` and `raw_command` in `Inspection`.
  Tools started after the connection is lost are left out.  The step of `disconnect` that closes
  the connection lets every ready task run first, because stopping takes several turns of the loop.
* `SessionRegistry`: the server's end closes the stdin of its GDBs, which then exit.
* `GdbLink`: tokens and the write lock are gone; what is left is the order of the commands, who
  waits, and what becomes of an answer that nobody waits for.
* `RegisterAccess`: one variable stands for the session's state and the target's; they differ
  only for the moment a record is on its way.  Memory is plain storage, without side effects of
  reads; an image fits in one word and a core register is no memory.  GDB may refuse to set
  a core register or to read an image.
* `Inspection`: a register is the set of its bits, a report the set of its sentences; what the
  other tools format is not modelled, only which pieces they were given.  A command that asks
  for a listing or a symbol prints between none and two lines.  A dashboard that shows a piece
  which came from a later stop is allowed (section 7, item 24).
* `CaptureCoordinator`: a capture ends by itself only after the task that started it has resumed;
  asyncio resumes the tasks in the order in which their `start_capture()` returned, so no call
  can tell.  Channels, rates and levels do not matter to it; a call that is cancelled by its client is not modelled, nor is the temporary breakpoint (section 7, item 23).
* `MIGrammar`: a C string is one token, so its escapes are not modelled: neither what they stand
  for nor that `\8` and `\9` make `int()` raise as an odd digit in a token does
  (`server/gdb/mi_parser.py:222`).
* `SVDDevice`: the XML is given; bit-range notations, clusters and enumerations are not
  modelled, nor is the LRU cache of devices: it is sequential code without an await.  (A
  cached device is never compared with its file again.)
* Not modelled: probe detection and the analyzer settings (neither has a caller in the server),
  the SVD directory search, the hook and the pattern tables of the safety gate, the formatters,
  command lines of the probe servers, tests, skills and documents.  They keep no state that outlives a call.

## 7. Where the code and its documentation disagree

Item 1 is a run of the project.  The others were found with the named property on the named
instance; the properties are in the modules, and the runs that pass are restricted so as not
to meet them, as the table says.

1. *An answer can go to the wrong command* (`connection_stray`).  `_handle_result`
   (`server/gdb/mi_connection.py:234`) gives any result record whose token is not pending to
   the oldest pending command, also one that has a token: the late answer of a timed-out
   command, or the `^done` of the interrupt that the timeout wrote, is returned by the next
   `send()`.  The class promises token-based matching (line 44).  Where no command times out
   the promise holds (`AnswersMatchWithoutTimeouts`).
2. *`stop()` may hang* (`StopFinishes` under `HungGdbSpec`).  It writes `-gdb-exit` through
   the lock before it has a timer (line 123); a big command whose `drain()` waits for a GDB
   that no longer reads keeps the lock.
3. *A run may return an old stop* (`FreshStop`, `Ops <- ResetWhileRunning`).  `reset(halt=True)`
   sets the stop event without a stop (`server/gdb/session.py:292`).
4. *After `reset(halt=False)` the session shows a halted target* (`StateTellsTheTruth` on the
   instance of `session_tools`): `server/gdb/session.py:290`; GDB itself does not know either.  `StateIsGdbs` is what holds.
5. *A temporary breakpoint that was hit stays listed* (`server/gdb/session.py:168`, against
   `server/mcp_server.py:997` "auto-deletes after first hit").  `BreakpointsMatch` allows for exactly that.
6. *A hit may be counted before its breakpoint is stored* (`HitsMatch`, `Ops <- SetWhileRunning`):
   the event loop processes the stop before the tool that set the breakpoint resumes.
7. *Two calls for one session id can orphan a GDB* (`EveryGdbIsRegistered`, on the instance of
   `registry_shared`): a disconnect while `connect()` is spawning finds no process to stop.
   In the same way `session.json` is written for a session that nobody can disconnect
   (`EverySaveIsRegistered`): the connect outlives the entry it was to fill.
8. *A crash while `session.json` is rewritten loses the session* (`SavedIsRecoverable`, a property
   of steps, on that instance): `write_text` truncates first (`server/session_store.py:27`).
9. *`session_disconnect` forgets the channel map* (`MapRemembered` on that instance), although
   `USAGE.md:289` says that it is remembered for the board.
10. *A reconnect without SVD keeps the old decoder* (`server/mcp_server.py:787`): in
    `SessionRegistry`, `Connected(c, FALSE)` leaves `decoder` as it was.
11. *A refused capture stops another client's* (`OwnCaptureOnly`, `Kinds <- TwoAround`):
    the handler stops `_current_capture`, whosever it is (`server/saleae/capture.py:319`).  And a
    capture may stay behind although its call has ended (`NoCaptureLeft` without `abandoned`): a
    `wait()` that raises is not followed by a `stop()` (`server/saleae/capture.py:139` and `:223`),
    and a `stop()` of a handler that raises is swallowed (`:131`, `:310`, `:322`).
12. *Two overlapping starts of one server* (`ProbeServer!NoOrphan`, `Clients = {c, d}`):
    `is_running()` is checked before the `await` that spawns (`server/probe/openocd.py:50`).
13. *A retry takes an unverified server as started* (`StartedMeansReady`, `Kinds = {"port"}`):
    `server/probe/qemu.py:220`, against the comment at 270.
14. *Two field writes of one register can lose one*: `peripheral_write` has no lock between its
    read and its write (`server/mcp_server.py:1340`).  `FieldOnly` without its hypothesis on `base` shows it.
15. *Writing a narrow register overwrites its neighbours* (`OwnRegisterOnly`, `Layout <- Narrow`,
    `Fields <- NoFields`, `Registers = {"CR", "DR"}`, `CellCount = 3`): four bytes are always written (line 1350).
16. *A fault register that cannot be read is shown as zero* (`ShownIsRead` on the instance of
    `inspect`): `server/mcp_server.py:1653`.
17. *"No specific CFSR bits set" is said when some are* (`GenericIsTrue`, with
    a bit without a sentence, such as `INVPC`, and `FORCED` in `Faults`):
    the condition at line 1796 looks at sentences, of which only eight bits have one.
18. *A line that begins with a digit such as U+00B2 ends the reader* (`NeverRaises` on the
    instance of `parser`): `isdigit()` accepts it and `int()` raises (`server/gdb/mi_parser.py:98`).
19. *A cycle of `derivedFrom` is logged and then recursed along* (`NoReentry` on the instance of
    `svd`): the `registers` property (`server/svd/parser.py:91`) ends at Python's recursion limit.
20. *Two raw commands mix their output* (`OwnOutput` without its hypothesis on `disturbed`):
    `server/gdb/session.py:298`; one of the two may also get nothing.  And after any timeout the answer of an
    earlier command may end the wait before the output is there, so that the output is lost, and the
    late output of a command that timed out, printed while another runs, is returned by that other one.
21. *A late answer can stand for the one that is awaited* (`WrittenMeansStored` and
    `FaultsExplained` without `timeouts = 0`): the consequence of item 1 for the tools.  A write
    that GDB refuses may be reported as written.
22. *A register is named without `$`* in the command of `register_write`
    (`server/mcp_server.py:1293`: the `replace` takes the dollar sign of its own placeholder
    away), and `flash` reports `verified` whenever `compare-sections` was answered, also when it printed
    a mismatch (`server/gdb/session.py:279`).  `WrittenMeansStored` says only that GDB executed the command.
23. *A capture "around a breakpoint hit"* (`server/saleae/capture.py:234`) is one around the next
    stop, whatever its reason: `stop_info` is not looked at.  If the capture is refused, or the
    continue fails or times out, the temporary breakpoint stays.  A triggered capture whose
    trigger never fires goes on recording (`abandoned`), and Logic 2 refuses the next one until it ends by itself.
24. *The dashboard shows "everything at the current stop point"* (`server/mcp_server.py:1838`), but reads it with one
    command after the other; another client may resume the target in between.
25. *`saleae_connect` does not close the connection it replaces* (`server/mcp_server.py:1458`), and the
    `force=True` that an error message recommends (`server/saleae/connection.py:76`) cannot be
    passed by any tool.

## 8. The plan

Order of work: the layer everything rests on first, then what composes it, then the leaves.

1. Done: `CommandChannel`, `MIConnection`, their proofs and the refinement; `DebugSession`,
   `SessionRegistry`, `CaptureCoordinator`, `ProbeServer`, `RegisterAccess` and `Inspection` on
   `GdbLink`, each with its proofs; `FaultDiagnosis`, `MIGrammar`, `MIParser`, `SVDDevice`.
2. Extend: an abstract specification of a debug session (commands, stops, table) that
   `DebugSession` implements; that `MIConnection` implements `GdbLink`; cancelled capture calls;
   the escapes of a C string; the tables of the safety gate; the lookup order of the SVD registry.
3. Prove: that `MIGrammar` reads what a writer of the grammar writes, with recursive functions in
   place of the `RECURSIVE` operators; that a sequential caller's commands keep the order of
   tokens on the pipe.
