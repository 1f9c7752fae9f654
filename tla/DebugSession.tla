---------------------------- MODULE DebugSession ----------------------------
(***************************************************************************)
(* server/gdb/session.py: the run control and the breakpoint table of a    *)
(* connected DebugSession, used by several MCP tool calls at once.         *)
(*                                                                         *)
(* The connection is reduced to what the session sees of it: the state,    *)
(* the order of pending tokens, and the reader that delivers records in    *)
(* order (MIConnection.tla has the rest).  GDB and the target are external.*)
(***************************************************************************)
EXTENDS Naturals, Sequences, SequencesExt, FiniteSets, Functions

CONSTANTS Clients,         \* tasks that run a tool of this session
          Ops,             \* the operations each client uses
          Timeouts,        \* which timers may fire: "send", "stop"
          MaxCommands,     \* bound: no operation starts after so many commands
          MaxStops         \* bound: times the target stops

Runs == {"continue", "step"}
Commands == Runs \cup {"reset_halt", "reset_run", "break", "tbreak", "delete"}

ASSUME SessionAssumption ==
  /\ \A c \in Clients : Ops[c] \subseteq Commands \cup {"interrupt", "disconnect"}
  /\ Timeouts \subseteq {"send", "stop"}
  /\ MaxCommands \in Nat /\ MaxStops \in Nat \ {0}
  /\ IsFiniteSet(Clients)

VARIABLES
  conn_state,     \* state of the connection
  next_token, pending_order,
  event_loop,     \* _event_task: "running" or "gone"
  events,         \* the connection's event queue: stops not yet processed
  stop_event,     \* _stop_event.is_set()
  last_stop,      \* _last_stop: the number of the stop, 0 for {}
  breakpoints,    \* _breakpoints: id -> [hits, temporary]
  tool,           \* what each client is doing
  inbox, outbox,  \* commands GDB has not read, records the reader has not read
  gdb,            \* what GDB knows of the target, or "gone"
  core,           \* what the target is doing
  stops,          \* stops GDB has reported
  table           \* GDB's breakpoints: id -> [hits, temporary]

connVars == <<conn_state, next_token, pending_order>>
sessionVars == <<event_loop, events, stop_event, last_stop, breakpoints>>
targetVars == <<gdb, core, stops, table>>
vars == <<connVars, sessionVars, tool, inbox, outbox, targetVars>>

-----------------------------------------------------------------------------

\* A client awaits its result, then resumes; a run then awaits the stop event.
Active == {"sending", "accepted", "refused", "waiting", "woken", "grace", "closing"}
\* "failed": GDBError, or an error of the connection.
Finished == {"idle", "returned", "TimeoutError", "failed"}

\* mark: the stops GDB had reported when the command was sent; got: the stop returned.
Tool == [op : Commands \cup {"interrupt", "disconnect"}, pc : Active \cup Finished,
         token : Nat, arg : Nat, left : Nat, mark : Nat, got : Nat]

\* Table t with breakpoint b under id.
With(t, id, b) == [i \in DOMAIN t \cup {id} |-> IF i = id THEN b ELSE t[i]]

Up == conn_state \in {"stopped", "running"}

\* connect() has returned: GDB reports the first stop before ^connected.
Init ==
  /\ conn_state = "stopped"
  /\ next_token = 1 /\ pending_order = <<>>
  /\ event_loop = "running" /\ events = <<>>
  /\ stop_event = TRUE /\ last_stop = 1 /\ stops = 1
  /\ breakpoints = <<>> /\ table = <<>>
  /\ tool = [c \in Clients |-> [op |-> "interrupt", pc |-> "idle", token |-> 0,
                                arg |-> 0, left |-> 0, mark |-> 0, got |-> 0]]
  /\ inbox = <<>> /\ outbox = <<>>
  /\ gdb = "halted" /\ core = "halted"

-----------------------------------------------------------------------------
(* The operations. *)

Send(c, op, arg, left) ==
  /\ next_token' = next_token + 1
  /\ pending_order' = Append(pending_order, next_token)
  /\ inbox' = Append(inbox, [token |-> next_token, text |-> op, arg |-> arg])
  /\ tool' = [tool EXCEPT ![c] = [op |-> op, pc |-> "sending", token |-> next_token,
                                  arg |-> arg, left |-> left, mark |-> stops, got |-> 0]]

\* Mutant: a settled token stays in the list.
ForgetNothing(token) == pending_order

Forget(token) == RemoveFirst(pending_order, token)

\* send_raw("-exec-interrupt")
WriteInterrupt == inbox' = Append(inbox, [token |-> 0, text |-> "interrupt", arg |-> 0])

End(c, how) == tool' = [tool EXCEPT ![c].pc = how, ![c].got = last_stop]

\* A client starts an operation; the bound never stops one that has started.
Idle(c, op) == tool[c].pc \in Finished /\ op \in Ops[c] /\ next_token <= MaxCommands

\* Mutant: the event of the last stop is still set.
RunWithoutClear(c, op, count) ==
  /\ Idle(c, op)
  /\ conn_state = "stopped"
  /\ Send(c, op, 0, count)
  /\ UNCHANGED <<conn_state, sessionVars, outbox, targetVars>>

\* continue_execution (count 1) and step, to their first await
Run(c, op, count) ==
  /\ Idle(c, op)
  /\ conn_state = "stopped"
  /\ stop_event' = FALSE
  /\ Send(c, op, 0, count)
  /\ UNCHANGED <<conn_state, event_loop, events, last_stop, breakpoints, outbox, targetVars>>

\* reset, set_breakpoint, remove_breakpoint: no state is required
Command(c, op, arg) ==
  /\ Idle(c, op)
  /\ Up
  /\ Send(c, op, arg, 1)
  /\ UNCHANGED <<conn_state, sessionVars, outbox, targetVars>>

\* interrupt of a target that is not running
NothingToInterrupt(c) ==
  /\ Idle(c, "interrupt")
  /\ conn_state \notin {"running", "disconnected"}
  /\ tool' = [tool EXCEPT ![c].op = "interrupt", ![c].pc = "returned", ![c].got = last_stop]
  /\ UNCHANGED <<connVars, sessionVars, inbox, outbox, targetVars>>

Interrupt(c) ==
  /\ Idle(c, "interrupt")
  /\ conn_state = "running"
  /\ Len(inbox) + Len(outbox) < MaxCommands
  /\ stop_event' = FALSE
  /\ WriteInterrupt
  /\ tool' = [tool EXCEPT ![c].op = "interrupt", ![c].pc = "waiting"]
  /\ UNCHANGED <<connVars, event_loop, events, last_stop, breakpoints, outbox, targetVars>>

\* Whoever awaits _stop_event has been resumed, whatever is done to it later.
SetStopEvent(tools) ==
  /\ stop_event' = TRUE
  /\ tool' = [c \in Clients |-> IF tools[c].pc = "waiting"
                                THEN [tools[c] EXCEPT !.pc = "woken"] ELSE tools[c]]

\* The stop has come: the next step, or the end.
Proceed(c) ==
  IF tool[c].op = "step" /\ tool[c].left > 1
  THEN /\ IF Up THEN Send(c, "step", 0, tool[c].left - 1)
                ELSE End(c, "failed") /\ UNCHANGED <<next_token, pending_order, inbox>>
       /\ stop_event' = FALSE
  ELSE /\ End(c, "returned")
       /\ UNCHANGED <<next_token, pending_order, inbox, stop_event>>

\* Mutant: the event is cleared when the command has been accepted.
RunAcceptedThenClears(c) ==
  /\ tool[c].pc = "accepted" /\ tool[c].op \in Runs
  /\ stop_event' = FALSE
  /\ tool' = [tool EXCEPT ![c].pc = "waiting"]
  /\ UNCHANGED <<connVars, event_loop, events, last_stop, breakpoints, inbox, outbox, targetVars>>

\* ^running has arrived; asyncio's Event.wait() returns at once when the event is set
RunAccepted(c) ==
  /\ tool[c].pc = "accepted" /\ tool[c].op \in Runs
  /\ IF stop_event
     THEN Proceed(c)
     ELSE /\ tool' = [tool EXCEPT ![c].pc = "waiting"]
          /\ UNCHANGED <<next_token, pending_order, inbox, stop_event>>
  /\ UNCHANGED <<conn_state, event_loop, events, last_stop, breakpoints, outbox, targetVars>>

ResetAccepted(c) ==
  /\ tool[c].pc = "accepted" /\ tool[c].op \in {"reset_halt", "reset_run"}
  /\ IF tool[c].op = "reset_halt"
     THEN SetStopEvent([tool EXCEPT ![c].pc = "returned"])
     ELSE End(c, "returned") /\ UNCHANGED stop_event
  /\ UNCHANGED <<connVars, event_loop, events, last_stop, breakpoints, inbox, outbox, targetVars>>

NewBreakpoint(c) == [hits |-> 0, temporary |-> tool[c].op = "tbreak"]

\* Mutant: remove_breakpoint leaves the table alone.
RecordInsertOnly(c) ==
  IF tool[c].op = "delete" THEN breakpoints ELSE With(breakpoints, tool[c].arg, NewBreakpoint(c))

\* set_breakpoint records the number in the answer (0 when it has none),
\* remove_breakpoint drops the one it was given
RecordBreakpoint(c) ==
  IF tool[c].op = "delete"
  THEN Restrict(breakpoints, DOMAIN breakpoints \ {tool[c].arg})
  ELSE With(breakpoints, tool[c].arg, NewBreakpoint(c))

BreakpointAccepted(c) ==
  /\ tool[c].pc = "accepted" /\ tool[c].op \in {"break", "tbreak", "delete"}
  /\ breakpoints' = RecordBreakpoint(c)
  /\ End(c, "returned")
  /\ UNCHANGED <<connVars, event_loop, events, stop_event, last_stop, inbox, outbox, targetVars>>

Refused(c) ==
  /\ tool[c].pc = "refused"
  /\ End(c, "failed")
  /\ UNCHANGED <<connVars, sessionVars, inbox, outbox, targetVars>>

Woken(c) ==
  /\ tool[c].pc = "woken"
  /\ Proceed(c)
  /\ UNCHANGED <<conn_state, event_loop, events, last_stop, breakpoints, outbox, targetVars>>

\* send() gives up: it forgets the token and writes a raw interrupt
SendTimesOut(c) ==
  /\ tool[c].pc = "sending" /\ "send" \in Timeouts
  /\ pending_order' = Forget(tool[c].token)
  /\ WriteInterrupt
  /\ End(c, "TimeoutError")
  /\ UNCHANGED <<conn_state, next_token, sessionVars, outbox, targetVars>>

\* Mutant: continue_execution goes back to waiting after its interrupt.
StopTimesOutForever(c) ==
  /\ tool[c].pc = "waiting" /\ "stop" \in Timeouts
  /\ tool[c].op # "continue"
  /\ End(c, "TimeoutError")
  /\ UNCHANGED <<connVars, sessionVars, inbox, outbox, targetVars>>

\* The stop does not come: continue interrupts and waits 3 s more, the others raise.
StopTimesOut(c) ==
  /\ tool[c].pc = "waiting" /\ "stop" \in Timeouts
  /\ IF tool[c].op = "continue" /\ Up
     THEN WriteInterrupt /\ tool' = [tool EXCEPT ![c].pc = "grace"]
     ELSE End(c, "TimeoutError") /\ UNCHANGED inbox
  /\ UNCHANGED <<connVars, sessionVars, outbox, targetVars>>

\* with or without a stop
GraceEnds(c) ==
  /\ tool[c].pc = "grace"
  /\ End(c, "TimeoutError")
  /\ UNCHANGED <<connVars, sessionVars, inbox, outbox, targetVars>>

\* disconnect() cancels the event loop first, if it has not been cancelled yet ...
Disconnect(c) ==
  /\ Idle(c, "disconnect")
  /\ event_loop' = "gone"
  /\ tool' = [tool EXCEPT ![c].op = "disconnect", ![c].pc = "closing"]
  /\ UNCHANGED <<connVars, events, stop_event, last_stop, breakpoints, inbox, outbox, targetVars>>

RejectSenders(tools) ==
  [c \in Clients |-> IF tools[c].pc = "sending" THEN [tools[c] EXCEPT !.pc = "refused"]
                     ELSE tools[c]]

\* ... then stops the connection, which takes several turns of the asyncio loop:
\* every task that was ready has run.
Disconnected(c) ==
  /\ tool[c].pc = "closing"
  /\ \A d \in Clients : tool[d].pc \notin {"accepted", "refused", "woken"}
  /\ conn_state' = "disconnected" /\ pending_order' = <<>>
  /\ tool' = RejectSenders([tool EXCEPT ![c].pc = "returned"])
  /\ breakpoints' = <<>> /\ last_stop' = 0 /\ events' = <<>>
  /\ gdb' = "gone" /\ inbox' = <<>> /\ outbox' = <<>>
  /\ UNCHANGED <<next_token, event_loop, stop_event, core, stops, table>>

-----------------------------------------------------------------------------
(* The connection's reader and the session's event loop. *)

Received(type) == outbox # <<>> /\ Up /\ Head(outbox).type = type /\ outbox' = Tail(outbox)

\* A result resolves its own command, or else the oldest one.
ReadResult ==
  /\ Received("result")
  /\ LET result == Head(outbox)
         token == IF Contains(pending_order, result.token) THEN result.token
                  ELSE IF pending_order = <<>> THEN 0 ELSE Head(pending_order)
     IN  /\ pending_order' = Forget(token)
         /\ tool' = [c \in Clients |->
              IF tool[c].pc = "sending" /\ tool[c].token = token
              THEN [tool[c] EXCEPT !.pc = IF result.class = "error" THEN "refused" ELSE "accepted",
                                   !.arg = IF tool[c].op = "delete" THEN @ ELSE result.bkpt]
              ELSE tool[c]]
  /\ UNCHANGED <<conn_state, next_token, sessionVars, inbox, targetVars>>

ReadRunning ==
  /\ Received("running")
  /\ conn_state' = "running"
  /\ UNCHANGED <<next_token, pending_order, sessionVars, tool, inbox, targetVars>>

\* Mutant: the state is not updated from the record.
ReadStoppedUnseen ==
  /\ Received("stopped")
  /\ events' = Append(events, [stop |-> Head(outbox).stop, bkpt |-> Head(outbox).bkpt])
  /\ UNCHANGED <<connVars, event_loop, stop_event, last_stop, breakpoints, tool, inbox, targetVars>>

ReadStopped ==
  /\ Received("stopped")
  /\ conn_state' = "stopped"
  /\ events' = Append(events, [stop |-> Head(outbox).stop, bkpt |-> Head(outbox).bkpt])
  /\ UNCHANGED <<next_token, pending_order, event_loop, stop_event, last_stop, breakpoints,
                 tool, inbox, targetVars>>

ReaderEOF ==
  /\ gdb = "gone" /\ outbox = <<>> /\ Up
  /\ conn_state' = "exited" /\ pending_order' = <<>>
  /\ tool' = RejectSenders(tool)
  /\ UNCHANGED <<next_token, sessionVars, inbox, outbox, targetVars>>

\* Mutant: the hit is not counted.
ProcessStopUncounted ==
  /\ event_loop = "running" /\ events # <<>>
  /\ events' = Tail(events)
  /\ last_stop' = Head(events).stop
  /\ SetStopEvent(tool)
  /\ UNCHANGED <<connVars, event_loop, breakpoints, inbox, outbox, targetVars>>

\* _process_stop: the last stop, the hit count, then the event
ProcessStop ==
  /\ event_loop = "running" /\ events # <<>>
  /\ events' = Tail(events)
  /\ last_stop' = Head(events).stop
  /\ breakpoints' = [id \in DOMAIN breakpoints |->
                       IF id = Head(events).bkpt
                       THEN [breakpoints[id] EXCEPT !.hits = @ + 1] ELSE breakpoints[id]]
  /\ SetStopEvent(tool)
  /\ UNCHANGED <<connVars, event_loop, inbox, outbox, targetVars>>

-----------------------------------------------------------------------------
(* External: GDB reads commands in order; while the target runs it may or may *)
(* not read (the code never sets mi-async), and refuses what needs a halt.    *)

Reads(texts) == gdb # "gone" /\ inbox # <<>> /\ Head(inbox).text \in texts
                /\ inbox' = Tail(inbox)

Result(class, bkpt) ==
  [type |-> "result", token |-> Head(inbox).token, class |-> class, bkpt |-> bkpt]

GdbRuns ==
  /\ Reads(Runs) /\ gdb = "halted"
  /\ gdb' = "running" /\ core' = "running"
  /\ outbox' = outbox \o <<Result("done", 0), [type |-> "running"]>>
  /\ UNCHANGED <<connVars, sessionVars, tool, stops, table>>

\* GDB sees nothing of what a monitor command does to the target
GdbResets ==
  /\ Reads({"reset_halt", "reset_run"}) /\ gdb = "halted"
  /\ core' = IF Head(inbox).text = "reset_run" THEN "running" ELSE "halted"
  /\ outbox' = Append(outbox, Result("done", 0))
  /\ UNCHANGED <<connVars, sessionVars, tool, gdb, stops, table>>

\* a breakpoint is numbered by the token of its command
GdbInserts ==
  /\ Reads({"break", "tbreak"})
  /\ LET id == Head(inbox).token
     IN  /\ table' = With(table, id, [hits |-> 0, temporary |-> Head(inbox).text = "tbreak"])
         /\ outbox' = Append(outbox, Result("done", id))
  /\ UNCHANGED <<connVars, sessionVars, tool, gdb, core, stops>>

GdbDeletes ==
  /\ Reads({"delete"}) /\ Head(inbox).arg \in DOMAIN table
  /\ table' = Restrict(table, DOMAIN table \ {Head(inbox).arg})
  /\ outbox' = Append(outbox, Result("done", 0))
  /\ UNCHANGED <<connVars, sessionVars, tool, gdb, core, stops>>

\* an interrupt is answered without a token; the target stops later, or never
GdbInterrupts ==
  /\ Reads({"interrupt"})
  /\ outbox' = Append(outbox, Result("done", 0))
  /\ UNCHANGED <<connVars, sessionVars, tool, targetVars>>

GdbRefuses ==
  /\ Reads(Commands \cup {"interrupt"})
  /\ outbox' = Append(outbox, Result("error", 0))
  /\ UNCHANGED <<connVars, sessionVars, tool, targetVars>>

\* at breakpoint id, or for another reason (0)
TargetStops(id) ==
  /\ gdb = "running" /\ stops < MaxStops
  /\ gdb' = "halted" /\ core' = "halted"
  /\ stops' = stops + 1
  /\ outbox' = Append(outbox, [type |-> "stopped", stop |-> stops + 1, bkpt |-> id])
  /\ table' = IF id = 0 THEN table
              ELSE IF table[id].temporary THEN Restrict(table, DOMAIN table \ {id})
              ELSE [table EXCEPT ![id].hits = @ + 1]
  /\ UNCHANGED <<connVars, sessionVars, tool, inbox>>

GdbDies ==
  /\ gdb # "gone"
  /\ gdb' = "gone" /\ inbox' = <<>>
  /\ UNCHANGED <<connVars, sessionVars, tool, outbox, core, stops, table>>

-----------------------------------------------------------------------------

Begin(c) ==
  \/ Run(c, "continue", 1)
  \/ \E count \in 1..2 : Run(c, "step", count)
  \/ \E op \in {"reset_halt", "reset_run", "break", "tbreak"} : Command(c, op, 0)
  \/ \E id \in DOMAIN breakpoints : Command(c, "delete", id)
  \/ NothingToInterrupt(c)
  \/ Interrupt(c)
  \/ Disconnect(c)

Resume(c) == RunAccepted(c) \/ ResetAccepted(c) \/ BreakpointAccepted(c) \/ Refused(c)
             \/ Woken(c) \/ Disconnected(c)

Timer(c) == SendTimesOut(c) \/ StopTimesOut(c) \/ GraceEnds(c)

Loop == ReadResult \/ ReadRunning \/ ReadStopped \/ ReaderEOF \/ ProcessStop

Gdb == GdbRuns \/ GdbResets \/ GdbInserts \/ GdbDeletes \/ GdbInterrupts \/ GdbRefuses
       \/ (\E id \in {0} \cup DOMAIN table : TargetStops(id))
       \/ GdbDies

Next == (\E c \in Clients : Begin(c) \/ Resume(c) \/ Timer(c)) \/ Loop \/ Gdb

Spec == Init /\ [][Next]_vars

\* asyncio runs every ready task and fires every timer; GDB owes nothing.
FairSpec ==
  /\ Spec
  /\ WF_vars(Loop)
  /\ \A c \in Clients : WF_vars(Resume(c)) /\ WF_vars(Timer(c))

-----------------------------------------------------------------------------
(* Properties. *)

\* Every variable keeps to its values, and each client has at most one pending token.
TypeOK ==
  /\ conn_state \in {"stopped", "running", "exited", "disconnected"}
  /\ next_token \in Nat
  /\ Len(pending_order) <= Cardinality(Clients)
  /\ \A i \in DOMAIN pending_order : pending_order[i] \in 1..(next_token - 1)
  /\ event_loop \in {"running", "gone"} /\ stop_event \in BOOLEAN
  /\ last_stop \in 0..MaxStops /\ stops \in 1..MaxStops
  /\ tool \in [Clients -> Tool]
  /\ \A id \in DOMAIN breakpoints :
       id < next_token /\ breakpoints[id] \in [hits : Nat, temporary : BOOLEAN]

Quiet == inbox = <<>> /\ outbox = <<>> /\ events = <<>>
         /\ \A c \in Clients : tool[c].pc \in Finished \cup {"waiting"}

\* The state shown by session_state is what GDB holds of the target, once nothing is
\* under way.  (GDB itself does not learn what reset(halt=False) does to the target.)
StateIsGdbs ==
  Quiet /\ Up /\ gdb # "gone" => (conn_state = "running" <=> gdb = "running")

\* ... and with that the target's: this is what session_state promises, and what a
\* reset(halt=False) breaks.
StateTellsTheTruth ==
  Quiet /\ Up /\ gdb # "gone" => (conn_state = "running" <=> core = "running")

\* A run that awaits its stop can still get one: the target runs or is about to, or
\* the stop is on its way (or the connection is lost, and the timer is all that is left).
StopOnItsWay ==
  \/ ~Up \/ gdb # "halted" \/ event_loop = "gone" \/ events # <<>>
  \/ \E i \in DOMAIN inbox : inbox[i].text \in Runs
  \/ \E i \in DOMAIN outbox : outbox[i].type = "stopped"

NoLostStop == \A c \in Clients : tool[c].pc \in {"waiting", "grace"} => StopOnItsWay

\* "Continue execution and wait for stop": the stop returned came after the command.
FreshStop ==
  \A c \in Clients :
    tool[c].op \in Runs /\ tool[c].pc = "returned" => tool[c].got > tool[c].mark

\* Once nothing is under way, the session lists every breakpoint GDB has, and beyond
\* those only temporary ones that were hit: GDB has deleted them, the session has not.
BreakpointsMatch ==
  Quiet /\ Up /\ gdb # "gone" =>
    /\ DOMAIN table \subseteq DOMAIN breakpoints
    /\ \A id \in DOMAIN breakpoints \ DOMAIN table :
         breakpoints[id].temporary /\ breakpoints[id].hits = 1

\* Hit counts are GDB's once every stop has been processed.
HitsMatch ==
  Quiet => \A id \in DOMAIN breakpoints \cap DOMAIN table : breakpoints[id].hits = table[id].hits

\* Every tool call ends, whatever GDB and the target do.
EveryToolEnds == \A c \in Clients : tool[c].pc \in Active ~> tool[c].pc \in Finished
=============================================================================
