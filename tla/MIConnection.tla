---------------------------- MODULE MIConnection ----------------------------
(***************************************************************************)
(* server/gdb/mi_connection.py: one GDB/MI subprocess and the asyncio      *)
(* tasks that share it.  An action is the code a task runs between two     *)
(* suspension points of the event loop.                                    *)
(*                                                                         *)
(* A caller is a task inside send(); a stopper is a task inside stop().    *)
(* GDB and its pipes are external: GDB reads stdin in order and answers    *)
(* each command it reads in order.                                         *)
(***************************************************************************)
EXTENDS Naturals, Sequences, SequencesExt, FiniteSets

CONSTANTS Callers,       \* tasks that call send()
          Stoppers,      \* tasks that call stop()
          Classes,       \* async classes GDB may emit: "stopped", "running", "notify"
          Sizes,         \* TRUE in it: some commands are too long for the pipe
          QueueSize,     \* maxsize of _event_queue and _console_queue (1000 in the code)
          MaxToken,      \* bound: commands sent in a behaviour
          MaxPipe        \* bound: records in stdout before GDB's own output waits

ASSUME ConnectionAssumption ==
  /\ Callers \cap Stoppers = {}
  /\ Classes \subseteq {"stopped", "running", "notify"}
  /\ Sizes \subseteq BOOLEAN
  /\ QueueSize \in Nat \ {0}
  /\ MaxToken \in Nat
  /\ MaxPipe \in Nat

VARIABLES
  conn_state,      \* _state
  start,           \* progress of the single start() of this object
  process,         \* _process is None, or set
  gdb,             \* the operating system's view of the subprocess
  reader,          \* _reader_task
  token_counter,   \* _token_counter
  pending,         \* keys of _pending: the tokens whose future is registered
  pending_order,   \* _pending_order
  write_queue,     \* tasks inside _write(): the head holds _write_lock
  event_queue,     \* _event_queue
  console_queue,   \* _console_queue
  call,            \* what each caller is doing in send()
  stop,            \* what each stopper is doing in stop()
  stdin, stdout    \* the pipes, oldest item first

lifeVars == <<conn_state, start, process, gdb, reader, stop>>
tableVars == <<token_counter, pending, pending_order>>
queueVars == <<event_queue, console_queue>>
pipeVars == <<stdin, stdout>>
vars == <<conn_state, start, process, gdb, reader, stop, token_counter,
          pending, pending_order, write_queue, event_queue, console_queue,
          call, stdin, stdout>>

-----------------------------------------------------------------------------
(* Values. *)

States == {"disconnected", "connected", "running", "stopped", "exited"}

RawToken == 0      \* "no token": tokens start at 1

\* A caller is suspended on _write_lock, in drain(), or in wait_for(); after the
\* timer fires it is in the handler, possibly on _write_lock again.
Active == {"locking", "draining", "waiting", "expired", "interrupting"}
Outcomes == {"returned", "GDBError", "TimeoutError", "ConnectionError",
             "RuntimeError", "WriteError", "CancelledError"}
Finished == {"never"} \cup Outcomes

Futures == {"unset", "done", "error", "rejected", "cancelled"}

\* answer: the token of the record that resolved the future (RawToken for none).
\* big: the command is too long for the pipe, so drain() suspends until it is read.
CallRecord == [pc : Active \cup Finished, token : Nat, future : Futures,
               answer : Nat, big : BOOLEAN]

Tasks == Callers \cup Stoppers
StopSteps == {"never", "locking", "joining", "exiting", "returned", "crashed"}

\* What is written to GDB: a command with its token, or raw text without one.
Input == [token : Nat, text : {"command", "interrupt", "exit"}]

\* What GDB writes: result, exec or notify async, console stream, or a line
\* longer than the StreamReader limit, on which readline() raises.
Record == [type : {"result"}, token : Nat, class : {"done", "error"}]
            \cup [type : {"async"}, class : Classes]
            \cup [type : {"console", "overlong"}]

Init ==
  /\ conn_state = "disconnected"
  /\ start = "never"
  /\ process = "none"
  /\ gdb = "none"
  /\ reader = "none"
  /\ token_counter = 1
  /\ pending = {}
  /\ pending_order = <<>>
  /\ write_queue = <<>>
  /\ event_queue = <<>>
  /\ console_queue = <<>>
  /\ call = [c \in Callers |-> [pc |-> "never", token |-> 0, future |-> "unset",
                                answer |-> 0, big |-> FALSE]]
  /\ stop = [s \in Stoppers |-> "never"]
  /\ stdin = <<>>
  /\ stdout = <<>>

-----------------------------------------------------------------------------
(* The table of pending commands: _pending and _pending_order. *)

\* `if token in order: order.remove(token)'
RemoveToken(order, t) ==
  IF \E i \in DOMAIN order : order[i] = t
  THEN RemoveAt(order, CHOOSE i \in DOMAIN order : order[i] = t)
  ELSE order

\* Mutant: the dictionary is cleaned, the list is not.
ForgetTokenNotOrder(t) ==
  /\ pending' = pending \ {t}
  /\ UNCHANGED pending_order

\* Take token t out of both structures.
ForgetToken(t) ==
  /\ pending' = pending \ {t}
  /\ pending_order' = RemoveToken(pending_order, t)

\* The caller awaiting the future registered under t, if its future is not done.
\* A caller that left send() early leaves its token behind, awaited by nobody.
Awaits(c, t) ==
  /\ call[c].pc \in Active
  /\ call[c].token = t
  /\ call[c].future = "unset"

\* future.set_result(record), if the future is not done
SetResult(t, class, answer) ==
  call' = [c \in Callers |->
             IF Awaits(c, t)
             THEN [call[c] EXCEPT !.future = class, !.answer = answer]
             ELSE call[c]]

\* Mutant: the table is emptied and the futures are forgotten.
DropAllPending ==
  /\ pending' = {}
  /\ pending_order' = <<>>
  /\ UNCHANGED call

\* _reject_all_pending: ConnectionError to every registered future, empty table
RejectAllPending ==
  /\ call' = [c \in Callers |->
                IF call[c].token \in pending /\ Awaits(c, call[c].token)
                THEN [call[c] EXCEPT !.future = "rejected"]
                ELSE call[c]]
  /\ pending' = {}
  /\ pending_order' = <<>>

-----------------------------------------------------------------------------
(* start().  DebugSession.connect makes a new object for each start. *)

StartBegin ==
  /\ start = "never"
  /\ conn_state = "disconnected"
  /\ start' = "spawning"
  /\ UNCHANGED <<conn_state, process, gdb, reader, stop, tableVars, queueVars,
                 pipeVars, write_queue, call>>

\* create_subprocess_exec returned, for mi3 or for mi2
StartDone ==
  /\ start = "spawning"
  /\ start' = "done"
  /\ process' = "set"
  /\ gdb' = "alive"
  /\ conn_state' = "connected"
  /\ reader' = "reading"
  /\ UNCHANGED <<stop, tableVars, queueVars, pipeVars, write_queue, call>>

\* both attempts raised
StartFailed ==
  /\ start = "spawning"
  /\ start' = "failed"
  /\ UNCHANGED <<conn_state, process, gdb, reader, stop, tableVars, queueVars,
                 pipeVars, write_queue, call>>

-----------------------------------------------------------------------------
(* _write(): the lock is an asyncio.Lock, granted first come first served, *)
(* and is held while drain() waits for GDB to read a big command.          *)

Broken == process = "none" \/ gdb # "alive"

LockFree == write_queue = <<>>

HoldsLock(t) == write_queue # <<>> /\ Head(write_queue) = t

\* Wait for the lock, behind everyone who waits already.
Enqueue(t) == write_queue' = Append(write_queue, t)

\* The caller's command reaches the pipe, the write raises, or (big) drain() waits
\* with the lock held.  `others' is the queue of tasks behind the caller.
WriteCommand(c, record, others) ==
  IF Broken
  THEN /\ call' = [call EXCEPT ![c] = [record EXCEPT !.pc = "WriteError"]]
       /\ write_queue' = others
       /\ UNCHANGED stdin
  ELSE /\ stdin' = Append(stdin, [token |-> record.token, text |-> "command"])
       /\ call' = [call EXCEPT ![c] =
                     [record EXCEPT !.pc = IF record.big THEN "draining" ELSE "waiting"]]
       /\ write_queue' = IF record.big THEN <<c>> \o others ELSE others

\* A raw line, written by the holder of the lock; a failure is swallowed.
WriteRaw(text) ==
  stdin' = IF Broken THEN stdin ELSE Append(stdin, [token |-> RawToken, text |-> text])

-----------------------------------------------------------------------------
(* send() *)

SendRefused(c) ==
  /\ call[c].pc \in Finished
  /\ process = "none" \/ conn_state = "disconnected"
  /\ call' = [call EXCEPT ![c].pc = "RuntimeError"]
  /\ UNCHANGED <<lifeVars, tableVars, queueVars, pipeVars, write_queue>>

\* Register the future, then write at once or queue for the lock.
Send(c, big) ==
  /\ call[c].pc \in Finished
  /\ process = "set" /\ conn_state # "disconnected"
  /\ token_counter <= MaxToken
  /\ token_counter' = token_counter + 1
  /\ pending' = pending \cup {token_counter}
  /\ pending_order' = Append(pending_order, token_counter)
  /\ LET record == [pc |-> "locking", token |-> token_counter, future |-> "unset",
                    answer |-> 0, big |-> big]
     IN  IF LockFree
         THEN WriteCommand(c, record, <<>>)
         ELSE /\ call' = [call EXCEPT ![c] = record]
              /\ Enqueue(c)
              /\ UNCHANGED stdin
  /\ UNCHANGED <<lifeVars, queueVars, stdout>>

CommandLockAcquired(c) ==
  /\ HoldsLock(c)
  /\ call[c].pc = "locking"
  /\ WriteCommand(c, call[c], Tail(write_queue))
  /\ UNCHANGED <<lifeVars, tableVars, queueVars, stdout>>

\* Mutant: the lock is not released when drain() raises.
DrainedKeepsLock(c) ==
  /\ HoldsLock(c)
  /\ call[c].pc = "draining"
  /\ \/ /\ gdb = "alive"
        /\ ~ \E i \in DOMAIN stdin : stdin[i].token = call[c].token
        /\ call' = [call EXCEPT ![c].pc = "waiting"]
        /\ write_queue' = Tail(write_queue)
     \/ /\ gdb # "alive"
        /\ call' = [call EXCEPT ![c].pc = "WriteError"]
        /\ UNCHANGED write_queue
  /\ UNCHANGED <<lifeVars, tableVars, queueVars, pipeVars>>

\* drain() returns once GDB has read the command, and raises once the pipe is lost
Drained(c) ==
  /\ HoldsLock(c)
  /\ call[c].pc = "draining"
  /\ \/ /\ gdb = "alive"
        /\ ~ \E i \in DOMAIN stdin : stdin[i].token = call[c].token
        /\ call' = [call EXCEPT ![c].pc = "waiting"]
     \/ /\ gdb # "alive"
        /\ call' = [call EXCEPT ![c].pc = "WriteError"]
  /\ write_queue' = Tail(write_queue)
  /\ UNCHANGED <<lifeVars, tableVars, queueVars, pipeVars>>

\* The timer of wait_for() cancels the future.  Since Python 3.12 it also wins over
\* a result set in the same turn of the loop, before the caller has resumed.
TimerFires(c) ==
  /\ call[c].pc = "waiting"
  /\ call' = [call EXCEPT ![c].pc = "expired",
                          ![c].future = IF @ = "unset" THEN "cancelled" ELSE @]
  /\ UNCHANGED <<lifeVars, tableVars, queueVars, pipeVars, write_queue>>

\* The except clause: forget the token, interrupt GDB, raise TimeoutError.
TimeoutHandled(c) ==
  /\ call[c].pc = "expired"
  /\ ForgetToken(call[c].token)
  /\ IF LockFree \/ process = "none"
     THEN /\ WriteRaw("interrupt")
          /\ call' = [call EXCEPT ![c].pc = "TimeoutError"]
          /\ UNCHANGED write_queue
     ELSE /\ call' = [call EXCEPT ![c].pc = "interrupting"]
          /\ Enqueue(c)
          /\ UNCHANGED stdin
  /\ UNCHANGED <<lifeVars, token_counter, queueVars, stdout>>

InterruptLockAcquired(c) ==
  /\ HoldsLock(c)
  /\ call[c].pc = "interrupting"
  /\ WriteRaw("interrupt")
  /\ call' = [call EXCEPT ![c].pc = "TimeoutError"]
  /\ write_queue' = Tail(write_queue)
  /\ UNCHANGED <<lifeVars, tableVars, queueVars, stdout>>

\* wait_for() returns the record or raises the exception of the future.
CallerResumes(c) ==
  /\ call[c].pc = "waiting"
  /\ \/ /\ call[c].future = "done"
        /\ call' = [call EXCEPT ![c].pc = "returned"]
     \/ /\ call[c].future = "error"
        /\ call' = [call EXCEPT ![c].pc = "GDBError"]
     \/ /\ call[c].future = "rejected"
        /\ call' = [call EXCEPT ![c].pc = "ConnectionError"]
  /\ UNCHANGED <<lifeVars, tableVars, queueVars, pipeVars, write_queue>>

\* The client cancels the tool call whose task is inside send(): nothing in send()
\* removes the token, and a place in the queue for the lock is given up.  (Not
\* modelled: a cancellation inside drain(), which lets go of a lock on a full pipe.)
CallCancelled(c) ==
  /\ call[c].pc \in Active \ {"draining"}
  /\ call' = [call EXCEPT ![c].pc = "CancelledError",
                          ![c].future = IF @ = "unset" THEN "cancelled" ELSE @]
  /\ write_queue' = RemoveToken(write_queue, c)
  /\ UNCHANGED <<lifeVars, tableVars, queueVars, pipeVars>>

-----------------------------------------------------------------------------
(* stop() *)

\* Mutant: the calls still pending are not rejected.
FinaliseSilently(s) ==
  /\ process' = "none"
  /\ conn_state' = "disconnected"
  /\ stop' = [stop EXCEPT ![s] = "returned"]
  /\ UNCHANGED <<pending, pending_order, call>>

\* The last lines of stop(): they run without a suspension.
Finalise(s) ==
  /\ process' = "none"
  /\ conn_state' = "disconnected"
  /\ RejectAllPending
  /\ stop' = [stop EXCEPT ![s] = "returned"]

\* `self._process.returncode' and terminate(); None once another stop() has finished
Terminate(s) ==
  \/ /\ process = "none"
     /\ stop' = [stop EXCEPT ![s] = "crashed"]
     /\ UNCHANGED <<process, conn_state, pending, pending_order, call>>
  \/ /\ process = "set" /\ gdb = "exited"
     /\ Finalise(s)
  \/ /\ process = "set"
     /\ stop' = [stop EXCEPT ![s] = "exiting"]
     /\ UNCHANGED <<process, conn_state, pending, pending_order, call>>

\* After -gdb-exit: cancel the reader and wait for it, unless it is over already.
JoinReader(s) ==
  IF reader \in {"reading", "cancelled"}
  THEN /\ reader' = "cancelled"
       /\ stop' = [stop EXCEPT ![s] = "joining"]
       /\ UNCHANGED <<process, conn_state, pending, pending_order, call>>
  ELSE /\ reader' = "joined"
       /\ Terminate(s)

StopBegin(s) ==
  /\ stop[s] = "never"
  /\ \/ /\ process = "none"
        /\ conn_state' = "disconnected"
        /\ stop' = [stop EXCEPT ![s] = "returned"]
        /\ UNCHANGED <<process, reader, pending, pending_order, call, stdin, write_queue>>
     \/ /\ process = "set" /\ LockFree
        /\ WriteRaw("exit")
        /\ JoinReader(s)
        /\ UNCHANGED write_queue
     \/ /\ process = "set" /\ ~ LockFree
        /\ stop' = [stop EXCEPT ![s] = "locking"]
        /\ Enqueue(s)
        /\ UNCHANGED <<process, conn_state, reader, pending, pending_order, call, stdin>>
  /\ UNCHANGED <<start, gdb, token_counter, queueVars, stdout>>

StopLockAcquired(s) ==
  /\ HoldsLock(s)
  /\ stop[s] = "locking"
  /\ WriteRaw("exit")
  /\ write_queue' = Tail(write_queue)
  /\ JoinReader(s)
  /\ UNCHANGED <<start, gdb, token_counter, queueVars, stdout>>

StopJoined(s) ==
  /\ stop[s] = "joining"
  /\ reader' = "joined"
  /\ Terminate(s)
  /\ UNCHANGED <<start, gdb, token_counter, queueVars, write_queue, pipeVars>>

\* process.wait() returned within its three seconds
StopReaped(s) ==
  /\ stop[s] = "exiting"
  /\ gdb = "exited"
  /\ Finalise(s)
  /\ UNCHANGED <<start, gdb, reader, token_counter, queueVars, write_queue, pipeVars>>

\* the three seconds are over: kill(), on None if another stop() has finished
StopKills(s) ==
  /\ stop[s] = "exiting"
  /\ IF process = "none"
     THEN /\ stop' = [stop EXCEPT ![s] = "crashed"]
          /\ UNCHANGED <<process, conn_state, gdb, pending, pending_order, call,
                         stdin>>
     ELSE /\ gdb' = "exited"
          /\ stdin' = <<>>
          /\ Finalise(s)
  /\ UNCHANGED <<start, reader, token_counter, queueVars, write_queue, stdout>>

-----------------------------------------------------------------------------
(* _reader_loop() and _dispatch() *)

Reading == reader = "reading"

ReadRecord(type) ==
  /\ Reading
  /\ stdout # <<>>
  /\ Head(stdout).type = type
  /\ stdout' = Tail(stdout)

\* Mutant: no return after the token's future is resolved.
HandleResultTwice(record) ==
  LET taken == {record.token} \cap pending
      rest == RemoveToken(pending_order, record.token)
      oldest == IF rest = <<>> THEN {} ELSE {Head(rest)}
  IN  /\ pending' = pending \ (taken \cup oldest)
      /\ pending_order' = IF rest = <<>> THEN rest ELSE Tail(rest)
      /\ call' = [c \in Callers |->
                     IF \E t \in taken \cup oldest : Awaits(c, t)
                     THEN [call[c] EXCEPT !.future = record.class, !.answer = record.token]
                     ELSE call[c]]

\* _handle_result: the token's future, else the oldest pending one
HandleResult(record) ==
  IF record.token \in pending
  THEN /\ ForgetToken(record.token)
       /\ SetResult(record.token, record.class, record.token)
  ELSE IF pending_order # <<>>
  THEN /\ pending' = pending \ {Head(pending_order)}
       /\ pending_order' = Tail(pending_order)
       /\ SetResult(Head(pending_order), record.class, record.token)
  ELSE UNCHANGED <<pending, pending_order, call>>

ReadResult ==
  /\ ReadRecord("result")
  /\ HandleResult(Head(stdout))
  /\ UNCHANGED <<lifeVars, token_counter, queueVars, write_queue, stdin>>

\* Mutant: no bound.
PutEventUnbounded(queue, class) == Append(queue, class)

\* Mutant: the new event is the one dropped.
PutEventDropNewest(queue, class) ==
  IF Len(queue) < QueueSize THEN Append(queue, class) ELSE queue

\* put_nowait, dropping the oldest event when the queue is full
PutEvent(queue, class) ==
  IF Len(queue) < QueueSize THEN Append(queue, class) ELSE Append(Tail(queue), class)

\* _handle_async
ReadAsync ==
  /\ ReadRecord("async")
  /\ LET class == Head(stdout).class
     IN  /\ conn_state' = IF class = "notify" THEN conn_state ELSE class
         /\ event_queue' = PutEvent(event_queue, class)
  /\ UNCHANGED <<start, process, gdb, reader, stop, tableVars, console_queue,
                 write_queue, call, stdin>>

\* _handle_stream: a full console queue drops the new text
ReadConsole ==
  /\ ReadRecord("console")
  /\ console_queue' = IF Len(console_queue) < QueueSize
                      THEN Append(console_queue, "text")
                      ELSE console_queue
  /\ UNCHANGED <<lifeVars, tableVars, event_queue, write_queue, call, stdin>>

\* Mutant: the loop goes on after the exception.
ReaderGoesOn ==
  /\ conn_state' = "exited"
  /\ RejectAllPending
  /\ UNCHANGED <<start, process, gdb, reader, stop, token_counter, queueVars,
                 write_queue, stdin>>

ReaderGivesUp ==
  /\ conn_state' = "exited"
  /\ reader' = "ended"
  /\ RejectAllPending
  /\ UNCHANGED <<start, process, gdb, stop, token_counter, queueVars, write_queue, stdin>>

\* `except Exception': GDB may well be alive
ReaderError == ReadRecord("overlong") /\ ReaderGivesUp

ReaderEOF ==
  /\ Reading
  /\ gdb = "exited"
  /\ stdout = <<>>
  /\ ReaderGivesUp
  /\ UNCHANGED stdout

-----------------------------------------------------------------------------
(* External: the consumers of the two queues (DebugSession), and GDB. *)

EventTaken ==
  /\ event_queue # <<>>
  /\ event_queue' = Tail(event_queue)
  /\ UNCHANGED <<lifeVars, tableVars, console_queue, write_queue, call, pipeVars>>

ConsoleTaken ==
  /\ console_queue # <<>>
  /\ console_queue' = Tail(console_queue)
  /\ UNCHANGED <<lifeVars, tableVars, event_queue, write_queue, call, pipeVars>>

Emit(record) == stdout' = Append(stdout, record)

\* GDB reads one line and answers it; a raw line has no token, nor has its answer.
GdbAnswers(class) ==
  /\ gdb = "alive"
  /\ stdin # <<>>
  /\ Head(stdin).text # "exit"
  /\ Emit([type |-> "result", token |-> Head(stdin).token, class |-> class])
  /\ stdin' = Tail(stdin)
  /\ UNCHANGED <<lifeVars, tableVars, queueVars, write_queue, call>>

\* ^exit, then GDB is gone
GdbExits ==
  /\ gdb = "alive"
  /\ stdin # <<>>
  /\ Head(stdin).text = "exit"
  /\ Emit([type |-> "result", token |-> RawToken, class |-> "done"])
  /\ gdb' = "exited"
  /\ stdin' = <<>>
  /\ UNCHANGED <<conn_state, start, process, reader, stop, tableVars, queueVars,
                 write_queue, call>>

GdbEmits(record) ==
  /\ gdb = "alive"
  /\ Len(stdout) < MaxPipe
  /\ Emit(record)
  /\ UNCHANGED <<lifeVars, tableVars, queueVars, write_queue, call, stdin>>

\* GDB crashes, or obeys SIGTERM
GdbDies ==
  /\ gdb = "alive"
  /\ gdb' = "exited"
  /\ stdin' = <<>>
  /\ UNCHANGED <<conn_state, start, process, reader, stop, tableVars, queueVars,
                 write_queue, call, stdout>>

-----------------------------------------------------------------------------

Start == StartBegin \/ StartDone \/ StartFailed

Caller(c) ==
  \/ SendRefused(c)
  \/ \E big \in Sizes : Send(c, big)
  \/ CommandLockAcquired(c)
  \/ Drained(c)
  \/ TimerFires(c)
  \/ TimeoutHandled(c)
  \/ InterruptLockAcquired(c)
  \/ CallerResumes(c)
  \/ CallCancelled(c)

Stopper(s) ==
  StopBegin(s) \/ StopLockAcquired(s) \/ StopJoined(s) \/ StopReaped(s) \/ StopKills(s)

Reader == ReadResult \/ ReadAsync \/ ReadConsole \/ ReaderError \/ ReaderEOF

Session == EventTaken \/ ConsoleTaken

Gdb ==
  \/ \E class \in {"done", "error"} : GdbAnswers(class)
  \/ GdbExits
  \/ \E class \in Classes : GdbEmits([type |-> "async", class |-> class])
  \/ GdbEmits([type |-> "console"])
  \/ GdbEmits([type |-> "overlong"])
  \/ GdbDies

Next ==
  \/ Start
  \/ \E c \in Callers : Caller(c)
  \/ \E s \in Stoppers : Stopper(s)
  \/ Reader
  \/ Session
  \/ Gdb

Spec == Init /\ [][Next]_vars

-----------------------------------------------------------------------------
(* Fairness.  The event loop runs every ready task and every timer in the  *)
(* end: that is CodeFairness.  Nothing makes GDB answer; GdbReads is the    *)
(* assumption that it goes on reading commands, though it may never obey    *)
(* -gdb-exit.                                                              *)

CallerProgress(c) ==
  CommandLockAcquired(c) \/ Drained(c) \/ TimeoutHandled(c)
    \/ InterruptLockAcquired(c) \/ CallerResumes(c)

StopProgress(s) ==
  StopLockAcquired(s) \/ StopJoined(s) \/ StopReaped(s) \/ StopKills(s)

CodeFairness ==
  /\ \A c \in Callers : WF_vars(CallerProgress(c))
  /\ \A s \in Stoppers : WF_vars(StopProgress(s))
  /\ WF_vars(Reader)

TimerFairness == \A c \in Callers : WF_vars(TimerFires(c))

GdbReads == WF_vars(\E class \in {"done", "error"} : GdbAnswers(class))

\* Everything the code controls, with a GDB that reads its commands.
FairSpec == Spec /\ CodeFairness /\ TimerFairness /\ GdbReads

\* The same with a GDB that may hang.
HungGdbSpec == Spec /\ CodeFairness /\ TimerFairness

-----------------------------------------------------------------------------
(* Properties. *)

Ascending(order) == \A i, j \in DOMAIN order : i < j => order[i] < order[j]

\* Every variable keeps to its values; both queues keep to maxsize.
TypeOK ==
  /\ conn_state \in States
  /\ start \in {"never", "spawning", "done", "failed"}
  /\ process \in {"none", "set"}
  /\ gdb \in {"none", "alive", "exited"}
  /\ reader \in {"none", "reading", "cancelled", "ended", "joined"}
  /\ token_counter \in Nat \ {0}
  /\ pending \subseteq Nat \ {0}
  /\ pending_order \in Seq(Nat)
  /\ write_queue \in Seq(Tasks)
  /\ event_queue \in Seq(Classes) /\ Len(event_queue) <= QueueSize
  /\ console_queue \in Seq({"text"}) /\ Len(console_queue) <= QueueSize
  /\ call \in [Callers -> CallRecord]
  /\ stop \in [Stoppers -> StopSteps]
  /\ stdin \in Seq(Input)
  /\ stdout \in Seq(Record)

\* _pending and _pending_order name the same tokens, the list oldest first, whatever
\* mixture of answers, stray answers, timeouts and rejections took tokens out: else
\* the fallback of _handle_result would pop a token nobody waits for.
PendingInStep ==
  /\ Range(pending_order) = pending
  /\ Ascending(pending_order)
  /\ \A t \in pending : t < token_counter

\* A caller whose future is unset is still in the table, so that an answer, an EOF
\* or stop() can reach it: no handler takes a token out and forgets its future.
NobodyStranded ==
  \A c \in Callers :
    call[c].pc \in Active /\ call[c].future = "unset" => call[c].token \in pending

\* Once stop() has let the process go, no call waits for an answer that cannot come,
\* also not one that was queued for the lock or registered while stop() was waiting.
ClosedMeansSettled ==
  conn_state = "disconnected" \/ process = "none" =>
    /\ pending = {}
    /\ \A c \in Callers : call[c].pc \in Active => call[c].future # "unset"

\* A result record resolves at most one call.
OneCallPerAnswer ==
  \A c, d \in Callers :
    /\ call[c].future \in {"done", "error"} /\ call[d].future \in {"done", "error"}
    /\ call[c].answer = call[d].answer /\ call[c].answer # RawToken
    => c = d

\* The exec events still queued for the session end in the state the connection
\* shows: dropping events on overflow never drops the latest word on the target.
QueueEndsInState ==
  LET exec == {i \in DOMAIN event_queue : event_queue[i] # "notify"}
  IN  conn_state \in {"running", "stopped"} /\ exec # {} =>
        event_queue[CHOOSE i \in exec : \A j \in exec : j <= i] = conn_state

\* A connection that lost its reader never looks alive again; only stop() leaves
\* "exited", whatever GDB had still written.
ExitedIsFinal ==
  [][conn_state = "exited" => conn_state' \in {"exited", "disconnected"}]_vars

\* What the class promises ("token-based command/response matching", line 44): the
\* record a call returns is the answer to its own command.
OwnAnswer ==
  \A c \in Callers : call[c].pc = "returned" => call[c].answer = call[c].token

\* Part of EveryCallFinishes: a command that is being sent or waited for ends.
SendFinishes ==
  \A c \in Callers : call[c].pc \in Active ~> call[c].pc \in Finished

\* Part of EveryCallFinishes: a stop() that has asked for the write lock ends.
StopFinishes ==
  \A s \in Stoppers :
    stop[s] \in {"locking", "joining", "exiting"} ~> stop[s] \in {"returned", "crashed"}

\* Every send() returns or raises, and every stop() that began is over in the end
\* ("Shut down GDB gracefully", line 117), although both wait for the write lock.
EveryCallFinishes == SendFinishes /\ StopFinishes

-----------------------------------------------------------------------------
(* The connection as the channel its users see. *)

ChannelPhase ==
  IF start # "done" THEN "new"
  ELSE IF process = "none" THEN "closed"
  ELSE IF conn_state = "exited" THEN "lost"
  ELSE "up"

RequestOf(c) ==
  IF call[c].pc \notin Active THEN "idle"
  ELSE CASE call[c].future = "unset" -> "asked"
         [] call[c].future \in {"done", "error"} -> "answered"
         [] call[c].future = "rejected" -> "rejected"
         [] OTHER -> "abandoned"

Channel == INSTANCE CommandChannel
             WITH phase <- ChannelPhase, request <- [c \in Callers |-> RequestOf(c)]

\* The connection implements the channel: in particular a result resolves one call and
\* only while the reader lives, and EOF, a reader error and stop() reject every open
\* request in the step that makes an answer impossible.
ImplementsChannel == Channel!Spec
=============================================================================
