----------------------------- MODULE Inspection -----------------------------
(***************************************************************************)
(* The tools that look at one session through several commands             *)
(* (src/server/mcp_server.py, src/server/gdb/session.py): registers,       *)
(* memory, backtrace, expressions, disassembly, source, symbols, raw GDB   *)
(* commands, the dashboard and the fault analysis.                         *)
(*                                                                         *)
(* A tool is a script of steps.  A step sends one command, and the tool is *)
(* suspended until the answer is there; other tools, and whoever resumes   *)
(* the target or disconnects the session, take their steps in between.     *)
(* raw_command does not find its output in the answer but in the console   *)
(* queue, one for the whole session: it drains the queue, sends, waits for *)
(* the answer, sleeps and takes whatever the queue then holds.             *)
(***************************************************************************)
EXTENDS GdbLink, FaultDiagnosis, SequencesExt

CONSTANTS
    ToolsOf,     \* the tools that each client calls
    QueueSize,   \* maxsize of the console queue
    Lines,       \* how many lines a console command may print
    Faults,      \* what CFSR and HFSR may hold together on the modelled target
    Failing,     \* the pieces that GDB may fail to give while the target is halted
    MaxCalls,    \* bound: how many calls each client makes
    MaxRuns      \* bound: how often the target is resumed

ASSUME InspectionAssumption ==
    /\ QueueSize \in Nat \ {0} /\ Lines \subseteq Nat
    /\ MaxCalls \in Nat /\ MaxRuns \in Nat

VARIABLES
    connected,  \* session._conn is not None
    running,    \* GDBState.RUNNING
    runs,       \* how often the target was resumed
    status,     \* the target's fault status registers
    console,    \* the console queue
    call,       \* each client's call, the last one if it has ended
    calls       \* how many calls each client has made

vars == <<linkVars, connected, running, runs, status, console, call, calls>>

-----------------------------------------------------------------------------
(* Scripts *)

(***************************************************************************)
(* A step asks GDB for a piece of the result, found under a name (form) in *)
(* the answer, or runs a console command: "print" looks at the answer      *)
(* only, "raw" is raw_command.  stopped: the step begins with              *)
(* _require_state(STOPPED).  needs: the step is left out unless these      *)
(* pieces are there.  unpack: an answer without the piece raises.          *)
(* catch: the errors that do not end the tool.  full, empty and bad say    *)
(* how many steps further the tool goes on when the piece is there, when   *)
(* it is empty and when an error was caught.                               *)
(***************************************************************************)
Step(kind, piece, form, stopped) ==
    [kind |-> kind, piece |-> piece, form |-> form, stopped |-> stopped,
     needs |-> {}, unpack |-> FALSE, catch |-> {}, full |-> 1, empty |-> 1, bad |-> 1]

GdbErrors == {"error"}
AllErrors == {"error", "timeout", "closed", "refused"}

\* except GDBError, and except Exception, around one step.
CatchGdb(s) == [s EXCEPT !.catch = GdbErrors]
CatchAll(s) == [s EXCEPT !.catch = AllErrors]

Names == Step("ask", "names", "register-names", TRUE)
RegValues == Step("ask", "values", "register-values", FALSE)
Memory(piece) == Step("ask", piece, "memory", TRUE)
Frames == Step("ask", "frames", "stack", TRUE)
Locals == Step("ask", "locals", "locals", FALSE)
Code(piece) == Step("ask", piece, "asm_insns", FALSE)
Evaluate(piece) == Step("ask", piece, "value", TRUE)
Raw(piece) == Step("raw", piece, "console", FALSE)

\* Mutant: a status register that cannot be read ends the analysis when the
\* error is not one that GDB reports.
FaultReadGdb(r) == CatchGdb([Memory(r) EXCEPT !.unpack = TRUE])

\* A status register that cannot be read counts as zero, whatever the error.
FaultRead(r) == CatchAll([Memory(r) EXCEPT !.unpack = TRUE])

\* The stacked frame is read last, in one try with the core registers, and
\* only if these give a stack pointer.
FaultScript ==
    [i \in DOMAIN FaultRegs |-> FaultRead(FaultRegs[i])] \o
    <<CatchAll(Frames),
      [CatchAll(Names) EXCEPT !.bad = 3],
      [CatchAll(RegValues) EXCEPT !.bad = 2],
      CatchAll([Memory("frame") EXCEPT !.unpack = TRUE, !.needs = {"names", "values"}])>>

\* With or without a window on data.
DashboardScript(window) ==
    <<Names, RegValues,
      [CatchAll(Code("mixed")) EXCEPT !.full = 2], CatchAll(Code("plain")),
      CatchAll(Memory("stack"))>> \o window \o <<CatchAll(Frames), CatchAll(Raw("list"))>>

SymbolScript ==
    <<CatchGdb(Raw("ptype")), CatchGdb(Raw("address")), CatchGdb(Evaluate("value")),
      CatchGdb(Evaluate("size")), CatchGdb(Raw("info"))>>

\* A tool has one script for each way through it that its arguments, or the
\* words of an output ("No", for source_none), choose.
Script == [
    register_read |-> <<Names, RegValues>>,
    memory_read |-> <<Memory("memory")>>,
    backtrace |-> <<Frames, CatchGdb(Locals)>>,
    evaluate |-> <<Evaluate("value")>>,
    gdb_raw |-> <<Raw("output")>>,
    disassemble_function |-> <<Code("code")>>,
    disassemble_pc |-> <<Names, RegValues, Code("code")>>,
    source_line |-> <<Raw("list"), Frames>>,
    source_function |-> <<Step("print", "line", "none", FALSE), Raw("list"), Frames>>,
    source_current |-> <<[Raw("around") EXCEPT !.full = 2], Raw("list"), Frames>>,
    source_none |-> <<Raw("around"), Raw("list"), Frames>>,
    symbol_info |-> SymbolScript,
    symbol_address |-> <<CatchGdb(Raw("symbol")), CatchGdb(Raw("source"))>>,
    target_dashboard |-> DashboardScript(<<>>),
    dashboard_data |-> DashboardScript(<<CatchAll(Memory("data"))>>),
    fault_analyze |-> FaultScript]

Tools == DOMAIN Script

-----------------------------------------------------------------------------
(* Calls *)

Idle == "idle"

\* A call: the step it is at, what it has been given, and, as history,
\* whether another client's console command or a stop fell into its raw
\* command, how many lines that command printed, and whether the target was
\* resumed since the call began.
NewCall(tool) ==
    [tool |-> tool, at |-> 1, phase |-> "begun", got |-> {},
     disturbed |-> FALSE, wrote |-> 0, moved |-> FALSE]

\* The call is over, with a result ("ended") or with an exception ("failed").
Over(mine, how) == [NewCall(mine.tool) EXCEPT !.phase = how]

StepOf(c) == Script[call[c].tool][call[c].at]

InCall(c) == call[c].phase \in {"waiting", "sleeping"}

\* The call is between the drain and the collection of a raw command.
InRaw(c) == InCall(c) /\ StepOf(c).kind = "raw"

\* The call runs a console command.
InConsole(c) == InCall(c) /\ StepOf(c).kind # "ask"

\* Mutant: the queue takes every line.
QueuedAll(queue, more) == queue \o more

\* put_nowait: what does not fit in the queue is dropped.
Queued(queue, more) == SubSeq(queue \o more, 1, Min({QueueSize, Len(queue) + Len(more)}))

\* A line that is printed now, with, as history, the raw commands that run.
Line(by) == [by |-> by, fresh |-> {c \in Clients : InRaw(c)}]

\* BFAR holds the address of a precise bus fault.
StatusOf(f) ==
    [cfsr |-> f.cfsr, hfsr |-> f.hfsr,
     bfar |-> IF "PRECISERR" \in f.cfsr THEN {"address"} ELSE {}]

\* Every variable keeps to its values; the console queue to its size.
TypeOK ==
    /\ timeouts \in 0..MaxTimeouts /\ runs \in 0..MaxRuns
    /\ connected \in BOOLEAN /\ running \in BOOLEAN
    /\ status \in {StatusOf(f) : f \in Faults}
    /\ Len(console) <= QueueSize
    /\ calls \in [Clients -> 0..MaxCalls]
    /\ \A c \in Clients : calls[c] > 0 =>
          /\ call[c].tool \in ToolsOf[c]
          /\ call[c].phase \in {"waiting", "sleeping", "ended", "failed"}
          /\ InCall(c) => call[c].at \in DOMAIN Script[call[c].tool]
    /\ \A c \in Clients : call[c].phase # "waiting" => reply[c] = Nothing

Init ==
    /\ LinkInit
    /\ connected = TRUE
    /\ running \in BOOLEAN
    /\ runs = 0
    /\ \E f \in Faults : status = StatusOf(f)
    /\ console = <<>>
    /\ call = [c \in Clients |-> [NewCall(Idle) EXCEPT !.phase = Idle]]
    /\ calls = [c \in Clients |-> 0]

\* Nothing can be sent: the session is disconnected, or the step is refused
\* because the target runs.
Refused(s) == ~connected \/ (s.stopped /\ running)

\* The step at which a call that has come to step i is next suspended; one
\* after the last if it ends, 0 if it fails.  Refused steps whose errors are
\* caught, and steps that lack what they need, are passed over at once.
Suspends(script, have, i) ==
    LET end == Len(script) + 1
        to[k \in 1..(end + 3)] ==
            IF k >= end THEN end
            ELSE IF ~(script[k].needs \subseteq have) THEN to[k + 1]
            ELSE IF ~Refused(script[k]) THEN k
            ELSE IF "refused" \in script[k].catch THEN to[k + script[k].bad]
            ELSE 0
    IN  to[i]

\* Mutant: what the queue still holds is left in it.
DrainsNothing(c, queue) ==
    [i \in DOMAIN queue |-> [queue[i] EXCEPT !.fresh = @ \ {c}]]

\* raw_command drains the console queue.
Drained(c, queue) == <<>>

\* The calls once c has begun a step of this kind.
Meeting(c, k, mine) ==
    [d \in Clients |->
        IF d = c
        THEN [mine EXCEPT !.wrote = 0, !.disturbed = \E e \in Clients \ {c} : InConsole(e)]
        ELSE IF k # "ask" /\ InRaw(d) THEN [call[d] EXCEPT !.disturbed = TRUE] ELSE call[d]]

\* c's call, now mine, comes to step i, with this queue left behind.
GoesOn(c, mine, i, queue) ==
    LET script == Script[mine.tool]
        k == Suspends(script, {g.piece : g \in mine.got}, i)
    IN  /\ reply' = [reply EXCEPT ![c] = Nothing]
        /\ IF k \in DOMAIN script
           THEN /\ call' = Meeting(c, script[k].kind, [mine EXCEPT !.at = k, !.phase = "waiting"])
                /\ pipe' = Append(pipe, [client |-> c, cmd |-> script[k].kind,
                                         piece |-> script[k].piece, form |-> script[k].form])
                /\ console' = IF script[k].kind = "raw" THEN Drained(c, queue) ELSE queue
           ELSE /\ call' = [call EXCEPT ![c] =
                       Over(mine, IF k = 0 THEN "failed" ELSE "ended")]
                /\ console' = queue
                /\ UNCHANGED pipe

Begins(c, tool) ==
    /\ connected
    /\ ~InCall(c)
    /\ calls[c] < MaxCalls
    /\ calls' = [calls EXCEPT ![c] = @ + 1]
    /\ GoesOn(c, NewCall(tool), 1, console)
    /\ UNCHANGED <<timeouts, connected, running, runs, status>>

\* An error of the current step: the tool ends or goes on behind the step.
Catches(c, error) ==
    IF error \in StepOf(c).catch
    THEN GoesOn(c, call[c], call[c].at + StepOf(c).bad, console)
    ELSE /\ call' = [call EXCEPT ![c] = Over(call[c], "failed")]
         /\ reply' = [reply EXCEPT ![c] = Nothing]
         /\ UNCHANGED <<pipe, console>>

\* What the step finds in an answer: of another command's, mostly nothing.
Found(s, answer) ==
    IF "form" \in DOMAIN answer /\ answer.form = s.form
    THEN {[piece |-> s.piece, bits |-> answer.bits]} ELSE {}

\* The pieces that later steps or the diagnosis of fault_analyze look at.
Used == {"names", "values", "CFSR", "HFSR", "BFAR"}

\* The answer to a command is there.
Returns(c) ==
    /\ call[c].phase = "waiting"
    /\ reply[c] # Nothing
    /\ LET s == StepOf(c)
           found == Found(s, reply[c])
       IN  \/ /\ ~Ok(reply[c])
              /\ Catches(c, reply[c].kind)
           \/ /\ Ok(reply[c]) /\ s.kind = "raw"
              /\ call' = [call EXCEPT ![c].phase = "sleeping"]
              /\ reply' = [reply EXCEPT ![c] = Nothing]
              /\ UNCHANGED <<pipe, console>>
           \/ /\ Ok(reply[c]) /\ s.kind # "raw" /\ s.unpack /\ found = {}
              /\ Catches(c, "refused")
           \/ /\ Ok(reply[c]) /\ s.kind # "raw" /\ (s.unpack => found # {})
              /\ GoesOn(c, [call[c] EXCEPT !.got = @ \cup {g \in found : g.piece \in Used}],
                        call[c].at + (IF found = {} THEN s.empty ELSE s.full), console)
    /\ UNCHANGED <<timeouts, connected, running, runs, status, calls>>

\* Mutant: one line is taken instead of all.
OutputFirst == IF console = <<>> THEN <<>> ELSE <<Head(console)>>

\* output_parts, once the queue is empty.
Output == console

\* raw_command wakes and takes what the queue holds.
Collects(c) ==
    /\ call[c].phase = "sleeping"
    /\ IF connected
       THEN GoesOn(c, call[c],
                   call[c].at + (IF Output = <<>> THEN StepOf(c).empty ELSE StepOf(c).full), <<>>)
       ELSE Catches(c, "refused")
    /\ UNCHANGED <<timeouts, connected, running, runs, status, calls>>

GivesUp(c) ==
    /\ TimesOut(c)
    /\ UNCHANGED <<connected, running, runs, status, console, call, calls>>

-----------------------------------------------------------------------------
(* GDB, the target and the other tools of the session *)

\* Mutant: HFSR is read at the address of CFSR.
ContentOfCfsr(piece) ==
    CASE piece \in {"CFSR", "HFSR"} -> status.cfsr
      [] piece = "BFAR" -> status.bfar
      [] OTHER -> {}

\* The content of a piece, as far as it is modelled.
Content(piece) ==
    CASE piece = "CFSR" -> status.cfsr
      [] piece = "HFSR" -> status.hfsr
      [] piece = "BFAR" -> status.bfar
      [] OTHER -> {}

\* GDB executes a command that asks for a piece: an answer with the piece,
\* an error, or, to -data-disassemble, an answer without instructions.
ExecutesAsk ==
    /\ pipe # <<>> /\ Head(pipe).cmd \in {"ask", "interrupt"}
    /\ LET q == Head(pipe) IN
         \/ q = Interrupt /\ Answers(Done)
         \/ (running \/ (q # Interrupt /\ q.piece \in Failing)) /\ Answers(GdbError)
         \/ /\ q # Interrupt /\ ~running
            /\ Answers([kind |-> "done", form |-> q.form, bits |-> Content(q.piece)])
         \/ q # Interrupt /\ q.form = "asm_insns" /\ ~running /\ Answers(Done)
    /\ UNCHANGED <<timeouts, connected, running, runs, status, console, call, calls>>

\* GDB executes a console command: it prints, then answers.  Some commands
\* work while the target runs.
ExecutesConsole ==
    /\ pipe # <<>> /\ Head(pipe).cmd \in {"raw", "print"}
    /\ LET q == Head(pipe) IN
         \E n \in Lines :
            /\ console' = Queued(console, [i \in 1..n |-> Line(q.client)])
            /\ call' = IF q.client = Nobody THEN call ELSE [call EXCEPT ![q.client].wrote = n]
            /\ \/ Answers(Done)
               \/ (running \/ q.piece \in Failing) /\ Answers(GdbError)
    /\ UNCHANGED <<timeouts, connected, running, runs, status, calls>>

Resumes ==
    /\ connected /\ ~running
    /\ runs < MaxRuns
    /\ running' = TRUE
    /\ runs' = runs + 1
    /\ call' = [c \in Clients |-> [call[c] EXCEPT !.moved = InCall(c)]]
    /\ UNCHANGED <<linkVars, connected, status, console, calls>>

\* The target halts, with whatever status the time it ran has left; GDB may
\* say so on the console.
Halts ==
    /\ connected /\ running
    /\ running' = FALSE
    /\ \E f \in Faults : status' = StatusOf(f)
    /\ console' \in {console, Queued(console, <<Line("target")>>)}
    /\ call' = [c \in Clients |-> [call[c] EXCEPT !.moved = InCall(c), !.disturbed = @ \/ InRaw(c)]]
    /\ UNCHANGED <<linkVars, connected, runs, calls>>

\* session_disconnect: GDB is gone and every command that waits is rejected.
Disconnects ==
    /\ connected
    /\ connected' = FALSE
    /\ pipe' = <<>>
    /\ reply' = [c \in Clients |->
          IF \E i \in Waiting : pipe[i].client = c THEN [kind |-> "closed"] ELSE reply[c]]
    /\ console' = <<>>
    /\ UNCHANGED <<timeouts, running, runs, status, call, calls>>

\* Nothing is left to do.
Finished ==
    /\ \A c \in Clients : ~InCall(c)
    /\ UNCHANGED vars

-----------------------------------------------------------------------------

Next ==
    \/ \E c \in Clients :
          \/ \E tool \in ToolsOf[c] : Begins(c, tool)
          \/ Returns(c) \/ Collects(c) \/ GivesUp(c)
    \/ ExecutesAsk \/ ExecutesConsole
    \/ Resumes \/ Halts \/ Disconnects
    \/ Finished

Spec == Init /\ [][Next]_vars

-----------------------------------------------------------------------------

Collected(c) == call[c].phase = "sleeping" /\ call'[c].phase # "sleeping" /\ connected

\* What raw_command returns was printed after the call was made: nothing that
\* lay in the queue before. (It may still be the late output of a command that
\* timed out and that GDB executes only now: see OwnOutput.)
NothingStale ==
    [][\A c \in Clients : Collected(c) => \A i \in DOMAIN Output : c \in Output[i].fresh]_vars

\* What raw_command returns is the output of its own command, whole as far as
\* the queue holds it, unless another console command overlapped, the target
\* stopped in between, or a command had timed out ("Execute a raw GDB command
\* and return console output").
OwnOutput ==
    [][\A c \in Clients : Collected(c) /\ ~call[c].disturbed /\ timeouts = 0 =>
          /\ \A i \in DOMAIN Output : Output[i].by = c
          /\ Len(Output) = Min({call[c].wrote, QueueSize})]_vars

\* fault_analyze gives its report whatever happens on the way: errors of GDB,
\* timeouts, answers of other commands, a target that runs, a disconnect.
AlwaysReports == \A c \in Clients : call[c].tool = "fault_analyze" => call[c].phase # "failed"

\* What fault_analyze takes a register to hold; zero if the read failed.
RawReg(c, r) == UNION {g.bits : g \in {h \in call[c].got : h.piece = r}}

Report(c) == Diagnosis([r \in ToSet(FaultRegs) |-> RawReg(c, r)])

Read(c, pieces) == pieces \subseteq {g.piece : g \in call[c].got}

Reports(c) == call[c].tool = "fault_analyze" /\ InCall(c) /\ call'[c].phase = "ended"

\* If the target stayed where it was, nothing timed out and the status could
\* be read, each fault that fault_analyze can explain is explained if and only
\* if it happened, and the address of a precise bus fault is shown if and only
\* if the core vouches for it.
FaultsExplained ==
    [][\A c \in Clients :
        Reports(c) /\ ~call[c].moved /\ timeouts = 0 /\ Read(c, {"CFSR", "HFSR"}) =>
            /\ \A b \in Diagnosed : b \in status.cfsr <=> b \in Report(c).sentences
            /\ "FORCED" \in status.hfsr /\ status.cfsr = {} => Report(c).generic
            /\ Read(c, {"BFAR"}) =>
                  (Report(c).bfar # {} <=> status.bfar # {} /\ "BFARVALID" \in status.cfsr)]_vars

\* The report shows no content for a register that could not be read: the
\* docstring of fault_analyze says that it reads them.
ShownIsRead == [][\A c \in Clients : Reports(c) => Read(c, {"CFSR", "HFSR"})]_vars

\* The sentence "HardFault with FORCED bit but no specific CFSR bits set" is
\* given only if no bit of CFSR is set.
GenericIsTrue ==
    [][\A c \in Clients :
        Reports(c) /\ Report(c).generic /\ ~call[c].moved => status.cfsr = {}]_vars

=============================================================================
