------------------------- MODULE CaptureCoordinator -------------------------
(***************************************************************************)
(* server/saleae/capture.py: the captures of one session's                 *)
(* CaptureCoordinators, as saleae_connect makes them, and the target they  *)
(* drive.  Logic 2 (one capture at a time), its blocking calls in executor *)
(* threads, GDB and the target are external.                               *)
(***************************************************************************)
EXTENDS Naturals

CONSTANTS Clients,       \* tasks inside a capture_* method
          Kinds,         \* what each client calls: "timed", "triggered", "around"
          Analyzers,     \* how many analyzers each client may ask for
          MaxCaptures,   \* bound: captures started in a behaviour
          MaxConnects    \* bound: saleae_connect calls that succeed

ASSUME CaptureAssumption ==
  /\ \A c \in Clients : Kinds[c] \subseteq {"timed", "triggered", "around"}
  /\ \A c \in Clients : Analyzers[c] \subseteq Nat
  /\ MaxCaptures \in Nat /\ MaxConnects \in Nat

Captures == 1..MaxCaptures
Coordinators == 1..MaxConnects

VARIABLES
  created,      \* CaptureCoordinators made so far; each has its own SaleaeConnection
  registered,   \* _saleae_coordinators[session_id], 0 for none
  connected,    \* coordinators whose connection is_connected
  current,      \* each coordinator's _current_capture, 0 for None
  capture,      \* Logic 2: each capture is "unused", "recording" or "ended"
  target,       \* "halted", "running"
  client,       \* what each client is doing
  covered,      \* history: captures that were recording when their run stopped
  abandoned     \* history: captures left to Logic 2, see NoCaptureLeft

connection == <<created, registered, connected>>
history == <<covered, abandoned>>
vars == <<connection, current, capture, target, client, history>>

\* Where a client is suspended, and what it has returned.
Active == {"inserting", "starting", "started", "waiting", "continuing", "dwelling",
           "stopping", "extracting", "exporting", "cleaning"}
Finished == {"idle", "ok", "partial", "error"}

\* self: its coordinator; got: the capture start_capture() returned, 0 before; asked and
\* given: analyzers and their results; files: its temporary CSV files; stops: the capture its
\* clean-up is stopping; after: the result of the clean-up.
Idle == [kind |-> "timed", pc |-> "idle", self |-> 0, got |-> 0, asked |-> 0, given |-> 0,
         files |-> 0, stops |-> 0, after |-> "error"]

Client == [kind : {"timed", "triggered", "around"}, pc : Active \cup Finished,
           self : {0} \cup Coordinators, got : {0} \cup Captures, asked : Nat, given : Nat,
           files : Nat, stops : {0} \cup Captures, after : {"partial", "error"}]

Init ==
  /\ created = 0 /\ registered = 0 /\ connected = {}
  /\ current = [s \in Coordinators |-> 0]
  /\ capture = [k \in Captures |-> "unused"]
  /\ target = "halted"
  /\ client = [c \in Clients |-> Idle]
  /\ covered = {} /\ abandoned = {}

Recording == {k \in Captures : capture[k] = "recording"}

Goto(c, pc) == client' = [client EXCEPT ![c].pc = pc]

Current(c) == current[client[c].self]

Ended(k) == [capture EXCEPT ![k] = "ended"]

-----------------------------------------------------------------------------
(* mcp_server.py: the coordinator of the session *)

\* A new connection and a new coordinator, whatever there was before; the devices may
\* fail to be listed, which marks the connection as lost. A connection that fails
\* changes nothing.
SaleaeConnect(lists) ==
  /\ created < MaxConnects
  /\ created' = created + 1
  /\ registered' = created'
  /\ connected' = IF lists THEN connected \cup {created'} ELSE connected
  /\ UNCHANGED <<current, capture, target, client, history>>

SessionDisconnect ==
  /\ registered # 0
  /\ registered' = 0
  /\ UNCHANGED <<created, connected, current, capture, target, client, history>>

\* A tool finds the coordinator once; capture_timed and capture_triggered then start the
\* capture, capture_around_breakpoint sets a temporary breakpoint first.
Call(c, kind, analyzers) ==
  /\ client[c].pc \in Finished
  /\ client' = [client EXCEPT ![c] =
       IF registered \notin connected THEN [Idle EXCEPT !.kind = kind, !.pc = "error"]
       ELSE [Idle EXCEPT !.kind = kind, !.self = registered, !.asked = analyzers,
               !.pc = IF kind = "around" THEN "inserting" ELSE "starting"]]
  /\ UNCHANGED <<connection, current, capture, target, history>>

-----------------------------------------------------------------------------
(* the capture methods *)

\* An exception of set_breakpoint is not caught.
BreakpointSet(c) ==
  /\ client[c].pc = "inserting"
  /\ \E pc \in {"starting", "error"} : Goto(c, pc)
  /\ UNCHANGED <<connection, current, capture, target, history>>

\* Mutant: a second capture starts beside the first.
DeviceStartsAnyway(c, k) ==
  /\ client[c].pc = "starting"
  /\ capture[k] = "unused"
  /\ capture' = [capture EXCEPT ![k] = "recording"]
  /\ client' = [client EXCEPT ![c].pc = "started", ![c].got = k]
  /\ UNCHANGED <<connection, current, target, history>>

\* Logic 2 begins its next capture while none is recording.
Records(k) ==
  /\ Recording = {}
  /\ capture[k] = "unused" /\ \A j \in 1..(k - 1) : capture[j] # "unused"
  /\ capture' = [capture EXCEPT ![k] = "recording"]

\* In the executor: start_capture() returns a capture.
DeviceStarts(c, k) ==
  /\ client[c].pc = "starting" /\ Records(k)
  /\ client' = [client EXCEPT ![c].pc = "started", ![c].got = k]
  /\ UNCHANGED <<connection, current, target, history>>

\* Stopping _current_capture (held) as it is now, if there is one.
CleanUp(c, result, held) ==
  client' = [client EXCEPT ![c].pc = IF held = 0 THEN result ELSE "cleaning",
                           ![c].stops = held, ![c].after = result]

\* Mutant: the failed run returns without stopping the capture.
FailsAtOnce(c, held) == Goto(c, "error")

\* `except Exception' of the three methods: only one of them stops something
Fails(c, held) ==
  IF client[c].kind = "around" THEN CleanUp(c, "error", held) ELSE Goto(c, "error")

\* start_capture() raises and has started nothing.
DeviceRefuses(c) ==
  /\ client[c].pc = "starting"
  /\ Fails(c, Current(c))
  /\ UNCHANGED <<connection, current, capture, target, history>>

\* start_capture() raises because its answer is lost: nobody has the capture that records.
StartIsLost(c, k) ==
  /\ client[c].pc = "starting" /\ Records(k)
  /\ abandoned' = abandoned \cup {k}
  /\ Fails(c, Current(c))
  /\ UNCHANGED <<connection, current, target, covered>>

\* The task resumes with its capture; around: the target is resumed.
CaptureStarted(c) ==
  /\ client[c].pc = "started"
  /\ current' = [current EXCEPT ![client[c].self] = client[c].got]
  /\ IF client[c].kind # "around"
     THEN Goto(c, "waiting") /\ UNCHANGED target
     ELSE IF target = "halted"
     THEN Goto(c, "continuing") /\ target' = "running"
     ELSE Fails(c, client[c].got) /\ UNCHANGED target
  /\ UNCHANGED <<connection, capture, history>>

\* capture.wait() returns when the time is up or the trigger has fired.
CaptureComplete(c) ==
  /\ client[c].pc = "waiting"
  /\ capture' = Ended(client[c].got)
  /\ Goto(c, "extracting")
  /\ UNCHANGED <<connection, current, target, history>>

\* wait() raises: the capture is over (a device error) or goes on (Logic 2 is lost).
WaitFails(c) ==
  /\ client[c].pc = "waiting"
  /\ \/ capture' = Ended(client[c].got) /\ UNCHANGED abandoned
     \/ abandoned' = abandoned \cup {client[c].got} /\ UNCHANGED capture
  /\ Fails(c, Current(c))
  /\ UNCHANGED <<connection, current, target, covered>>

\* Mutant: only a timed capture is given up.
TimedWaitTimesOut(c) ==
  /\ client[c].pc = "waiting" /\ client[c].kind = "timed"
  /\ CleanUp(c, "partial", Current(c))
  /\ UNCHANGED <<connection, current, capture, target, history>>

\* A trigger that never fires leaves the capture alone.
WaitTimesOut(c) ==
  /\ client[c].pc = "waiting"
  /\ IF client[c].kind = "timed"
     THEN CleanUp(c, "partial", Current(c)) /\ UNCHANGED abandoned
     ELSE Goto(c, "partial") /\ abandoned' = abandoned \cup {client[c].got}
  /\ UNCHANGED <<connection, current, capture, target, covered>>

\* continue_execution returns at any stop: at which one is not looked at.
TargetStops(c) ==
  /\ client[c].pc = "continuing"
  /\ target' = "halted"
  /\ covered' = covered \cup ({client[c].got} \cap Recording)
  /\ Goto(c, "dwelling")
  /\ UNCHANGED <<connection, current, capture, abandoned>>

\* continue_execution raises TimeoutError (the target may run on) or something else.
ContinueFails(c) ==
  /\ client[c].pc = "continuing"
  /\ target' \in {"halted", "running"}
  /\ \E result \in {"partial", "error"} : CleanUp(c, result, Current(c))
  /\ UNCHANGED <<connection, current, capture, history>>

Dwelt(c) ==
  /\ client[c].pc = "dwelling"
  /\ Goto(c, "stopping")
  /\ UNCHANGED <<connection, current, capture, target, history>>

\* Mutant: an exception of stop() is ignored here too.
StoppedQuietly(c) ==
  /\ client[c].pc = "stopping"
  /\ capture' = Ended(client[c].got)
  /\ Goto(c, "extracting")
  /\ UNCHANGED <<connection, current, target, history>>

\* stop() raises if the capture does not record, and for any other reason.
Stopped(c) ==
  LET k == client[c].got
  IN  /\ client[c].pc = "stopping"
      /\ \/ capture[k] = "recording" /\ capture' = Ended(k) /\ Goto(c, "extracting")
         \/ capture' \in {capture, Ended(k)} /\ Fails(c, Current(c))
  /\ UNCHANGED <<connection, current, target, history>>

\* The next analyzer is added: with a temporary file for its table, or with an empty
\* result if that fails.
AddsAnalyzer(c) ==
  /\ client[c].pc = "extracting" /\ client[c].given < client[c].asked
  /\ \/ client' = [client EXCEPT ![c].pc = "exporting", ![c].files = @ + 1]
     \/ client' = [client EXCEPT ![c].given = @ + 1]
  /\ UNCHANGED <<connection, current, capture, target, history>>

\* Mutant: an analyzer whose export fails ends the loop and leaves its file.
ExportEnds(c) ==
  /\ client[c].pc = "exporting"
  /\ \/ client' = [client EXCEPT ![c].pc = "extracting", ![c].given = @ + 1, ![c].files = @ - 1]
     \/ Goto(c, "ok")
  /\ UNCHANGED <<connection, current, capture, target, history>>

\* The export has returned or failed: there is a result, and the file is removed.
Exported(c) ==
  /\ client[c].pc = "exporting"
  /\ client' = [client EXCEPT ![c].pc = "extracting", ![c].given = @ + 1, ![c].files = @ - 1]
  /\ UNCHANGED <<connection, current, capture, target, history>>

Extracted(c) ==
  /\ client[c].pc = "extracting" /\ client[c].given = client[c].asked
  /\ Goto(c, "ok")
  /\ UNCHANGED <<connection, current, capture, target, history>>

\* stop() has returned, or it has raised and that is ignored: the capture may record on.
Cleaned(c) ==
  LET k == client[c].stops
  IN  /\ client[c].pc = "cleaning"
      /\ \/ capture' = Ended(k) /\ UNCHANGED abandoned
         \/ abandoned' = abandoned \cup ({k} \cap {client[c].got}) /\ UNCHANGED capture
  /\ client' = [client EXCEPT ![c].pc = client[c].after, ![c].stops = 0]
  /\ UNCHANGED <<connection, current, target, covered>>

\* External: a capture ends by itself. (Not before the task that started it resumes: tasks
\* resume in the order in which their start_capture() returned, so no other could tell.)
DeviceEnds(k) ==
  /\ k \in Recording
  /\ \A c \in Clients : client[c].pc = "started" => client[c].got # k
  /\ capture' = Ended(k)
  /\ UNCHANGED <<connection, current, target, client, history>>

\* External: other tools resume and halt the target too.
TargetElsewhere ==
  /\ \A c \in Clients : client[c].pc # "continuing"
  /\ target' = IF target = "halted" THEN "running" ELSE "halted"
  /\ UNCHANGED <<connection, current, capture, client, history>>

\* What a call does by itself, by Logic 2's answers and by its timers.
Advances(c) ==
  \/ \E k \in Captures : DeviceStarts(c, k) \/ StartIsLost(c, k)
  \/ BreakpointSet(c) \/ DeviceRefuses(c) \/ CaptureStarted(c) \/ WaitTimesOut(c)
  \/ ContinueFails(c) \/ Dwelt(c) \/ Stopped(c) \/ AddsAnalyzer(c) \/ Exported(c)
  \/ Extracted(c) \/ Cleaned(c)

Step(c) ==
  \/ \E kind \in Kinds[c], analyzers \in Analyzers[c] : Call(c, kind, analyzers)
  \/ Advances(c) \/ CaptureComplete(c) \/ WaitFails(c) \/ TargetStops(c)

Next ==
  \/ \E c \in Clients : Step(c)
  \/ \E k \in Captures : DeviceEnds(k)
  \/ \E lists \in BOOLEAN : SaleaeConnect(lists)
  \/ SessionDisconnect \/ TargetElsewhere

\* Logic 2 answers and the timers run; that a capture completes by itself or that the
\* target stops is not assumed.
Spec == Init /\ [][Next]_vars /\ \A c \in Clients : WF_vars(Advances(c))

-----------------------------------------------------------------------------

\* Every variable keeps to its values, and Logic 2 records one capture at a time.
TypeOK ==
  /\ created \in 0..MaxConnects /\ registered \in 0..created
  /\ connected \subseteq 1..created
  /\ current \in [Coordinators -> {0} \cup Captures]
  /\ capture \in [Captures -> {"unused", "recording", "ended"}]
  /\ target \in {"halted", "running"}
  /\ client \in [Clients -> Client]
  /\ covered \subseteq Captures /\ abandoned \subseteq Captures
  /\ \A j, k \in Recording : j = k

\* A capture that records is that of a call that goes on, or it is abandoned: Logic 2 began it
\* without saying so, its trigger did not fire in time, or the last thing its own call asked of
\* it, to wait() or to stop(), raised.
NoCaptureLeft ==
  \A k \in Recording \ abandoned :
    \E c \in Clients : client[c].pc \in Active /\ client[c].got = k

\* "Start capture BEFORE continuing": a capture around a breakpoint that ends well was
\* recording when the run it started came to its stop.
StopIsCovered ==
  \A c \in Clients : client[c].kind = "around" /\ client[c].pc = "ok" => client[c].got \in covered

\* A capture that ends well has one result for every analyzer, failed ones included, and
\* however it ends no temporary file stays behind.
ExtractionComplete ==
  \A c \in Clients : client[c].pc \in Finished =>
    /\ client[c].files = 0
    /\ client[c].pc = "ok" => client[c].given = client[c].asked

\* A call returns although the trigger never fires or the target never stops.
CaptureEnds == \A c \in Clients : client[c].pc \in Active ~> client[c].pc \in Finished

\* (Not promised.) A clean-up does not stop the capture of another call that goes on.
OwnCaptureOnly ==
  \A c, d \in Clients :
    c # d /\ client[c].pc = "cleaning" /\ client[d].pc \in Active /\ client[d].got \in Recording
      => client[c].stops # client[d].got
=============================================================================
